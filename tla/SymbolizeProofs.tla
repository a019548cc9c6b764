-------------------------- MODULE SymbolizeProofs --------------------------
(***************************************************************************)
(* Proofs about Symbolize for any process, any object files, any sizes of  *)
(* the buffers and whatever the system calls return: types, lines and the  *)
(* caller's buffer by the invariant IInv, what the call finds by SymInv on *)
(* top of it.                                                              *)
(***************************************************************************)
EXTENDS Symbolize, SequenceTheorems, FiniteSetTheorems, WellFoundedInduction, TLAPS

\* The position where the next line begins.
LineStart == IF lines = 0 THEN 0 ELSE End(maps[lines])

\* What follows the last line in the buffer is what follows it in the file.
AfterLine ==
  /\ lines > 0
  /\ reader.eol < reader.eod
  /\ reader.offset = LineStart + (reader.eod - reader.eol - 1)
  /\ \A p \in reader.eol + 1 .. reader.eod - 1 : reader.buf[p] = LineStart + p - reader.eol - 1

\* A read in progress appends to a part of the file that begins with the next line.
DuringRead ==
  /\ reader.offset = LineStart + reader.append
  /\ \A p \in 0 .. (reader.append + reader.num_bytes) - 1 : reader.buf[p] = LineStart + p

\* The buffer holds a contiguous part of the file.
ReaderInv ==
  /\ lines \in 0 .. Len(maps)
  /\ pc \in {"start", "callback", "open"} => reader = NewReader /\ lines = 0
  /\ pc = "readline" => (reader = NewReader /\ lines = 0) \/ AfterLine
  /\ pc = "parse" => AfterLine /\ LinesWhole
  /\ pc = "pread" => DuringRead

Opening == {"start", "callback", "open", "readline", "pread", "parse", "elftype"}

Reading == {"header", "sections", "strtab", "symbols", "name"}

ReaderOK ==
  /\ scene \in Scenes
  /\ reader \in Reader
  /\ reader.append + reader.num_bytes <= BufLen
  /\ ReaderInv

\* A file is open while it is read, and a symbol has been found while its name is.
FileInv ==
  /\ pc \in {"elftype"} \cup Reading => file \in Files
  /\ pc = "name" => name \in Names

\* The string fits.  Only the callback moves the beginning of out.
OutInv ==
  /\ out \in Seq(Characters) /\ written \in Nat
  /\ OutputFits
  /\ pc \in Opening \/ ~scene.symbolize_callback => written = 0

CallOK ==
  /\ pc \in Opening \cup Reading \cup {"done", "aborted"}
  /\ i \in Nat /\ base_address \in Int /\ {result, trouble, truncated} \subseteq BOOLEAN
  /\ file \in Files \cup {NoFile} /\ table \in Range(Tables) /\ name \in Names \cup {NoName}
  /\ FileInv
  /\ OutInv

IInv == ReaderOK /\ CallOK

----------------------------------------------------------------------------
(* Facts about the data *)

LEMMA MinOfTwo ==
  ASSUME NEW a \in Int, NEW b \in Int
  PROVE  Min({a, b}) \in {a, b} /\ Min({a, b}) <= a /\ Min({a, b}) <= b
<1>1. \E x \in {a, b} : \A y \in {a, b} : x =< y
  <2>1. CASE a <= b
    BY <2>1
  <2>2. CASE b <= a
    BY <2>2
  <2> QED
    BY <2>1, <2>2
<1> QED
  BY <1>1 DEF Min

LEMMA MinOfNaturals ==
  ASSUME NEW S \in SUBSET Nat, S # {}
  PROVE  Min(S) \in S /\ \A y \in S : Min(S) <= y
<1>1. PICK x \in S : \A y \in S : <<y, x>> \notin OpToRel(<, Nat)
  BY NatLessThanWellFounded, WFMin, Zenon
<1>2. \A y \in S : y \in Nat /\ x \in Nat
  OBVIOUS
<1>3. \A y \in S : ~(y < x)
  BY <1>1, <1>2, Zenon DEF OpToRel
<1>4. \A y \in S : x =< y
  BY <1>2, <1>3
<1> QED
  BY <1>4 DEF Min

\* What the assumption says of the scene of a behaviour.
LEMMA SceneFacts ==
  ASSUME scene \in Scenes
  PROVE  /\ scene \in Scene
         /\ scene.pc0 \in Nat /\ scene.out_size \in Nat /\ scene.bias \in Int
         /\ scene.callback \in Int
         /\ scene.symbolize_callback => scene.callback < scene.out_size
         /\ scene.objects \in [Files -> ObjectFile]
         /\ maps \in Seq(Line) /\ Contiguous(maps)
BY ScenesAssumption DEF Scene, maps

LEMMA LineFacts ==
  ASSUME scene \in Scenes
  PROVE  /\ Len(maps) \in Nat \ {0} /\ DOMAIN maps = 1 .. Len(maps)
         /\ maps[1].pos = 0
         /\ \A k \in 1 .. Len(maps) : /\ maps[k] \in Line
                                      /\ maps[k].pos \in Nat /\ maps[k].len \in Nat
                                      /\ maps[k].len > 1
                                      /\ End(maps[k]) = maps[k].pos + maps[k].len
                                      /\ End(maps[k]) \in Nat
         /\ \A k \in 1 .. Len(maps) : k > 1 => maps[k].pos = End(maps[k - 1])
         /\ \A j, k \in 1 .. Len(maps) : j < k => End(maps[j]) <= maps[k].pos
<1>1. maps \in Seq(Line) /\ Contiguous(maps)
  BY SceneFacts
<1>2. Len(maps) \in Nat /\ DOMAIN maps = 1 .. Len(maps)
  BY <1>1
<1>3. maps # <<>> /\ maps[1].pos = 0
  BY <1>1 DEF Contiguous
<1>4. Len(maps) # 0
  BY <1>1, <1>3, EmptySeq
<1>5. \A k \in 1 .. Len(maps) : maps[k] \in Line
  BY <1>1, <1>2
<1>6. \A k \in 1 .. Len(maps) : maps[k].pos \in Nat /\ maps[k].len \in Nat /\ maps[k].len > 1
  BY <1>5 DEF Line
<1>7. \A k \in 1 .. Len(maps) : k > 1 => maps[k].pos = End(maps[k - 1])
  BY <1>1, <1>2 DEF Contiguous, End
<1>8. \A j, k \in 1 .. Len(maps) : j < k => End(maps[j]) <= maps[k].pos
  BY <1>1, <1>2 DEF Contiguous, End
<1> QED
  BY <1>2, <1>3, <1>4, <1>5, <1>6, <1>7, <1>8 DEF End

----------------------------------------------------------------------------
(* Lines *)

\* The first line feed in the buffer is that of the line that begins at bol.
LEMMA FirstLineFeed ==
  ASSUME scene \in Scenes, NEW r \in Reader, NEW bol \in 0 .. r.eod, lines \in 0 .. Len(maps),
         \A p \in bol .. r.eod - 1 : r.buf[p] = LineStart + p - bol,
         FindLineFeed(r, bol) # {}
  PROVE  /\ lines + 1 \in 1 .. Len(maps)
         /\ LineStart = maps[lines + 1].pos
         /\ Min(FindLineFeed(r, bol)) = bol + maps[lines + 1].len - 1
         /\ Min(FindLineFeed(r, bol)) \in bol .. r.eod - 1
<1> DEFINE feeds == FindLineFeed(r, bol)
           line == maps[lines + 1]
           q == bol + line.len - 1
<1>1. r.eod \in 0 .. BufLen /\ BufLen \in Nat /\ bol \in Nat /\ r.eod \in Nat
  BY SymbolizeAssumption DEF Reader
<1>2. /\ LineStart \in Nat
      /\ lines = 0 => LineStart = 0
      /\ lines # 0 => lines \in 1 .. Len(maps) /\ LineStart = End(maps[lines])
  <2>1. lines # 0 => lines \in 1 .. Len(maps)
    BY LineFacts
  <2> QED
    BY <2>1, LineFacts DEF LineStart
<1>3. \A p \in feeds : \E k \in 1 .. Len(maps) :
        /\ p \in bol .. r.eod - 1
        /\ LineStart + p - bol = End(maps[k]) - 1
        /\ k > lines
  <2> SUFFICES ASSUME NEW p \in feeds
               PROVE  \E k \in 1 .. Len(maps) : /\ p \in bol .. r.eod - 1
                                                /\ LineStart + p - bol = End(maps[k]) - 1
                                                /\ k > lines
    OBVIOUS
  <2>1. p \in bol .. r.eod - 1 /\ IsLineFeed(r.buf[p])
    BY DEF FindLineFeed
  <2>2. PICK k \in 1 .. Len(maps) : r.buf[p] = End(maps[k]) - 1
    BY <2>1, LineFacts DEF IsLineFeed
  <2>3. LineStart + p - bol = End(maps[k]) - 1
    BY <2>1, <2>2
  <2>4. ASSUME k <= lines PROVE FALSE
    <3>1. lines \in 1 .. Len(maps) /\ LineStart = End(maps[lines])
      BY <2>4, <1>2
    <3>2. End(maps[k]) \in Nat /\ End(maps[lines]) \in Nat /\ maps[lines].pos \in Nat
      BY <3>1, LineFacts
    <3>3. End(maps[k]) <= End(maps[lines])
      <4>1. CASE k = lines
        BY <4>1, <3>2
      <4>2. CASE k < lines
        <5>1. End(maps[k]) <= maps[lines].pos
          BY <4>2, <3>1, LineFacts
        <5>2. maps[lines].pos < End(maps[lines])
          BY <3>1, LineFacts
        <5> QED
          BY <5>1, <5>2, <3>2
      <4> QED
        BY <4>1, <4>2, <3>1, <2>4
    <3>4. p - bol >= 0 /\ p \in Int
      BY <2>1, <1>1
    <3> QED
      BY <3>1, <3>2, <3>3, <3>4, <1>1, <2>3
  <2> QED
    <3>1. k \in Nat /\ lines \in Nat
      BY LineFacts
    <3>2. k > lines
      BY <2>4, <3>1
    <3> QED
      BY <2>1, <2>3, <3>2
<1>4. lines + 1 \in 1 .. Len(maps) /\ Len(maps) \in Nat /\ lines \in Nat
  BY <1>3, LineFacts
<1>5. /\ line.pos \in Nat /\ line.len \in Nat /\ line.len > 1
      /\ End(line) = line.pos + line.len
  BY <1>4, LineFacts
<1>6. LineStart = line.pos
  <2>1. CASE lines = 0
    BY <2>1, <1>2, LineFacts
  <2>2. CASE lines # 0
    <3>1. lines + 1 > 1 /\ (lines + 1) - 1 = lines
      BY <2>2, <1>4
    <3>2. maps[lines + 1].pos = End(maps[(lines + 1) - 1])
      BY <3>1, <1>4, LineFacts
    <3> QED
      BY <3>1, <3>2, <2>2, <1>2
  <2> QED
    BY <2>1, <2>2
<1>7. \A p \in feeds : p >= q /\ p \in bol .. r.eod - 1
  <2> SUFFICES ASSUME NEW p \in feeds PROVE p >= q /\ p \in bol .. r.eod - 1
    OBVIOUS
  <2>1. PICK k \in 1 .. Len(maps) : /\ p \in bol .. r.eod - 1
                                    /\ LineStart + p - bol = End(maps[k]) - 1
                                    /\ k > lines
    BY <1>3
  <2>2. End(maps[k]) >= End(line) /\ End(maps[k]) \in Nat
    <3>1. CASE k = lines + 1
      BY <3>1, <1>5
    <3>2. CASE k > lines + 1
      <4>1. End(line) <= maps[k].pos
        BY <3>2, <1>4, LineFacts
      <4>2. /\ End(maps[k]) = maps[k].pos + maps[k].len
            /\ maps[k].pos \in Nat /\ maps[k].len \in Nat
            /\ End(maps[k]) \in Nat
        BY LineFacts
      <4>3. End(line) \in Nat
        BY <1>5
      <4> HIDE DEF line
      <4> QED
        BY <4>1, <4>2, <4>3
    <3> QED
      BY <3>1, <3>2, <2>1, <1>4
  <2> HIDE DEF line
  <2> QED
    BY <2>1, <2>2, <1>1, <1>5, <1>6
<1>8. q \in feeds
  <2>1. q \in bol .. r.eod - 1
    <3> HIDE DEF line, feeds
    <3>1. PICK p \in feeds : p >= q /\ p \in bol .. r.eod - 1
      BY <1>7 DEF feeds
    <3> QED
      BY <3>1, <1>1, <1>5
  <2>2. r.buf[q] = End(line) - 1
    <3> HIDE DEF line
    <3>1. r.buf[q] = LineStart + q - bol
      BY <2>1
    <3> QED
      BY <3>1, <1>1, <1>5, <1>6
  <2> QED
    BY <2>1, <2>2, <1>4, LineFacts DEF FindLineFeed, IsLineFeed
<1>9. Min(feeds) = q
  <2>1. \E x \in feeds : \A y \in feeds : x =< y
    BY <1>7, <1>8, <1>1, <1>5
  <2>2. Min(feeds) \in feeds /\ Min(feeds) =< q
    BY <2>1, <1>8 DEF Min
  <2> QED
    BY <2>2, <1>7, <1>8, <1>1, <1>5
<1> QED
  BY <1>4, <1>6, <1>7, <1>8, <1>9

\* TakeLine returns the next line, or ends the call.
LEMMA TakesLine ==
  ASSUME scene \in Scenes, UNCHANGED scene,
         NEW r \in Reader, NEW bol \in 0 .. r.eod, lines \in 0 .. Len(maps),
         \A p \in bol .. r.eod - 1 : r.buf[p] = LineStart + p - bol,
         r.offset = LineStart + (r.eod - bol),
         r.append + r.num_bytes <= BufLen,
         TakeLine(r, bol)
  PROVE  ReaderOK'
<1> DEFINE feeds == FindLineFeed(r, bol)
           line == maps[lines + 1]
           pos == line.pos
           len == line.len
           eol == bol + len - 1
           buf == [r.buf EXCEPT ![eol] = NUL]
<1>a. BufLen \in Nat /\ r.eod \in Nat /\ r.eod <= BufLen /\ bol \in Nat /\ bol <= r.eod
  BY SymbolizeAssumption DEF Reader
<1>b. r.buf \in [0 .. BufLen - 1 -> Nat \cup {NUL}]
  BY DEF Reader
<1>c. r.offset \in Nat /\ lines \in Nat /\ Len(maps) \in Nat
  BY LineFacts DEF Reader
<1>0. /\ r.eod \in 0 .. BufLen /\ BufLen \in Nat /\ bol \in 0 .. BufLen /\ r.eod \in Nat
      /\ r.buf \in [0 .. BufLen - 1 -> Nat \cup {NUL}] /\ r.offset \in Nat
      /\ Len(maps) \in Nat /\ lines \in Nat
  BY <1>a, <1>b, <1>c
<1>1. maps' = maps
  BY DEF maps
<1>2. CASE feeds = {}
  <2>1. /\ reader' = [r EXCEPT !.bol = bol] /\ lines' = lines /\ pc' = "done"
    BY <1>2 DEF TakeLine, ReturnUnopened, Return
  <2>2. reader' \in Reader /\ reader'.append = r.append /\ reader'.num_bytes = r.num_bytes
    BY <2>1, <1>0 DEF Reader
  <2> QED
    BY <2>1, <2>2, <1>0, <1>1 DEF ReaderInv, ReaderOK
<1>3. CASE feeds # {}
  <2>1. /\ lines + 1 \in 1 .. Len(maps) /\ LineStart = line.pos
        /\ Min(feeds) = eol /\ eol \in bol .. r.eod - 1
    BY <1>3, FirstLineFeed
  <2>2. /\ reader' = [r EXCEPT !.bol = bol, !.eol = eol, !.buf[eol] = NUL]
        /\ lines' = lines + 1 /\ pc' = "parse"
    BY <1>3, <2>1 DEF TakeLine
  <2>3. /\ line.pos \in Nat /\ line.len \in Nat /\ line.len > 1
        /\ End(line) = line.pos + line.len
    BY <2>1, LineFacts
  <2>4. /\ eol \in 0 .. BufLen - 1 /\ eol \in Nat /\ eol = bol + len - 1
        /\ LineStart = pos /\ pos \in Nat /\ len \in Nat /\ len > 1
    <3>1. eol = bol + len - 1 /\ LineStart = pos /\ pos \in Nat /\ len \in Nat /\ len > 1
      BY <2>1, <2>3
    <3>2. eol \in bol .. r.eod - 1
      BY <2>1
    <3> HIDE DEF eol, len, pos
    <3> QED
      BY <1>a, <3>1, <3>2
  <2>5. reader' = [r EXCEPT !.bol = bol, !.eol = eol, !.buf = buf]
    BY <2>2 DEF Reader
  <2>6. buf \in [0 .. BufLen - 1 -> Nat \cup {NUL}]
    BY <1>0, <2>4
  <2>7. \A p \in bol .. r.eod - 1 : p # eol => buf[p] = pos + p - bol
    <3> SUFFICES ASSUME NEW p \in bol .. r.eod - 1, p # eol PROVE buf[p] = pos + p - bol
      OBVIOUS
    <3>1. p \in 0 .. BufLen - 1
      BY <1>a
    <3>2. buf[p] = r.buf[p]
      BY <3>1, <1>b
    <3>3. r.buf[p] = LineStart + p - bol
      OBVIOUS
    <3> QED
      BY <3>2, <3>3, <2>4
  <2>8. LineStart' = pos + len
    <3>1. LineStart' = IF lines' = 0 THEN 0 ELSE End(maps'[lines'])
      BY DEF LineStart, End
    <3> QED
      BY <3>1, <2>2, <2>3, <1>0, <1>1
  <2> HIDE DEF line, pos, len, eol, buf
  <2>9. reader' \in Reader
    <3>1. bol \in 0 .. BufLen /\ eol \in 0 .. BufLen
      BY <1>a, <2>4
    <3> QED
      BY <3>1, <2>5, <2>6 DEF Reader
  <2>10. /\ reader'.bol = bol /\ reader'.eol = eol /\ reader'.eod = r.eod
         /\ reader'.offset = r.offset /\ reader'.append = r.append
         /\ reader'.num_bytes = r.num_bytes /\ reader'.buf = buf
    BY <2>5 DEF Reader
  <2>11. AfterLine'
    <3>1. lines' > 0 /\ reader'.eol < reader'.eod
      <4>1. eol < r.eod
        BY <2>1, <1>a
      <4>2. lines' > 0
        BY <2>2, <1>c
      <4> QED
        BY <4>1, <4>2, <2>10
    <3>2. reader'.offset = LineStart' + (reader'.eod - reader'.eol - 1)
      BY <2>4, <2>8, <2>10, <1>0
    <3>3. \A p \in eol + 1 .. r.eod - 1 : buf[p] = LineStart' + p - eol - 1
      <4> SUFFICES ASSUME NEW p \in eol + 1 .. r.eod - 1
                   PROVE  buf[p] = LineStart' + p - eol - 1
        OBVIOUS
      <4>1. p \in bol .. r.eod - 1 /\ p # eol
        BY <2>4, <1>0
      <4>2. buf[p] = pos + p - bol
        BY <4>1, <2>7
      <4> QED
        BY <4>1, <4>2, <2>4, <2>8, <1>0
    <3> QED
      BY <3>1, <3>2, <3>3, <2>10 DEF AfterLine
  <2>12. LinesWhole'
    <3>1. \A p \in bol .. eol - 1 : buf[p] = pos + p - bol
      <4> SUFFICES ASSUME NEW p \in bol .. eol - 1 PROVE buf[p] = pos + p - bol
        OBVIOUS
      <4>1. p \in bol .. r.eod - 1 /\ p # eol
        BY <2>1, <2>4, <1>0
      <4> QED
        BY <4>1, <2>7
    <3> QED
      BY <3>1, <2>2, <2>4, <2>10, <1>1 DEF LinesWhole, line, pos, len
  <2> QED
    BY <2>1, <2>2, <2>9, <2>10, <2>11, <2>12, <1>0, <1>1 DEF ReaderInv, ReaderOK
<1> QED
  BY <1>2, <1>3

\* Each step of the LineReader preserves what its buffer holds.
LEMMA ReadLineKeeps ==
  ASSUME ReaderOK, ReadLine
  PROVE  ReaderOK'
<1> DEFINE bol == reader.eol + 1
<1>1. /\ scene \in Scenes /\ UNCHANGED scene /\ reader \in Reader /\ ReaderInv
      /\ reader.append + reader.num_bytes <= BufLen /\ pc = "readline"
      /\ lines \in 0 .. Len(maps) /\ maps' = maps /\ Len(maps) \in Nat
      /\ (reader = NewReader /\ lines = 0) \/ AfterLine
  BY LineFacts DEF ReaderOK, ReaderInv, ReadLine, maps
<1>2. /\ reader.eol \in Nat /\ reader.eod \in Nat /\ reader.eod <= BufLen /\ BufLen \in Nat
      /\ reader.offset \in Nat /\ reader.buf \in [0 .. BufLen - 1 -> Nat \cup {NUL}]
  BY <1>1, SymbolizeAssumption DEF Reader
<1>3. LineStart \in Nat
  <2>1. CASE lines = 0
    BY <2>1 DEF LineStart
  <2>2. CASE lines # 0
    <3>1. lines \in 1 .. Len(maps)
      BY <2>2, <1>1
    <3> QED
      BY <3>1, <2>2, <1>1, LineFacts DEF LineStart
  <2> QED
    BY <2>1, <2>2
<1>4. lines' = lines => LineStart' = LineStart
  BY <1>1 DEF LineStart, End
<1>5. CASE reader.eod = 0
  <2>1. reader = NewReader /\ lines = 0
    BY <1>1, <1>2, <1>5 DEF AfterLine
  <2>2. /\ reader' = [reader EXCEPT !.append = 0, !.num_bytes = 0]
        /\ pc' = "pread" /\ lines' = lines
    BY <1>5 DEF ReadLine, StartRead
  <2>3. reader' \in Reader /\ reader'.append = 0 /\ reader'.num_bytes = 0
    <3>1. reader \in Reader /\ 0 \in 0 .. BufLen
      BY <1>1, <1>2
    <3> QED
      BY <3>1, <2>2 DEF Reader
  <2>4. reader'.offset = 0 /\ LineStart' = 0
    BY <2>1, <2>2, <1>4 DEF NewReader, LineStart
  <2> QED
    BY <2>2, <2>3, <2>4, <1>1, <1>2 DEF ReaderOK, ReaderInv, DuringRead
<1>6. CASE reader.eod # 0
  <2>1. AfterLine
    BY <1>1, <1>6 DEF NewReader
  <2>2. /\ bol \in 0 .. reader.eod /\ bol \in Nat
        /\ reader.offset = LineStart + (reader.eod - bol)
    BY <2>1, <1>2, <1>3 DEF AfterLine
  <2>3. \A p \in bol .. reader.eod - 1 : reader.buf[p] = LineStart + p - bol
    <3> SUFFICES ASSUME NEW p \in bol .. reader.eod - 1
                 PROVE  reader.buf[p] = LineStart + p - bol
      OBVIOUS
    <3>1. reader.buf[p] = LineStart + p - reader.eol - 1
      BY <2>1 DEF AfterLine
    <3> QED
      BY <3>1, <1>2, <1>3
  <2>4. CASE FindLineFeed(reader, bol) # {}
    <3>1. TakeLine(reader, bol)
      BY <2>4, <1>6 DEF ReadLine
    <3> QED
      BY <3>1, <2>2, <2>3, <1>1, TakesLine
  <2>5. CASE FindLineFeed(reader, bol) = {}
    <3> DEFINE count == reader.eod - bol
               buf == Moved(reader, bol)
    <3>1. /\ reader' = [reader EXCEPT !.buf = buf, !.bol = bol, !.append = count, !.num_bytes = 0]
          /\ pc' = "pread" /\ lines' = lines
      BY <2>5, <1>6, <1>1 DEF ReadLine, StartRead, Reader
    <3>2. count \in 0 .. BufLen /\ bol \in 0 .. BufLen
      BY <2>2, <1>2
    <3>3. \A p \in 0 .. count - 1 : /\ p \in 0 .. BufLen - 1
                                      /\ buf[p] = LineStart + p
      <4> SUFFICES ASSUME NEW p \in 0 .. count - 1
                   PROVE  p \in 0 .. BufLen - 1 /\ buf[p] = LineStart + p
        OBVIOUS
      <4>1. p \in 0 .. BufLen - 1 /\ p < count /\ bol + p \in bol .. reader.eod - 1
        <5>1. bol \in Nat /\ reader.eod \in Nat /\ reader.eod <= BufLen /\ BufLen \in Nat
          BY <2>2, <1>2
        <5> HIDE DEF bol
        <5> QED
          BY <5>1
      <4>2. buf[p] = reader.buf[bol + p]
        BY <4>1 DEF Moved
      <4>3. reader.buf[bol + p] = LineStart + (bol + p) - bol
        BY <4>1, <2>3
      <4> QED
        BY <4>1, <4>2, <4>3, <2>2, <1>3
    <3>4. buf \in [0 .. BufLen - 1 -> Nat \cup {NUL}]
      <4> SUFFICES ASSUME NEW p \in 0 .. BufLen - 1
                   PROVE  (IF p < count THEN reader.buf[bol + p] ELSE reader.buf[p])
                            \in Nat \cup {NUL}
        BY DEF Moved
      <4>1. p < count => bol + p \in 0 .. BufLen - 1
        BY <2>2, <3>2, <1>2
      <4> QED
        BY <4>1, <1>2
    <3> HIDE DEF count, buf, bol
    <3>5. reader' \in Reader
      <4>1. reader \in Reader /\ 0 \in 0 .. BufLen
        BY <1>1, <1>2
      <4> QED
        BY <4>1, <3>1, <3>2, <3>4 DEF Reader
    <3>6. /\ reader'.append = count /\ reader'.num_bytes = 0 /\ reader'.buf = buf
          /\ reader'.offset = reader.offset
      BY <3>1, <1>1 DEF Reader
    <3>7. reader'.offset = LineStart' + reader'.append
      BY <3>1, <3>6, <2>2, <1>4 DEF count
    <3>8. \A p \in 0 .. (reader'.append + reader'.num_bytes) - 1 : reader'.buf[p] = LineStart' + p
      BY <3>1, <3>2, <3>3, <3>6, <1>4
    <3> QED
      BY <3>1, <3>2, <3>5, <3>6, <3>7, <3>8, <1>1, <1>2 DEF ReaderOK, ReaderInv, DuringRead
  <2> QED
    BY <2>4, <2>5
<1> QED
  BY <1>5, <1>6

LEMMA PreadKeeps ==
  ASSUME ReaderOK, Pread
  PROVE  ReaderOK'
<1> DEFINE at == reader.append + reader.num_bytes
           from == reader.offset + reader.num_bytes
<1>1. /\ scene \in Scenes /\ UNCHANGED <<scene, pc, lines>> /\ maps' = maps /\ pc = "pread"
      /\ reader \in Reader /\ lines \in 0 .. Len(maps)
      /\ reader.offset = LineStart + reader.append
      /\ \A p \in 0 .. at - 1 : reader.buf[p] = LineStart + p
  <2>1. scene \in Scenes /\ reader \in Reader /\ ReaderInv
    BY DEF ReaderOK
  <2>2. UNCHANGED <<scene, pc, lines>> /\ pc = "pread"
    BY DEF Pread, ghosts
  <2>3. maps' = maps
    BY <2>2 DEF maps
  <2>4. lines \in 0 .. Len(maps) /\ DuringRead
    BY <2>1, <2>2 DEF ReaderInv
  <2> QED
    BY <2>1, <2>2, <2>3, <2>4 DEF DuringRead
<1>2. /\ reader.append \in Nat /\ reader.num_bytes \in Nat /\ reader.offset \in Nat
      /\ BufLen \in Nat /\ at \in Nat /\ from \in Nat
      /\ reader.buf \in [0 .. BufLen - 1 -> Nat \cup {NUL}]
  BY <1>1, SymbolizeAssumption DEF Reader
<1>3. LineStart' = LineStart /\ LineStart \in Int
  <2>1. LineStart' = LineStart
    BY <1>1 DEF LineStart, End
  <2>2. CASE lines = 0
    BY <2>1, <2>2 DEF LineStart
  <2>3. CASE lines # 0
    <3>1. lines \in 1 .. Len(maps)
      BY <2>3, <1>1, LineFacts
    <3> QED
      BY <3>1, <2>1, <2>3, <1>1, LineFacts DEF LineStart
  <2> QED
    BY <2>2, <2>3
<1>4. from = LineStart + at
  BY <1>1, <1>2, <1>3
<1>5. PICK n \in 1 .. Min({Wanted, Left}) :
        reader' = [reader EXCEPT !.num_bytes = @ + n,
                     !.buf = [p \in 0 .. BufLen - 1 |->
                                IF p \in at .. at + n - 1 THEN from + p - at ELSE @[p]]]
  BY DEF Pread
<1>6. n \in Nat /\ at + n <= BufLen
  <2>1. Wanted \in Int /\ Left \in Int
    <3>1. MapsLength \in Int
      BY <1>1, LineFacts DEF MapsLength
    <3> QED
      BY <3>1, <1>2 DEF Wanted, Left
  <2>2. Min({Wanted, Left}) \in Int /\ Min({Wanted, Left}) <= Wanted
    BY <2>1, MinOfTwo
  <2>3. n \in Nat /\ n <= Wanted
    BY <2>1, <2>2
  <2> QED
    BY <2>3, <1>2 DEF Wanted
<1> DEFINE num == reader.num_bytes + n
           buf == [p \in 0 .. BufLen - 1 |->
                     IF p \in at .. at + n - 1 THEN from + p - at ELSE reader.buf[p]]
<1>7. reader' = [reader EXCEPT !.num_bytes = num, !.buf = buf]
  BY <1>5, <1>1 DEF Reader
<1>8. num \in 0 .. BufLen /\ reader.append + num = at + n
  BY <1>2, <1>6
<1>9. buf \in [0 .. BufLen - 1 -> Nat \cup {NUL}]
  <2> SUFFICES ASSUME NEW p \in 0 .. BufLen - 1
               PROVE  (IF p \in at .. at + n - 1 THEN from + p - at ELSE reader.buf[p])
                        \in Nat \cup {NUL}
    OBVIOUS
  <2>1. reader.buf[p] \in Nat \cup {NUL}
    BY <1>2
  <2>2. ASSUME p \in at .. at + n - 1 PROVE from + p - at \in Nat
    <3> HIDE DEF at, from
    <3> QED
      BY <2>2, <1>2, <1>6
  <2> QED
    BY <2>1, <2>2
<1>10. \A p \in 0 .. (at + n) - 1 : buf[p] = LineStart + p
  <2> SUFFICES ASSUME NEW p \in 0 .. (at + n) - 1 PROVE buf[p] = LineStart + p
    OBVIOUS
  <2> HIDE DEF at, from
  <2>1. p \in 0 .. BufLen - 1 /\ (p \in 0 .. at - 1 \/ p \in at .. at + n - 1)
    BY <1>2, <1>6
  <2>2. CASE p \in at .. at + n - 1
    <3>1. buf[p] = from + p - at
      BY <2>1, <2>2
    <3> QED
      BY <3>1, <1>2, <1>3, <1>4, <2>2, <1>6
  <2>3. CASE p \in 0 .. at - 1
    <3>1. ~(p \in at .. at + n - 1)
      BY <2>3, <1>2, <1>6
    <3>2. buf[p] = reader.buf[p]
      BY <2>1, <3>1
    <3> QED
      BY <3>2, <2>3, <1>1
  <2> QED
    BY <2>1, <2>2, <2>3
<1> HIDE DEF num, buf
<1>11. reader' \in Reader
  BY <1>1, <1>7, <1>8, <1>9 DEF Reader
<1>12. /\ reader'.append = reader.append /\ reader'.num_bytes = num /\ reader'.buf = buf
       /\ reader'.offset = reader.offset
  BY <1>1, <1>7 DEF Reader
<1> QED
  <2>1. reader'.append + reader'.num_bytes = at + n
    BY <1>8, <1>12
  <2>2. \A p \in 0 .. (reader'.append + reader'.num_bytes) - 1 : reader'.buf[p] = LineStart' + p
    <3> SUFFICES ASSUME NEW p \in 0 .. (at + n) - 1 PROVE buf[p] = LineStart + p
      BY <2>1, <1>3, <1>12
    <3> QED
      BY <1>10
  <2>3. reader'.offset = LineStart' + reader'.append
    BY <1>1, <1>3, <1>12
  <2> HIDE DEF at, from
  <2> QED
    BY <2>1, <2>2, <2>3, <1>1, <1>6, <1>11 DEF ReaderOK, ReaderInv, DuringRead

LEMMA RefillKeeps ==
  ASSUME ReaderOK, Refill
  PROVE  ReaderOK'
<1> DEFINE at == reader.append + reader.num_bytes
<1>1. /\ scene \in Scenes /\ UNCHANGED scene /\ maps' = maps /\ pc = "pread"
      /\ reader \in Reader /\ lines \in 0 .. Len(maps) /\ at <= BufLen
      /\ reader.offset = LineStart + reader.append
      /\ \A p \in 0 .. at - 1 : reader.buf[p] = LineStart + p
  <2>1. scene \in Scenes /\ reader \in Reader /\ ReaderInv /\ at <= BufLen
    BY DEF ReaderOK
  <2>2. UNCHANGED scene /\ pc = "pread"
    BY DEF Refill
  <2>3. maps' = maps
    BY <2>2 DEF maps
  <2>4. lines \in 0 .. Len(maps) /\ DuringRead
    BY <2>1, <2>2 DEF ReaderInv
  <2> QED
    BY <2>1, <2>2, <2>3, <2>4 DEF DuringRead
<1>2. /\ reader.append \in Nat /\ reader.num_bytes \in Nat /\ reader.offset \in Nat
      /\ BufLen \in Nat /\ at \in Nat
  BY <1>1, SymbolizeAssumption DEF Reader
<1>3. CASE reader.num_bytes = 0
  <2>1. pc' = "done" /\ UNCHANGED <<reader, lines>>
    BY <1>3 DEF Refill, ReturnUnopened, Return
  <2> QED
    BY <2>1, <1>1 DEF ReaderOK, ReaderInv
<1>4. CASE reader.num_bytes # 0
  <2>1. TakeLine(Refilled, 0)
    BY <1>4 DEF Refill
  <2>2. Refilled = [reader EXCEPT !.offset = reader.offset + reader.num_bytes, !.eod = at]
    BY <1>1 DEF Refilled, Reader
  <2>3. at \in 0 .. BufLen /\ reader.offset + reader.num_bytes \in Nat
    BY <1>1, <1>2
  <2> HIDE DEF at
  <2>4. Refilled \in Reader
    BY <2>2, <2>3, <1>1 DEF Reader
  <2>5. /\ Refilled.eod = at /\ Refilled.buf = reader.buf
        /\ Refilled.offset = reader.offset + reader.num_bytes
        /\ Refilled.append = reader.append /\ Refilled.num_bytes = reader.num_bytes
    BY <2>2, <1>1 DEF Reader
  <2>6. LineStart \in Int
    <3>1. CASE lines = 0
      BY <3>1 DEF LineStart
    <3>2. CASE lines # 0
      <4>1. lines \in 1 .. Len(maps)
        BY <3>2, <1>1, LineFacts
      <4> QED
        BY <4>1, <3>2, <1>1, LineFacts DEF LineStart
    <3> QED
      BY <3>1, <3>2
  <2>7. \A p \in 0 .. Refilled.eod - 1 : Refilled.buf[p] = LineStart + p - 0
    <3> SUFFICES ASSUME NEW p \in 0 .. at - 1 PROVE reader.buf[p] = LineStart + p - 0
      BY <2>5
    <3>1. reader.buf[p] = LineStart + p
      BY <1>1 DEF at
    <3> QED
      BY <3>1, <2>6, <1>2
  <2>8. Refilled.offset = LineStart + (Refilled.eod - 0)
    BY <2>5, <2>6, <1>1, <1>2 DEF at
  <2>9. 0 \in 0 .. Refilled.eod /\ Refilled.append + Refilled.num_bytes <= BufLen
    BY <2>3, <2>5, <1>1 DEF at
  <2> QED
    BY <2>1, <2>4, <2>7, <2>8, <2>9, <1>1, TakesLine
<1> QED
  BY <1>3, <1>4

\* The other steps leave the reader alone.
LEMMA ReaderUnaffected ==
  ASSUME ReaderOK, UNCHANGED <<scene, reader, lines>>,
         pc' \notin {"start", "callback", "parse", "pread"},
         pc' = "open" => pc \in {"start", "callback", "open"},
         pc' = "readline" => pc \in {"open", "parse", "readline"}
  PROVE  ReaderOK'
<1>1. maps' = maps /\ LineStart' = LineStart
  BY DEF maps, LineStart, End
<1>2. AfterLine' <=> AfterLine
  BY <1>1 DEF AfterLine
<1> QED
  BY <1>1, <1>2 DEF ReaderOK, ReaderInv

LEMMA NextKeepsReader ==
  ASSUME IInv, [Next]_vars
  PROVE  ReaderOK'
<1>1. ReaderOK
  BY DEF IInv
<1>2. CASE Start
  <2>1. CASE scene.out_size >= 1 /\ scene.open_callback
    <3>1. UNCHANGED <<scene, reader, lines>> /\ pc = "start"
      BY <1>2 DEF Start, ghosts
    <3>2. ~(scene.out_size < 1)
      BY <2>1, <1>1, SceneFacts DEF ReaderOK
    <3>3. pc' = "callback"
      BY <1>2, <2>1, <3>2 DEF Start
    <3>4. maps' = maps
      BY <3>1 DEF maps
    <3> QED
      BY <3>1, <3>3, <3>4, <1>1 DEF ReaderOK, ReaderInv
  <2>2. CASE ~(scene.out_size >= 1 /\ scene.open_callback)
    <3>1. UNCHANGED <<scene, reader, lines>> /\ pc = "start" /\ pc' \in {"open", "done"}
      BY <1>2, <2>2, SceneFacts, <1>1 DEF Start, ghosts, Return, ReaderOK
    <3> QED
      BY <3>1, <1>1, ReaderUnaffected
  <2> QED
    BY <2>1, <2>2
<1>3. CASE ReadLine
  BY <1>1, <1>3, ReadLineKeeps
<1>4. CASE Pread
  BY <1>1, <1>4, PreadKeeps
<1>5. CASE Refill
  BY <1>1, <1>5, RefillKeeps
<1>6. CASE UNCHANGED vars
  BY <1>1, <1>6 DEF vars, ghosts, ReaderOK, ReaderInv, AfterLine, DuringRead, LinesWhole,
                    LineStart, maps, End
<1>7. CASE \/ OpenCallback \/ OpenMaps \/ PreadFails \/ ExamineLine
  <2>1. UNCHANGED <<scene, reader, lines>>
    BY <1>7 DEF OpenCallback, OpenMaps, PreadFails, ExamineLine, ghosts
  <2>2. /\ pc' \in {"readline", "elftype", "done"}
        /\ pc' = "readline" => pc \in {"open", "parse"}
    BY <1>7 DEF OpenCallback, OpenMaps, PreadFails, ExamineLine, ReturnUnopened, Return, Opened
  <2> QED
    BY <2>1, <2>2, <1>1, ReaderUnaffected
<1>8. CASE \/ FileGetElfType \/ ReadHeader \/ GetSectionHeaderByType \/ ReadStrtab
           \/ FindSymbol \/ ReadName
  <2>1. UNCHANGED <<scene, reader, lines>>
    BY <1>8 DEF FileGetElfType, ReadHeader, GetSectionHeaderByType, ReadStrtab, FindSymbol,
                ReadName, ReadsExactly, Reads, ghosts
  <2>2. pc' \in Reading \cup {"done", "aborted"}
    BY <1>8 DEF FileGetElfType, ReadHeader, GetSectionHeaderByType, ReadStrtab, FindSymbol,
                ReadName, NotInTable, ReturnMissing, Return, AssertFail, Reading
  <2> QED
    BY <2>1, <2>2, <1>1, ReaderUnaffected DEF Reading
<1> QED
  BY <1>2, <1>3, <1>4, <1>5, <1>6, <1>7, <1>8 DEF Next, Step, Terminated

----------------------------------------------------------------------------
(* Strings *)

LEMMA StrFacts ==
  ASSUME NEW n \in Names \cup Files
  PROVE  /\ Str(n) \in Seq(Characters)
         /\ Length[n] \in Nat /\ Len(Str(n)) = Length[n]
<1>1. Length[n] \in Nat
  BY SymbolizeAssumption
<1>2. \A p \in 1 .. Length[n] : <<n, p>> \in Characters
  BY <1>1 DEF Characters
<1> QED
  BY <1>1, <1>2 DEF Str

LEMMA HexFacts ==
  ASSUME NEW value \in Int
  PROVE  Hex(value) \in Seq(Characters)
<1> DEFINE S == {n \in 1 .. HexDigits - 1 : value < 0 \/ value >= 16 ^ n}
           digits == 1 + Cardinality(S)
<1>1. HexDigits - 1 \in Int
  BY SymbolizeAssumption
<1>2. IsFiniteSet(1 .. HexDigits - 1)
  BY <1>1, FS_Interval
<1>3. IsFiniteSet(S)
  <2>1. S \in SUBSET (1 .. HexDigits - 1)
    OBVIOUS
  <2> QED
    BY <1>2, <2>1, FS_Subset
<1>4. Cardinality(S) \in Nat
  BY <1>3, FS_CardinalityType
<1>5. digits \in Nat
  BY <1>4
<1>6. Hex(value) = [p \in 1 .. digits |-> <<"hex", value, p>>]
  BY DEF Hex
<1> HIDE DEF digits
<1>7. \A p \in 1 .. digits : <<"hex", value, p>> \in Characters
  BY <1>5 DEF Characters
<1> QED
  BY <1>5, <1>6, <1>7

LEMMA PrefixFacts ==
  ASSUME NEW s \in Seq(Characters), NEW n \in Int
  PROVE  /\ Prefix(s, n) \in Seq(Characters)
         /\ n >= 0 => Len(Prefix(s, n)) <= n
         /\ n < 0 => Len(Prefix(s, n)) = 0
<1> DEFINE m == Min({n, Len(s)})
<1>1. Len(s) \in Nat
  OBVIOUS
<1>2. m \in Int /\ m <= n /\ m <= Len(s)
  BY <1>1, MinOfTwo
<1> HIDE DEF m
<1>3. \A p \in 1 .. m : s[p] \in Characters
  BY <1>1, <1>2
<1>4. /\ SubSeq(s, 1, m) \in Seq(Characters)
      /\ Len(SubSeq(s, 1, m)) = IF 1 <= m THEN m - 1 + 1 ELSE 0
  BY <1>2, <1>3, SubSeqProperties
<1>5. Prefix(s, n) = SubSeq(s, 1, m)
  BY DEF Prefix, m
<1> QED
  BY <1>2, <1>4, <1>5

\* SafeAppendString never fills the last byte, which is for the NUL.
LEMMA AppendFacts ==
  ASSUME NEW source \in Seq(Characters), NEW dest \in Seq(Characters), NEW size \in Int
  PROVE  /\ SafeAppendString(source, dest, size) \in Seq(Characters)
         /\ Len(dest) < size => Len(SafeAppendString(source, dest, size)) < size
<1> DEFINE n == size - Len(dest) - 1
           part == Prefix(source, n)
<1>1. n \in Int /\ Len(dest) \in Nat
  OBVIOUS
<1>2. part \in Seq(Characters) /\ (n >= 0 => Len(part) <= n) /\ Len(part) \in Nat
  BY <1>1, PrefixFacts
<1>3. Len(dest) < size => n >= 0
  BY <1>1
<1>4. Len(dest) < size => Len(part) <= size - Len(dest) - 1
  BY <1>2, <1>3
<1> HIDE DEF part
<1>5. dest \o part \in Seq(Characters) /\ Len(dest \o part) = Len(dest) + Len(part)
  BY <1>2, ConcatProperties
<1>6. SafeAppendString(source, dest, size) = dest \o part
  BY DEF SafeAppendString, part
<1> QED
  BY <1>1, <1>2, <1>4, <1>5, <1>6

LEMMA LiteralFacts ==
  /\ <<<<"(", 1>>>> \in Seq(Characters) /\ <<<<")", 1>>>> \in Seq(Characters)
  /\ <<<<"+", 1>>, <<"0", 1>>, <<"x", 1>>>> \in Seq(Characters)
<1>1. /\ <<"(", 1>> \in Characters /\ <<")", 1>> \in Characters /\ <<"+", 1>> \in Characters
      /\ <<"0", 1>> \in Characters /\ <<"x", 1>> \in Characters
  BY DEF Characters
<1> QED
  BY <1>1

LEMMA AppendOffsetFacts ==
  ASSUME scene \in Scenes, NEW text \in Seq(Characters), NEW base \in Int, NEW size \in Int
  PROVE  /\ AppendOffset(text, base, size) \in Seq(Characters)
         /\ Len(text) < size => Len(AppendOffset(text, base, size)) < size
<1> DEFINE plus == SafeAppendString(<<<<"+", 1>>, <<"0", 1>>, <<"x", 1>>>>, text, size)
           offset == SafeAppendString(Hex(scene.pc0 - base), plus, size)
<1>1. plus \in Seq(Characters) /\ (Len(text) < size => Len(plus) < size)
  BY LiteralFacts, AppendFacts
<1>2. Hex(scene.pc0 - base) \in Seq(Characters)
  <2>1. scene.pc0 - base \in Int
    BY SceneFacts
  <2> QED
    BY <2>1, HexFacts
<1> HIDE DEF plus
<1>3. offset \in Seq(Characters) /\ (Len(plus) < size => Len(offset) < size)
  BY <1>1, <1>2, AppendFacts
<1> HIDE DEF offset
<1>4. AppendOffset(text, base, size) = SafeAppendString(<<<<")", 1>>>>, offset, size)
  BY DEF AppendOffset, offset, plus
<1>5. /\ AppendOffset(text, base, size) \in Seq(Characters)
      /\ Len(offset) < size => Len(AppendOffset(text, base, size)) < size
  BY <1>3, <1>4, LiteralFacts, AppendFacts
<1> QED
  BY <1>1, <1>3, <1>5

----------------------------------------------------------------------------
(* The rest of the call *)

\* The call ends with text, or with text and an offset.
LEMMA ReturnKeeps ==
  ASSUME IInv, UNCHANGED <<scene, i, table, name>>,
         base_address' \in Int, file' \in Files \cup {NoFile},
         trouble' \in BOOLEAN, truncated' \in BOOLEAN,
         NEW text \in Seq(Characters), NEW base \in Int,
         scene.out_size > 0 => written + Len(text) < scene.out_size,
         \/ written = 0 /\ ReturnUnopened(text, base)
         \/ ReturnMissing(text)
         \/ \E value \in BOOLEAN : Return(value, text)
  PROVE  CallOK'
<1>0. /\ scene \in Scenes /\ written \in Nat /\ scene.out_size \in Nat /\ base_address \in Int
      /\ ~scene.symbolize_callback => written = 0
  BY SceneFacts DEF IInv, ReaderOK, CallOK, OutInv
<1>1. /\ pc' = "done" /\ written' = written /\ result' \in BOOLEAN
      /\ \/ out' = text
         \/ /\ written = 0
            /\ out' \in {AppendOffset(text, base, scene.out_size),
                         AppendOffset(text, base_address, scene.out_size)}
  BY <1>0 DEF ReturnUnopened, ReturnMissing, Return
<1>2. /\ out' \in Seq(Characters)
      /\ scene.out_size > 0 => written + Len(out') < scene.out_size
  <2>1. CASE out' = text
    BY <2>1
  <2>2. CASE /\ written = 0
             /\ out' \in {AppendOffset(text, base, scene.out_size),
                          AppendOffset(text, base_address, scene.out_size)}
    <3>1. scene.out_size > 0 => Len(text) < scene.out_size
      <4>1. Len(text) \in Nat
        OBVIOUS
      <4> QED
        BY <4>1, <2>2, <1>0
    <3>2. /\ out' \in Seq(Characters)
          /\ Len(text) < scene.out_size => Len(out') < scene.out_size
      BY <2>2, <1>0, AppendOffsetFacts
    <3>3. Len(out') \in Nat
      BY <3>2
    <3> QED
      BY <3>1, <3>2, <3>3, <2>2, <1>0
  <2> QED
    BY <2>1, <2>2, <1>1
<1>3. i \in Nat /\ table \in Range(Tables) /\ name \in Names \cup {NoName}
  BY DEF IInv, CallOK
<1> QED
  BY <1>0, <1>1, <1>2, <1>3 DEF CallOK, FileInv, OutInv, OutputFits, Opening, Reading

\* A step that leaves the output alone.
LEMMA OutUnaffected ==
  ASSUME IInv, UNCHANGED <<scene, output>>,
         pc' \in Opening \cup Reading \cup {"aborted"},
         pc' \in Opening => pc \in Opening,
         i' \in Nat, base_address' \in Int, trouble' \in BOOLEAN, truncated' \in BOOLEAN,
         file' \in Files \cup {NoFile}, table' \in Range(Tables), name' \in Names \cup {NoName},
         FileInv'
  PROVE  CallOK'
BY DEF IInv, CallOK, OutInv, OutputFits, output

LEMMA StartKeeps ==
  ASSUME IInv, Start
  PROVE  CallOK'
<1>1. /\ scene \in Scenes /\ scene.out_size \in Nat /\ pc = "start"
      /\ UNCHANGED <<scene, i, table, name, file, base_address, trouble, truncated>>
      /\ out \in Seq(Characters) /\ written \in Nat /\ OutputFits /\ written = 0
      /\ Len(out) \in Nat
  BY SceneFacts DEF IInv, ReaderOK, CallOK, OutInv, Start, search, ghosts, Opening
<1>2. CASE scene.out_size < 1
  <2>1. \E value \in BOOLEAN : Return(value, out)
    BY <1>2 DEF Start
  <2>2. scene.out_size > 0 => written + Len(out) < scene.out_size
    BY <1>1 DEF OutputFits
  <2>3. /\ base_address' \in Int /\ file' \in Files \cup {NoFile}
        /\ trouble' \in BOOLEAN /\ truncated' \in BOOLEAN /\ base_address \in Int
    BY <1>1 DEF IInv, CallOK
  <2>4. UNCHANGED <<scene, i, table, name>>
    BY <1>1
  <2> QED
    BY <2>1, <2>2, <2>3, <2>4, <1>1, ReturnKeeps
<1>3. CASE ~(scene.out_size < 1)
  <2>1. /\ out' = SafeAppendString(<<<<"(", 1>>>>, out, scene.out_size)
        /\ pc' \in {"callback", "open"} /\ UNCHANGED <<written, result>>
    BY <1>3 DEF Start
  <2>2. Len(out) < scene.out_size
    BY <1>1, <1>3 DEF OutputFits
  <2>3. out' \in Seq(Characters) /\ Len(out') < scene.out_size
    <3>1. <<<<"(", 1>>>> \in Seq(Characters) /\ out \in Seq(Characters) /\ scene.out_size \in Int
      BY <1>1, LiteralFacts
    <3> QED
      BY <3>1, <2>1, <2>2, AppendFacts
  <2>4. Len(out') \in Nat
    BY <2>3
  <2> QED
    BY <2>1, <2>3, <2>4, <1>1 DEF IInv, CallOK, OutInv, OutputFits, FileInv, Opening, Reading
<1> QED
  BY <1>2, <1>3

\* What holds while the object file is looked for.
LEMMA OpeningFacts ==
  ASSUME IInv, pc \in Opening
  PROVE  /\ scene \in Scenes /\ scene.out_size \in Nat /\ out \in Seq(Characters) /\ written = 0
         /\ scene.out_size > 0 => Len(out) < scene.out_size
         /\ scene.out_size > 0 => written + Len(out) < scene.out_size
         /\ i \in Nat /\ base_address \in Int /\ trouble \in BOOLEAN /\ truncated \in BOOLEAN
         /\ result \in BOOLEAN /\ file \in Files \cup {NoFile} /\ table \in Range(Tables)
         /\ name \in Names \cup {NoName}
<1>1. scene \in Scenes /\ CallOK /\ OutInv
  BY DEF IInv, ReaderOK, CallOK
<1>2. out \in Seq(Characters) /\ written = 0 /\ OutputFits
  BY <1>1 DEF OutInv
<1>3. Len(out) \in Nat
  BY <1>2
<1> QED
  BY <1>1, <1>2, <1>3, SceneFacts DEF CallOK, OutputFits

\* The name of a file is appended to the output.
LEMMA KnownFacts ==
  ASSUME IInv, pc \in Opening, NEW f \in Files
  PROVE  LET text == SafeAppendString(Str(f), out, scene.out_size)
         IN  /\ text \in Seq(Characters)
             /\ scene.out_size > 0 => written + Len(text) < scene.out_size
<1> DEFINE text == SafeAppendString(Str(f), out, scene.out_size)
<1>1. Str(f) \in Seq(Characters) /\ out \in Seq(Characters) /\ scene.out_size \in Int
  BY StrFacts, OpeningFacts
<1>2. text \in Seq(Characters) /\ (Len(out) < scene.out_size => Len(text) < scene.out_size)
  BY <1>1, AppendFacts
<1>3. Len(text) \in Nat
  BY <1>2
<1> HIDE DEF text
<1>4. /\ text \in Seq(Characters)
      /\ scene.out_size > 0 => written + Len(text) < scene.out_size
  BY <1>2, <1>3, OpeningFacts
<1> QED
  BY <1>4 DEF text

LEMMA UnopenedKeeps ==
  ASSUME IInv, pc \in Opening, UNCHANGED <<scene, i, table, name, file>>,
         base_address' \in Int, trouble' \in BOOLEAN, truncated' \in BOOLEAN,
         NEW text \in Seq(Characters), NEW base \in Int,
         scene.out_size > 0 => written + Len(text) < scene.out_size,
         ReturnUnopened(text, base)
  PROVE  CallOK'
<1>1. /\ written = 0 /\ UNCHANGED <<scene, i, table, name>>
      /\ file' \in Files \cup {NoFile}
  BY OpeningFacts
<1> QED
  BY <1>1, ReturnKeeps

LEMMA OpenedKeeps ==
  ASSUME IInv, pc \in Opening, UNCHANGED <<scene, i, table, name>>,
         base_address' \in Int, trouble' \in BOOLEAN, truncated' \in BOOLEAN,
         NEW text \in Seq(Characters), NEW base \in Int, NEW f \in Files,
         scene.out_size > 0 => written + Len(text) < scene.out_size,
         Opened(text, base, f)
  PROVE  CallOK'
<1>1. CASE scene.PRINT_UNSYMBOLIZED_STACK_TRACES
  <2>1. ReturnUnopened(text, base) /\ UNCHANGED file
    BY <1>1 DEF Opened
  <2> QED
    BY <2>1, UnopenedKeeps
<1>2. CASE ~scene.PRINT_UNSYMBOLIZED_STACK_TRACES
  <2>1. pc' = "elftype" /\ file' = f /\ out' = text /\ UNCHANGED <<written, result>>
    BY <1>2 DEF Opened
  <2> QED
    BY <2>1, OpeningFacts DEF CallOK, FileInv, OutInv, OutputFits, Opening, Reading
<1> QED
  BY <1>1, <1>2

LEMMA OpenCallbackKeeps ==
  ASSUME IInv, OpenCallback
  PROVE  CallOK'
<1>1. /\ pc \in Opening /\ base_address' = scene.bias
      /\ UNCHANGED <<scene, i, table, name, trouble, truncated>>
  BY DEF OpenCallback, Opening, ghosts
<1>2. PICK f \in Files, known \in BOOLEAN :
        LET text == IF known THEN SafeAppendString(Str(f), out, scene.out_size) ELSE out
        IN  IF scene.objects[f].opens
              THEN Opened(text, scene.bias, f)
              ELSE ReturnUnopened(text, scene.bias) /\ UNCHANGED file
  BY DEF OpenCallback
<1> DEFINE text == IF known THEN SafeAppendString(Str(f), out, scene.out_size) ELSE out
<1>3. text \in Seq(Characters) /\ (scene.out_size > 0 => written + Len(text) < scene.out_size)
  BY <1>1, KnownFacts, OpeningFacts
<1>4. /\ base_address' \in Int /\ trouble' \in BOOLEAN /\ truncated' \in BOOLEAN
      /\ scene.bias \in Int
  BY <1>1, OpeningFacts, SceneFacts
<1>5. \/ Opened(text, scene.bias, f)
      \/ ReturnUnopened(text, scene.bias) /\ UNCHANGED file
  BY <1>2
<1> HIDE DEF text
<1>6. CASE Opened(text, scene.bias, f)
  BY <1>1, <1>3, <1>4, <1>6, OpenedKeeps
<1>7. CASE ReturnUnopened(text, scene.bias) /\ UNCHANGED file
  <2>1. UNCHANGED <<scene, i, table, name, file>>
    BY <1>1, <1>7
  <2> QED
    BY <1>1, <1>3, <1>4, <1>7, <2>1, UnopenedKeeps
<1> QED
  BY <1>5, <1>6, <1>7

\* The search ends without an object file.
LEMMA FailedKeeps ==
  ASSUME IInv, pc \in Opening, UNCHANGED <<scene, base_address, search, truncated>>,
         trouble' \in BOOLEAN, ReturnUnopened(out, base_address)
  PROVE  CallOK'
<1>1. /\ base_address' \in Int /\ truncated' \in BOOLEAN /\ base_address \in Int
      /\ UNCHANGED <<scene, i, table, name, file>>
      /\ out \in Seq(Characters) /\ (scene.out_size > 0 => written + Len(out) < scene.out_size)
  BY OpeningFacts DEF search
<1> QED
  BY <1>1, UnopenedKeeps

\* The search goes on.
LEMMA SearchKeeps ==
  ASSUME IInv, pc \in Opening, UNCHANGED <<scene, search, output, truncated>>,
         pc' \in Opening \ {"elftype"}, base_address' \in Int, trouble' \in BOOLEAN
  PROVE  CallOK'
<1>1. FileInv' /\ UNCHANGED <<scene, output>>
  BY DEF FileInv, Opening, Reading
<1>2. /\ i' \in Nat /\ truncated' \in BOOLEAN /\ file' \in Files \cup {NoFile}
      /\ table' \in Range(Tables) /\ name' \in Names \cup {NoName}
  BY OpeningFacts DEF search
<1> QED
  BY <1>1, <1>2, OutUnaffected

LEMMA OpenMapsKeeps ==
  ASSUME IInv, OpenMaps
  PROVE  CallOK'
<1>1. pc \in Opening /\ UNCHANGED <<scene, base_address, search, truncated>>
  BY DEF OpenMaps, Opening
<1>2. base_address' \in Int /\ trouble \in BOOLEAN
  BY <1>1, OpeningFacts
<1>3. CASE pc' = "readline" /\ UNCHANGED <<output, trouble>>
  BY <1>1, <1>2, <1>3, SearchKeeps DEF Opening
<1>4. CASE trouble' = TRUE /\ ReturnUnopened(out, base_address)
  BY <1>1, <1>4, FailedKeeps
<1> QED
  BY <1>3, <1>4 DEF OpenMaps

LEMMA ReadingLinesKeeps ==
  ASSUME IInv, ReadLine \/ Pread \/ PreadFails \/ Refill
  PROVE  CallOK'
<1>1. pc \in Opening /\ UNCHANGED <<scene, base_address, search, truncated>>
  BY DEF ReadLine, Pread, PreadFails, Refill, Opening, ghosts
<1>2. /\ base_address' \in Int /\ trouble \in BOOLEAN
  BY <1>1, OpeningFacts
<1>3. trouble' \in BOOLEAN
  BY <1>2 DEF ReadLine, Pread, PreadFails, Refill, ghosts
<1>4. \/ pc' \in {"pread", "parse"} /\ UNCHANGED output
      \/ ReturnUnopened(out, base_address)
  BY DEF ReadLine, Pread, PreadFails, Refill, TakeLine, StartRead
<1> QED
  BY <1>1, <1>2, <1>3, <1>4, SearchKeeps, FailedKeeps DEF Opening

\* The lines that are examined are those of the file, one after the other.
LEMMA ExaminesNext ==
  ASSUME ReaderOK, pc = "parse"
  PROVE  /\ lines \in 1 .. Len(maps) /\ CurrentLine = maps[lines]
         /\ maps[lines].len <= BufLen
<1>1. /\ scene \in Scenes /\ LinesWhole /\ AfterLine /\ lines > 0 /\ lines \in 0 .. Len(maps)
  BY DEF ReaderOK, ReaderInv, AfterLine
<1>2. PICK pos \in Nat, len \in Nat :
        /\ pos = maps[lines].pos /\ len = maps[lines].len /\ len > 1
        /\ End(maps[lines]) = pos + len
  BY <1>1, LineFacts
<1>3. /\ reader.bol \in Nat /\ reader.eol = reader.bol + len - 1
      /\ \A p \in reader.bol .. reader.eol - 1 : reader.buf[p] = pos + p - reader.bol
      /\ reader.eol < reader.eod /\ reader.eod \in Nat /\ reader.eod <= BufLen
  BY <1>1, <1>2, SymbolizeAssumption DEF LinesWhole, ReaderOK, Reader, AfterLine
<1>4. len <= BufLen
  BY <1>2, <1>3, SymbolizeAssumption
<1>5. reader.buf[reader.bol] = pos
  <2>1. reader.bol \in reader.bol .. reader.eol - 1
    BY <1>2, <1>3
  <2>2. reader.buf[reader.bol] = pos + reader.bol - reader.bol
    BY <2>1, <1>3
  <2> QED
    BY <2>2, <1>2, <1>3
<1>6. \A k \in DOMAIN maps : pos \in maps[k].pos .. End(maps[k]) - 1 <=> k = lines
  <2> SUFFICES ASSUME NEW k \in DOMAIN maps
               PROVE  pos \in maps[k].pos .. End(maps[k]) - 1 <=> k = lines
    OBVIOUS
  <2>1. k \in 1 .. Len(maps) /\ lines \in 1 .. Len(maps)
    BY <1>1, LineFacts
  <2>2. /\ maps[k].pos \in Nat /\ End(maps[k]) \in Nat /\ maps[lines].pos \in Nat
        /\ k < lines => End(maps[k]) <= maps[lines].pos
        /\ lines < k => End(maps[lines]) <= maps[k].pos
    BY <1>1, <2>1, LineFacts
  <2>3. CASE k < lines
    BY <1>2, <2>1, <2>2, <2>3
  <2>4. CASE lines < k
    BY <1>2, <2>1, <2>2, <2>4
  <2>5. CASE k = lines
    BY <1>2, <2>2, <2>5
  <2> QED
    BY <2>1, <2>3, <2>4, <2>5
<1>7. lines \in DOMAIN maps
  BY <1>1, LineFacts
<1>8. CurrentLine = maps[CHOOSE k \in DOMAIN maps : pos \in maps[k].pos .. End(maps[k]) - 1]
  BY <1>5 DEF CurrentLine
<1>9. (CHOOSE k \in DOMAIN maps : pos \in maps[k].pos .. End(maps[k]) - 1) = lines
  BY <1>6, <1>7
<1>10. CurrentLine = maps[lines]
  BY <1>8, <1>9, Zenon
<1> QED
  BY <1>1, <1>2, <1>4, <1>7, <1>10, LineFacts

LEMMA CurrentLineFacts ==
  ASSUME ReaderOK, pc = "parse"
  PROVE  CurrentLine \in Line
BY ExaminesNext, LineFacts DEF ReaderOK

LEMMA BaseAddressesFacts ==
  ASSUME scene \in Scenes, base_address \in Int, NEW line \in Line, NEW b \in BaseAddresses(line)
  PROVE  b.base \in Int /\ b.failed \in BOOLEAN
<1>1. /\ line.start \in Nat
      /\ line.phdrs \in Seq([loads_header : BOOLEAN, vaddr : Nat])
  BY DEF Line
<1>2. \A k \in Headers(line) : k \in Nat /\ line.start - line.phdrs[k].vaddr \in Int
  <2> SUFFICES ASSUME NEW k \in Headers(line)
               PROVE  k \in Nat /\ line.start - line.phdrs[k].vaddr \in Int
    OBVIOUS
  <2>1. k \in DOMAIN line.phdrs /\ DOMAIN line.phdrs = 1 .. Len(line.phdrs)
    BY <1>1 DEF Headers
  <2>2. k \in 1 .. Len(line.phdrs) /\ Len(line.phdrs) \in Nat
    BY <2>1, <1>1
  <2>3. line.phdrs[k] \in [loads_header : BOOLEAN, vaddr : Nat]
    BY <2>2, <1>1, ElementOfSeq
  <2>4. line.phdrs[k].vaddr \in Nat
    BY <2>3
  <2> QED
    BY <2>2, <2>4, <1>1
<1> DEFINE starts == {line.start - line.phdrs[k].vaddr : k \in Headers(line)}
           bases == {base_address, 0, line.start} \cup starts
<1>3. ASSUME Headers(line) # {}
      PROVE  line.start - line.phdrs[Min(Headers(line))].vaddr \in starts
  <2>1. Headers(line) \in SUBSET Nat
    BY <1>2
  <2> QED
    BY <1>3, <2>1, MinOfNaturals
<1>4. \A x \in starts : x \in Int
  BY <1>2
<1>5. \E x \in bases, f \in BOOLEAN : b = [base |-> x, failed |-> f]
  <2> HIDE DEF starts
  <2>1. CASE ~line.r \/ line.elf \in {"none", "other"}
    BY <2>1 DEF BaseAddresses
  <2>2. CASE ~(~line.r \/ line.elf \in {"none", "other"}) /\ line.elf = "exec"
    BY <2>2 DEF BaseAddresses
  <2>3. CASE ~(~line.r \/ line.elf \in {"none", "other"}) /\ line.elf # "exec"
    <3>1. \/ b = [base |-> line.start, failed |-> FALSE]
          \/ /\ Headers(line) # {}
             /\ b = [base |-> line.start - line.phdrs[Min(Headers(line))].vaddr, failed |-> FALSE]
          \/ \E x \in {base_address, line.start} \cup starts : b = [base |-> x, failed |-> TRUE]
      BY <2>3 DEF BaseAddresses, starts
    <3> QED
      BY <3>1, <1>3
  <2> QED
    BY <2>1, <2>2, <2>3
<1>6. \A x \in bases : x \in Int
  BY <1>1, <1>4
<1> HIDE DEF bases
<1> QED
  BY <1>5, <1>6

LEMMA ExamineLineKeeps ==
  ASSUME IInv, ExamineLine
  PROVE  CallOK'
<1> DEFINE line == CurrentLine
           known == SafeAppendString(Str(line.file), out, scene.out_size)
<1>1. /\ pc = "parse" /\ pc \in Opening
      /\ UNCHANGED <<scene, reader, table, i, name, lines, truncated>>
  BY DEF ExamineLine, Opening
<1>2. line \in Line
  BY <1>1, CurrentLineFacts DEF IInv
<1>3. PICK b \in BaseAddresses(line), fails \in BOOLEAN :
           /\ base_address' = b.base
           /\ IF ~(line.start <= scene.pc0 /\ scene.pc0 < line.end /\ line.r /\ line.x)
                THEN pc' = "readline" /\ ~fails /\ UNCHANGED <<output, file>>
              ELSE IF line.file = NoFile
                THEN ReturnUnopened(out, b.base) /\ ~fails /\ UNCHANGED file
              ELSE IF scene.objects[line.file].opens /\ ~fails
                THEN Opened(out, b.base, line.file)
                ELSE ReturnUnopened(known, b.base) /\ UNCHANGED file
           /\ trouble' = (trouble \/ b.failed \/ fails)
  BY DEF ExamineLine
<1> HIDE DEF line
<1>4. scene \in Scenes /\ base_address \in Int /\ trouble \in BOOLEAN /\ truncated \in BOOLEAN
  BY <1>1, OpeningFacts
<1>5. b.base \in Int /\ b.failed \in BOOLEAN
  BY <1>2, <1>4, BaseAddressesFacts
<1>6. base_address' \in Int /\ trouble' \in BOOLEAN /\ truncated' \in BOOLEAN
  BY <1>1, <1>3, <1>4, <1>5
<1>7. /\ out \in Seq(Characters)
      /\ scene.out_size > 0 => written + Len(out) < scene.out_size
  BY <1>1, OpeningFacts
<1>8. CASE pc' = "readline" /\ UNCHANGED <<output, file>>
  <2>1. pc' \in Opening \ {"elftype"} /\ UNCHANGED <<scene, search, output, truncated>>
    BY <1>1, <1>8 DEF Opening, search
  <2> QED
    BY <1>1, <1>6, <2>1, SearchKeeps
<1>9. CASE ReturnUnopened(out, b.base) /\ UNCHANGED file
  <2>1. UNCHANGED <<scene, i, table, name, file>>
    BY <1>1, <1>9
  <2> QED
    BY <1>1, <1>5, <1>6, <1>7, <1>9, <2>1, UnopenedKeeps
<1>10. line.file # NoFile => line.file \in Files
  BY <1>2 DEF Line
<1>11. CASE line.file # NoFile /\ Opened(out, b.base, line.file)
  <2>1. UNCHANGED <<scene, i, table, name>>
    BY <1>1
  <2> QED
    BY <1>1, <1>5, <1>6, <1>7, <1>10, <1>11, <2>1, OpenedKeeps
<1>12. CASE line.file # NoFile /\ ReturnUnopened(known, b.base) /\ UNCHANGED file
  <2>1. UNCHANGED <<scene, i, table, name, file>>
    BY <1>1, <1>12
  <2>2. known \in Seq(Characters) /\ (scene.out_size > 0 => written + Len(known) < scene.out_size)
    BY <1>1, <1>10, <1>12, KnownFacts
  <2> HIDE DEF known
  <2> QED
    BY <1>1, <1>5, <1>6, <1>12, <2>1, <2>2, UnopenedKeeps
<1> QED
  BY <1>3, <1>8, <1>9, <1>11, <1>12

LEMMA MaxOfTwo ==
  ASSUME NEW a \in Int, NEW b \in Int
  PROVE  Max({a, b}) \in {a, b} /\ Max({a, b}) >= a /\ Max({a, b}) >= b
<1>1. \E x \in {a, b} : \A y \in {a, b} : x >= y
  <2>1. CASE a >= b
    BY <2>1
  <2>2. CASE b >= a
    BY <2>2
  <2> QED
    BY <2>1, <2>2
<1> QED
  BY <1>1 DEF Max

\* What holds while the object file is read.
LEMMA ReadingFacts ==
  ASSUME IInv, pc \in Reading
  PROVE  /\ scene \in Scenes /\ scene.out_size \in Nat /\ out \in Seq(Characters)
         /\ written \in Nat /\ file \in Files
         /\ scene.out_size > 0 => written + Len(out) < scene.out_size
         /\ i \in Nat /\ base_address \in Int /\ trouble \in BOOLEAN /\ truncated \in BOOLEAN
         /\ table \in Range(Tables) /\ name \in Names \cup {NoName}
         /\ Object \in ObjectFile /\ Symbols \in Seq(Symbol)
<1>1. scene \in Scenes /\ CallOK /\ OutInv /\ FileInv
  BY DEF IInv, ReaderOK, CallOK
<1>2. file \in Files /\ table \in Range(Tables)
  BY <1>1 DEF FileInv, CallOK
<1>3. Object \in ObjectFile
  BY <1>1, <1>2, SceneFacts DEF Object
<1>4. Symbols \in Seq(Symbol)
  BY <1>2, <1>3 DEF Symbols, ObjectFile
<1> QED
  BY <1>1, <1>2, <1>3, <1>4, SceneFacts DEF CallOK, OutInv, OutputFits

\* A read of the object file.
LEMMA ReadsFacts ==
  ASSUME trouble \in BOOLEAN, truncated \in BOOLEAN, NEW count \in Int,
         NEW n \in ReadFromOffset(count), Reads(n, count)
  PROVE  /\ n \in Int /\ (count >= 0 => n \in -1 .. count)
         /\ trouble' \in BOOLEAN /\ truncated' \in BOOLEAN
         /\ UNCHANGED <<scene, reader, base_address, lines>>
<1>1. n \in {0, count, -1} \cup 0 .. count - 1
  BY DEF ReadFromOffset
<1> QED
  BY <1>1 DEF Reads

LEMMA ReadsExactlyFacts ==
  ASSUME trouble \in BOOLEAN, truncated \in BOOLEAN, NEW exact, ReadsExactly(exact, 1)
  PROVE  /\ trouble' \in BOOLEAN /\ truncated' \in BOOLEAN
         /\ UNCHANGED <<scene, reader, base_address, lines>>
BY ReadsFacts DEF ReadsExactly

\* The reading goes on.
LEMMA ReadingKeeps ==
  ASSUME IInv, pc \in Reading, UNCHANGED <<scene, file, base_address, output>>,
         pc' \in Reading \cup {"aborted"}, i' \in Nat,
         trouble' \in BOOLEAN, truncated' \in BOOLEAN, table' = table,
         name' \in Names \cup {NoName}, pc' = "name" => name' \in Names
  PROVE  CallOK'
<1>1. FileInv'
  BY ReadingFacts DEF FileInv, Reading
<1>2. /\ base_address' \in Int /\ file' \in Files \cup {NoFile} /\ table' \in Range(Tables)
      /\ UNCHANGED <<scene, output>>
  BY ReadingFacts
<1>3. pc' \in Opening \cup Reading \cup {"aborted"} /\ (pc' \in Opening => pc \in Opening)
  BY DEF Opening, Reading
<1> QED
  BY <1>1, <1>2, <1>3, OutUnaffected

\* The symbol is not found: text is what is known.
LEMMA MissingKeeps ==
  ASSUME IInv, pc \in Reading, UNCHANGED <<scene, file, base_address, i, table, name>>,
         trouble' \in BOOLEAN, truncated' \in BOOLEAN, NEW text \in Seq(Characters),
         scene.out_size > 0 => written + Len(text) < scene.out_size,
         ReturnMissing(text) \/ \E value \in BOOLEAN : Return(value, text)
  PROVE  CallOK'
<1>1. /\ base_address' \in Int /\ file' \in Files \cup {NoFile} /\ base_address \in Int
      /\ UNCHANGED <<scene, i, table, name>>
  BY ReadingFacts
<1>2. \/ written = 0 /\ ReturnUnopened(text, base_address)
      \/ ReturnMissing(text)
      \/ \E value \in BOOLEAN : Return(value, text)
  OBVIOUS
<1> QED
  BY <1>1, <1>2, ReturnKeeps

\* The next table, or the end.
LEMMA NotInTableKeeps ==
  ASSUME IInv, pc \in Reading, UNCHANGED <<scene, file, base_address, name>>,
         trouble' \in BOOLEAN, truncated' \in BOOLEAN, NEW text \in Seq(Characters),
         scene.out_size > 0 => written + Len(text) < scene.out_size,
         NotInTable(text)
  PROVE  CallOK'
<1>1. CASE table = Tables[1]
  <2>1. /\ table' = Tables[2] /\ i' = 0 /\ pc' = "sections" /\ out' = text
        /\ UNCHANGED <<written, result>>
    BY <1>1 DEF NotInTable
  <2>2. table' \in Range(Tables)
    BY <2>1 DEF Range, Tables
  <2>3. FileInv' /\ file' \in Files \cup {NoFile}
    BY <2>1, ReadingFacts DEF FileInv, Reading
  <2>4. OutInv'
    <3>1. OutInv
      BY DEF IInv, CallOK
    <3>2. pc \notin Opening
      BY DEF Reading, Opening
    <3> QED
      BY <2>1, <3>1, <3>2 DEF OutInv, OutputFits, Opening
  <2> QED
    BY <2>1, <2>2, <2>3, <2>4 DEF IInv, CallOK, Reading
<1>2. CASE table # Tables[1]
  <2>1. ReturnMissing(text) /\ UNCHANGED <<scene, file, base_address, i, table, name>>
    BY <1>2 DEF NotInTable
  <2> QED
    BY <2>1, MissingKeeps
<1> QED
  BY <1>1, <1>2

LEMMA FileGetElfTypeKeeps ==
  ASSUME IInv, FileGetElfType
  PROVE  CallOK'
<1>1. pc = "elftype" /\ pc \in Opening /\ UNCHANGED search
  BY DEF FileGetElfType, Opening
<1>2. PICK exact \in BOOLEAN :
        /\ ReadsExactly(exact, 1)
        /\ IF ~exact \/ ~Object.is_elf
             THEN Return(FALSE, out)
             ELSE /\ pc' = "header"
                  /\ written' = IF scene.symbolize_callback THEN Max({scene.callback, 0}) ELSE 0
                  /\ out' = SubSeq(out, written' + 1, Len(out))
                  /\ UNCHANGED result
  BY DEF FileGetElfType
<1>3. /\ trouble' \in BOOLEAN /\ truncated' \in BOOLEAN
      /\ UNCHANGED <<scene, base_address, i, table, name, file>>
  BY <1>1, <1>2, OpeningFacts, ReadsExactlyFacts DEF search
<1>4. /\ scene.out_size \in Nat /\ out \in Seq(Characters) /\ Len(out) \in Nat /\ written = 0
      /\ scene.out_size > 0 => Len(out) < scene.out_size
      /\ base_address \in Int /\ file \in Files
  <2>1. out \in Seq(Characters)
    BY <1>1, OpeningFacts
  <2>2. file \in Files
    BY <1>1 DEF IInv, CallOK, FileInv
  <2>3. Len(out) \in Nat
    BY <2>1
  <2> QED
    BY <1>1, <2>1, <2>2, <2>3, OpeningFacts
<1>5. CASE Return(FALSE, out)
  <2>1. /\ base_address' \in Int /\ file' \in Files \cup {NoFile}
        /\ UNCHANGED <<scene, i, table, name>>
        /\ scene.out_size > 0 => written + Len(out) < scene.out_size
    BY <1>3, <1>4
  <2>2. \E value \in BOOLEAN : Return(value, out)
    BY <1>5
  <2> QED
    BY <1>3, <1>4, <2>1, <2>2, ReturnKeeps
<1>6. CASE /\ pc' = "header"
           /\ written' = IF scene.symbolize_callback THEN Max({scene.callback, 0}) ELSE 0
           /\ out' = SubSeq(out, written' + 1, Len(out))
           /\ UNCHANGED result
  <2>1. /\ written' \in Nat
        /\ scene.out_size > 0 => written' < scene.out_size
        /\ ~scene.symbolize_callback => written' = 0
    <3>1. scene \in Scenes /\ scene.callback \in Int
          /\ (scene.symbolize_callback => scene.callback < scene.out_size)
      BY <1>1, OpeningFacts, SceneFacts
    <3>2. Max({scene.callback, 0}) \in {scene.callback, 0} /\ Max({scene.callback, 0}) >= 0
      BY <3>1, MaxOfTwo
    <3> QED
      BY <1>4, <1>6, <3>1, <3>2
  <2>2. /\ out' \in Seq(Characters)
        /\ Len(out') = IF written' + 1 <= Len(out) THEN Len(out) - (written' + 1) + 1 ELSE 0
    <3> DEFINE w == written'
    <3>1. w \in Nat /\ w + 1 \in Int /\ Len(out) \in Int /\ out \in Seq(Characters)
      BY <1>4, <2>1
    <3>2. out' = SubSeq(out, w + 1, Len(out))
      BY <1>6
    <3> HIDE DEF w
    <3>3. \A p \in w + 1 .. Len(out) : out[p] \in Characters
      <4> SUFFICES ASSUME NEW p \in w + 1 .. Len(out) PROVE out[p] \in Characters
        OBVIOUS
      <4>1. p \in 1 .. Len(out)
        BY <3>1
      <4> QED
        BY <3>1, <4>1, ElementOfSeq
    <3>4. /\ SubSeq(out, w + 1, Len(out)) \in Seq(Characters)
          /\ Len(SubSeq(out, w + 1, Len(out))) =
               IF w + 1 <= Len(out) THEN Len(out) - (w + 1) + 1 ELSE 0
      BY <3>1, <3>3, SubSeqProperties
    <3> QED
      BY <3>2, <3>4 DEF w
  <2>3. scene.out_size > 0 => written' + Len(out') < scene.out_size
    <3>1. Len(out') \in Nat
      BY <2>2
    <3> QED
      BY <1>4, <2>1, <2>2, <3>1
  <2>4. OutInv'
    BY <1>3, <1>6, <2>1, <2>2, <2>3 DEF OutInv, OutputFits, Opening
  <2>5. FileInv'
    BY <1>3, <1>4, <1>6 DEF FileInv
  <2>6. /\ result' \in BOOLEAN /\ i' \in Nat /\ base_address' \in Int
        /\ table' \in Range(Tables) /\ name' \in Names \cup {NoName}
        /\ file' \in Files \cup {NoFile}
    BY <1>1, <1>3, <1>6, OpeningFacts
  <2> QED
    BY <1>3, <1>6, <2>4, <2>5, <2>6 DEF CallOK, Reading
<1> QED
  BY <1>2, <1>5, <1>6

LEMMA ReadHeadersKeeps ==
  ASSUME IInv, ReadHeader \/ ReadStrtab
  PROVE  CallOK'
<1>1. pc \in Reading /\ UNCHANGED search
  BY DEF ReadHeader, ReadStrtab, Reading
<1>2. PICK exact \in BOOLEAN :
        /\ ReadsExactly(exact, 1)
        /\ \/ pc' \in {"sections", "symbols"} /\ UNCHANGED output
           \/ ReturnMissing(out)
  BY DEF ReadHeader, ReadStrtab
<1>3. /\ trouble' \in BOOLEAN /\ truncated' \in BOOLEAN
      /\ UNCHANGED <<scene, base_address, i, table, name, file>>
  BY <1>1, <1>2, ReadingFacts, ReadsExactlyFacts DEF search
<1>4. i' \in Nat /\ name' \in Names \cup {NoName} /\ table' = table
  BY <1>1, <1>3, ReadingFacts
<1>5. CASE pc' \in {"sections", "symbols"} /\ UNCHANGED output
  <2>1. pc' \in Reading \cup {"aborted"} /\ pc' # "name"
    BY <1>5 DEF Reading
  <2>2. UNCHANGED <<scene, file, base_address, output>>
    BY <1>3, <1>5
  <2> QED
    BY <1>1, <1>3, <1>4, <2>1, <2>2, ReadingKeeps
<1>6. CASE ReturnMissing(out)
  <2>1. out \in Seq(Characters) /\ (scene.out_size > 0 => written + Len(out) < scene.out_size)
    BY <1>1, ReadingFacts
  <2>2. UNCHANGED <<scene, file, base_address, i, table, name>>
    BY <1>3
  <2> QED
    BY <1>1, <1>3, <1>6, <2>1, <2>2, MissingKeeps
<1> QED
  BY <1>2, <1>5, <1>6

\* What is left of a table is read in chunks.
LEMMA ChunkFacts ==
  ASSUME NEW size \in Nat \ {0}, NEW entries \in Nat, i \in Nat, ~Exhausted(entries)
  PROVE  /\ Chunk(size, entries) \in Nat /\ i + Chunk(size, entries) <= entries
         /\ \A n \in 0 .. 2 * Chunk(size, entries) :
              n \div 2 \in Nat /\ i + n \div 2 <= entries
<1> DEFINE chunk == Chunk(size, entries)
<1>1. entries - i \in Int /\ entries - i > 0
  BY DEF Exhausted
<1>2. chunk \in {size, entries - i} /\ chunk <= entries - i
  BY <1>1, MinOfTwo DEF Chunk
<1> HIDE DEF chunk
<1>3. chunk \in Nat /\ i + chunk <= entries
  BY <1>1, <1>2
<1>4. \A n \in 0 .. 2 * chunk : n \div 2 \in Nat /\ i + n \div 2 <= entries
  <2> SUFFICES ASSUME NEW n \in 0 .. 2 * chunk
               PROVE  n \div 2 \in Nat /\ i + n \div 2 <= entries
    OBVIOUS
  <2>1. n \div 2 \in Nat /\ n \div 2 <= chunk
    BY <1>3
  <2> QED
    BY <1>3, <2>1
<1> QED
  BY <1>3, <1>4 DEF chunk

LEMMA GetSectionHeaderByTypeKeeps ==
  ASSUME IInv, GetSectionHeaderByType
  PROVE  CallOK'
<1> DEFINE sections == Object.sections
           entries == Len(sections)
           count == 2 * Chunk(SectionChunk, entries)
<1>1. pc = "sections" /\ pc \in Reading /\ UNCHANGED <<file, name>>
  BY DEF GetSectionHeaderByType, Reading
<1>2. /\ entries \in Nat /\ i \in Nat /\ trouble \in BOOLEAN /\ truncated \in BOOLEAN
      /\ name \in Names \cup {NoName} /\ out \in Seq(Characters)
      /\ scene.out_size > 0 => written + Len(out) < scene.out_size
  BY <1>1, ReadingFacts DEF ObjectFile
<1> HIDE DEF entries
<1>3. CASE Exhausted(entries)
  <2>1. NotInTable(out) /\ UNCHANGED <<scene, reader, base_address, ghosts>>
    BY <1>3 DEF GetSectionHeaderByType, entries
  <2>2. /\ UNCHANGED <<scene, file, base_address, name>>
        /\ trouble' \in BOOLEAN /\ truncated' \in BOOLEAN
    BY <1>1, <1>2, <2>1 DEF ghosts
  <2> QED
    BY <1>1, <1>2, <2>1, <2>2, NotInTableKeeps
<1>4. CASE ~Exhausted(entries)
  <2>1. PICK n \in ReadFromOffset(count) :
          /\ Reads(n, count)
          /\ \/ NotInTable(out)
             \/ AssertFail /\ UNCHANGED <<table, i>>
             \/ pc' = "strtab" /\ i' = 0 /\ UNCHANGED <<output, table>>
             \/ n >= 0 /\ i' = i + n \div 2 /\ UNCHANGED <<pc, output, table>>
    <3>1. PICK n \in ReadFromOffset(count) :
            /\ Reads(n, count)
            /\ IF n < 0 THEN NotInTable(out)
               ELSE IF n % 2 # 0 THEN AssertFail /\ UNCHANGED <<table, i>>
               ELSE IF \E k \in i + 1 .. i + n \div 2 : sections[k] = table
                 THEN pc' = "strtab" /\ i' = 0 /\ UNCHANGED <<output, table>>
                 ELSE i' = i + n \div 2 /\ UNCHANGED <<pc, output, table>>
      BY <1>4 DEF GetSectionHeaderByType, entries
    <3>2. n \in Int
      <4>1. count \in Int
        BY <1>2, <1>4, SymbolizeAssumption, ChunkFacts
      <4> HIDE DEF count
      <4> QED
        BY <1>2, <3>1, <4>1, ReadsFacts
    <3> HIDE DEF count, sections
    <3> QED
      BY <3>1, <3>2
  <2>2. count \in Int /\ count >= 0
    <3>1. SectionChunk \in Nat \ {0}
      BY SymbolizeAssumption
    <3>2. Chunk(SectionChunk, entries) \in Nat
      BY <1>2, <1>4, <3>1, ChunkFacts
    <3> QED
      BY <3>2
  <2> HIDE DEF count
  <2>3. /\ n \in -1 .. count /\ trouble' \in BOOLEAN /\ truncated' \in BOOLEAN
        /\ UNCHANGED <<scene, file, base_address, name>>
    BY <1>1, <1>2, <2>1, <2>2, ReadsFacts
  <2>4. CASE NotInTable(out)
    BY <1>1, <1>2, <2>3, <2>4, NotInTableKeeps
  <2>5. CASE /\ pc' \in {"aborted", "strtab", "sections"} /\ i' \in Nat
             /\ UNCHANGED <<output, table>>
    <3>1. /\ pc' \in Reading \cup {"aborted"} /\ pc' # "name"
          /\ name' \in Names \cup {NoName} /\ table' = table
          /\ UNCHANGED <<scene, file, base_address, output>>
      BY <1>2, <2>3, <2>5 DEF Reading
    <3> QED
      BY <1>1, <2>3, <2>5, <3>1, ReadingKeeps
  <2>6. n >= 0 => i + n \div 2 \in Nat
    BY <1>2, <2>2, <2>3
  <2> QED
    BY <1>1, <1>2, <2>1, <2>4, <2>5, <2>6 DEF AssertFail
<1> QED
  BY <1>3, <1>4

LEMMA FindSymbolKeeps ==
  ASSUME IInv, FindSymbol
  PROVE  CallOK'
<1> DEFINE entries == Len(Symbols)
           count == 2 * Chunk(NUM_SYMBOLS, entries)
           Hits(n) == {k \in i + 1 .. i + n \div 2 : Covers(Symbols[k], base_address)}
<1>1. pc = "symbols" /\ pc \in Reading /\ UNCHANGED file
  BY DEF FindSymbol, Reading
<1>2. /\ i \in Nat /\ trouble \in BOOLEAN /\ truncated \in BOOLEAN
      /\ name \in Names \cup {NoName} /\ out \in Seq(Characters)
      /\ scene.out_size > 0 => written + Len(out) < scene.out_size
  BY <1>1, ReadingFacts
<1>3. Symbols \in Seq(Symbol) /\ entries \in Nat
  BY <1>1, ReadingFacts
<1> HIDE DEF entries
<1>4. CASE Exhausted(entries)
  <2>1. NotInTable(out) /\ UNCHANGED <<scene, reader, base_address, ghosts, name>>
    BY <1>4 DEF FindSymbol, entries
  <2>2. /\ UNCHANGED <<scene, file, base_address, name>>
        /\ trouble' \in BOOLEAN /\ truncated' \in BOOLEAN
    BY <1>1, <1>2, <2>1 DEF ghosts
  <2> QED
    BY <1>1, <1>2, <2>1, <2>2, NotInTableKeeps
<1>5. CASE ~Exhausted(entries)
  <2>1. PICK n \in ReadFromOffset(count) :
          /\ Reads(n, count)
          /\ IF n < 0 \/ n % 2 # 0 THEN AssertFail /\ UNCHANGED <<table, i, name>>
             ELSE IF Hits(n) # {}
               THEN /\ name' = Symbols[Min(Hits(n))].name
                    /\ pc' = "name"
                    /\ UNCHANGED <<output, table, i>>
               ELSE i' = i + n \div 2 /\ UNCHANGED <<pc, output, table, name>>
    BY <1>5 DEF FindSymbol, entries
  <2> DEFINE hits == Hits(n)
  <2>2. \/ pc' = "aborted" /\ i' = i /\ UNCHANGED <<output, table, name>>
        \/ /\ n >= 0 /\ hits # {} /\ name' = Symbols[Min(hits)].name
           /\ pc' = "name" /\ i' = i /\ UNCHANGED <<output, table>>
        \/ n >= 0 /\ pc' = pc /\ i' = i + n \div 2 /\ UNCHANGED <<output, table, name>>
    <3>1. n \in Int
      <4>1. count \in Int
        BY <1>2, <1>3, <1>5, SymbolizeAssumption, ChunkFacts
      <4> HIDE DEF count
      <4> QED
        BY <1>2, <2>1, <4>1, ReadsFacts
    <3> HIDE DEF count, hits
    <3>2. Hits(n) = hits
      BY DEF hits
    <3> HIDE DEF Hits
    <3> QED
      BY <2>1, <3>1, <3>2 DEF AssertFail
  <2>3. /\ count \in Int /\ count >= 0
        /\ \A m \in 0 .. count : m \div 2 \in Nat /\ i + m \div 2 <= entries
    <3>1. NUM_SYMBOLS \in Nat \ {0}
      BY SymbolizeAssumption
    <3>2. Chunk(NUM_SYMBOLS, entries) \in Nat
      BY <1>2, <1>3, <1>5, <3>1, ChunkFacts
    <3>3. count \in Int /\ count >= 0
      BY <3>2
    <3>4. \A m \in 0 .. count : m \div 2 \in Nat /\ i + m \div 2 <= entries
      BY <1>2, <1>3, <1>5, <3>1, ChunkFacts
    <3> QED
      BY <3>3, <3>4
  <2> HIDE DEF count
  <2>4. /\ n \in -1 .. count /\ trouble' \in BOOLEAN /\ truncated' \in BOOLEAN
        /\ UNCHANGED <<scene, file, base_address>>
    BY <1>1, <1>2, <2>1, <2>3, ReadsFacts
  <2>5. n >= 0 => n \div 2 \in Nat /\ i + n \div 2 <= entries /\ i + n \div 2 \in Nat
    BY <1>2, <2>3, <2>4
  <2>6. ASSUME n >= 0, hits # {}
        PROVE  Symbols[Min(hits)].name \in Names
    <3>1. \A k \in hits : k \in i + 1 .. i + n \div 2
      OBVIOUS
    <3>2. \A k \in hits : k \in 1 .. entries
      <4> SUFFICES ASSUME NEW k \in hits PROVE k \in 1 .. entries
        OBVIOUS
      <4>1. k \in i + 1 .. i + n \div 2
        BY <3>1
      <4> HIDE DEF hits
      <4>2. n \div 2 \in Nat /\ i + n \div 2 <= entries
        BY <2>5, <2>6
      <4> DEFINE half == n \div 2
      <4>3. half \in Nat /\ i + half <= entries /\ k \in i + 1 .. i + half
        BY <4>1, <4>2
      <4> HIDE DEF half
      <4> QED
        BY <1>2, <1>3, <4>3
    <3>3. hits \in SUBSET Nat
      BY <1>3, <3>2
    <3>4. Min(hits) \in 1 .. entries
      BY <2>6, <3>2, <3>3, MinOfNaturals
    <3> HIDE DEF hits
    <3>5. Symbols[Min(hits)] \in Symbol
      BY <1>3, <3>4, ElementOfSeq DEF entries
    <3> QED
      BY <3>5 DEF Symbol
  <2> HIDE DEF hits
  <2>7. /\ i' \in Nat /\ table' = table /\ UNCHANGED output
        /\ name' \in Names \cup {NoName} /\ (pc' = "name" => name' \in Names)
        /\ pc' \in {"aborted", "name", "symbols"}
    <3>1. CASE pc' = "aborted" /\ i' = i /\ UNCHANGED <<output, table, name>>
      BY <1>2, <3>1
    <3>2. CASE /\ n >= 0 /\ hits # {} /\ name' = Symbols[Min(hits)].name
               /\ pc' = "name" /\ i' = i /\ UNCHANGED <<output, table>>
      BY <1>2, <2>6, <3>2
    <3>3. CASE n >= 0 /\ pc' = pc /\ i' = i + n \div 2 /\ UNCHANGED <<output, table, name>>
      BY <1>1, <1>2, <2>5, <3>3
    <3> QED
      BY <2>2, <3>1, <3>2, <3>3
  <2>8. pc' \in Reading \cup {"aborted"} /\ UNCHANGED <<scene, file, base_address, output>>
    BY <2>4, <2>7 DEF Reading
  <2> QED
    BY <1>1, <2>4, <2>7, <2>8, ReadingKeeps
<1> QED
  BY <1>4, <1>5

LEMMA ReadNameKeeps ==
  ASSUME IInv, ReadName
  PROVE  CallOK'
<1> DEFINE size == scene.out_size - written
           Text(n) == IF n > Length[name] THEN Str(name)
                      ELSE Prefix(Str(name), n) \o SubSeq(out, n + 1, Len(out))
<1>1. pc = "name" /\ pc \in Reading /\ UNCHANGED <<file, name>>
  BY DEF ReadName, Reading
<1>2. PICK n \in ReadFromOffset(size) :
        /\ Reads(n, size)
        /\ IF n <= 0 \/ Len(Text(n)) >= size
             THEN NotInTable(<<>>)
             ELSE Return(TRUE, DemangleInplace(Text(n), size)) /\ UNCHANGED <<table, i>>
  BY DEF ReadName
<1>3. /\ scene.out_size \in Nat /\ written \in Nat /\ size \in Int
      /\ trouble \in BOOLEAN /\ truncated \in BOOLEAN
      /\ out \in Seq(Characters) /\ Len(out) \in Nat
      /\ scene.out_size > 0 => written + Len(out) < scene.out_size
  <2>1. out \in Seq(Characters)
    BY <1>1, ReadingFacts
  <2>2. Len(out) \in Nat
    BY <2>1
  <2> QED
    BY <1>1, <2>1, <2>2, ReadingFacts
<1>4. name \in Names
  BY <1>1 DEF IInv, CallOK, FileInv
<1> DEFINE text == Text(n)
<1>5. CASE ~(n <= 0 \/ Len(text) >= size)
  <2>1. n \in Int /\ n > 0 /\ trouble' \in BOOLEAN /\ truncated' \in BOOLEAN
        /\ UNCHANGED <<scene, base_address>>
    <3> HIDE DEF size
    <3>1. /\ n \in Int /\ trouble' \in BOOLEAN /\ truncated' \in BOOLEAN
          /\ UNCHANGED <<scene, base_address>>
      BY <1>2, <1>3, ReadsFacts
    <3> QED
      BY <1>5, <3>1
  <2>2. Str(name) \in Seq(Characters)
    BY <1>4, StrFacts
  <2>3. text \in Seq(Characters)
    <3>1. Prefix(Str(name), n) \in Seq(Characters)
      BY <2>1, <2>2, PrefixFacts
    <3>2. SubSeq(out, n + 1, Len(out)) \in Seq(Characters)
      <4>1. \A p \in n + 1 .. Len(out) : out[p] \in Characters
        <5> SUFFICES ASSUME NEW p \in n + 1 .. Len(out) PROVE out[p] \in Characters
          OBVIOUS
        <5>1. p \in 1 .. Len(out)
          BY <1>3, <2>1
        <5> QED
          BY <1>3, <5>1, ElementOfSeq
      <4> QED
        BY <1>3, <2>1, <4>1, SubSeqProperties
    <3>3. Prefix(Str(name), n) \o SubSeq(out, n + 1, Len(out)) \in Seq(Characters)
      BY <3>1, <3>2, ConcatProperties
    <3> QED
      BY <2>2, <3>3
  <2>4. Return(TRUE, DemangleInplace(text, size)) /\ UNCHANGED <<table, i>>
    BY <1>2, <1>5
  <2> HIDE DEF text
  <2>5. Len(text) \in Nat /\ Len(text) < size
    <3>1. Len(text) \in Nat
      BY <2>3
    <3> QED
      BY <1>3, <1>5, <2>1, <3>1
  <2> DEFINE answer == DemangleInplace(text, size)
  <2>6. answer \in Seq(Characters) /\ Len(answer) < size /\ Len(answer) \in Nat
    <3>1. CASE answer = text
      BY <2>3, <2>5, <3>1
    <3>2. CASE /\ Demangled[name] # NoName /\ Length[Demangled[name]] + 1 <= size
               /\ answer = Str(Demangled[name])
      <4>1. Demangled[name] \in Names
        BY <1>4, <3>2, SymbolizeAssumption
      <4> DEFINE d == Demangled[name]
      <4>2. d \in Names /\ Length[d] + 1 <= size /\ answer = Str(d)
        BY <3>2, <4>1
      <4> HIDE DEF d
      <4>3. Str(d) \in Seq(Characters) /\ Length[d] \in Nat /\ Len(Str(d)) = Length[d]
        BY <4>2, StrFacts
      <4> QED
        BY <1>3, <4>2, <4>3
    <3> QED
      BY <3>1, <3>2 DEF DemangleInplace
  <2> HIDE DEF answer
  <2>7. scene.out_size > 0 => written + Len(answer) < scene.out_size
    BY <1>3, <2>6
  <2>8. /\ UNCHANGED <<scene, file, base_address, i, table, name>>
        /\ \E value \in BOOLEAN : Return(value, answer)
    BY <1>1, <2>1, <2>4 DEF answer
  <2> QED
    BY <1>1, <2>1, <2>6, <2>7, <2>8, MissingKeeps
<1>6. CASE n <= 0 \/ Len(text) >= size
  <2>1. NotInTable(<<>>)
    BY <1>2, <1>6
  <2> HIDE DEF size
  <2>2. /\ trouble' \in BOOLEAN /\ truncated' \in BOOLEAN
        /\ UNCHANGED <<scene, file, base_address, name>>
    BY <1>1, <1>2, <1>3, ReadsFacts
  <2>3. <<>> \in Seq(Characters) /\ Len(<<>>) = 0
    BY EmptySeq
  <2> DEFINE none == <<>>
  <2>4. none \in Seq(Characters) /\ (scene.out_size > 0 => written + Len(none) < scene.out_size)
    BY <1>3, <2>3
  <2>5. NotInTable(none)
    BY <2>1
  <2> HIDE DEF none
  <2> QED
    BY <1>1, <2>2, <2>4, <2>5, NotInTableKeeps
<1> QED
  BY <1>5, <1>6

----------------------------------------------------------------------------
(* The invariant and the theorems *)

LEMMA InitInv == Init => IInv
<1> SUFFICES ASSUME Init PROVE IInv
  OBVIOUS
<1>1. /\ scene \in Scenes /\ pc = "start" /\ reader = NewReader /\ lines = 0
      /\ base_address = 0 /\ file = NoFile /\ table = Tables[1] /\ i = 0 /\ name = NoName
      /\ out = <<>> /\ written = 0 /\ result = FALSE /\ trouble = FALSE /\ truncated = FALSE
  BY DEF Init
<1>2. ReaderOK
  <2>1. BufLen \in Nat \ {0}
    BY SymbolizeAssumption
  <2>2. /\ reader \in Reader /\ reader.append = 0 /\ reader.num_bytes = 0
    BY <1>1, <2>1 DEF NewReader, Reader
  <2>3. lines \in 0 .. Len(maps)
    BY <1>1, LineFacts
  <2> QED
    BY <1>1, <2>1, <2>2, <2>3 DEF ReaderOK, ReaderInv
<1>3. CallOK
  <2>1. out \in Seq(Characters) /\ Len(out) = 0
    BY <1>1, EmptySeq
  <2>2. table \in Range(Tables)
    BY <1>1 DEF Range, Tables
  <2>3. OutInv
    <3>1. scene.out_size \in Nat /\ written = 0 /\ Len(out) = 0
      BY <1>1, <2>1, SceneFacts
    <3>2. OutputFits
      BY <3>1 DEF OutputFits
    <3> QED
      BY <2>1, <3>1, <3>2 DEF OutInv
  <2>4. FileInv
    BY <1>1 DEF FileInv, Reading
  <2>5. pc \in Opening /\ file \in Files \cup {NoFile} /\ name \in Names \cup {NoName}
    BY <1>1 DEF Opening
  <2>6. i \in Nat /\ base_address \in Int /\ {result, trouble, truncated} \subseteq BOOLEAN
    <3>1. i \in Nat /\ base_address \in Int
      BY <1>1
    <3>2. result \in BOOLEAN /\ trouble \in BOOLEAN /\ truncated \in BOOLEAN
      BY <1>1
    <3> QED
      BY <3>1, <3>2
  <2> QED
    BY <2>2, <2>3, <2>4, <2>5, <2>6 DEF CallOK
<1> QED
  BY <1>2, <1>3 DEF IInv

LEMMA NextKeepsCall ==
  ASSUME IInv, [Next]_vars
  PROVE  CallOK'
<1>1. CASE Start
  BY <1>1, StartKeeps
<1>2. CASE OpenCallback
  BY <1>2, OpenCallbackKeeps
<1>3. CASE OpenMaps
  BY <1>3, OpenMapsKeeps
<1>4. CASE ReadLine \/ Pread \/ PreadFails \/ Refill
  BY <1>4, ReadingLinesKeeps
<1>5. CASE ExamineLine
  BY <1>5, ExamineLineKeeps
<1>6. CASE FileGetElfType
  BY <1>6, FileGetElfTypeKeeps
<1>7. CASE ReadHeader \/ ReadStrtab
  BY <1>7, ReadHeadersKeeps
<1>8. CASE GetSectionHeaderByType
  BY <1>8, GetSectionHeaderByTypeKeeps
<1>9. CASE FindSymbol
  BY <1>9, FindSymbolKeeps
<1>10. CASE ReadName
  BY <1>10, ReadNameKeeps
<1>11. CASE UNCHANGED vars
  BY <1>11 DEF vars, search, output, ghosts, IInv, CallOK, FileInv, OutInv, OutputFits
<1> QED
  BY <1>1, <1>2, <1>3, <1>4, <1>5, <1>6, <1>7, <1>8, <1>9, <1>10, <1>11
  DEF Next, Step, Terminated

\* The inductive invariant, for every process, buffer and result of a system call.
THEOREM Invariance == Spec => []IInv
<1>1. IInv /\ [Next]_vars => IInv'
  BY NextKeepsReader, NextKeepsCall DEF IInv
<1> QED
  BY InitInv, <1>1, PTL DEF Spec

\* The indexes of the LineReader stay in its buffer, and the other variables have
\* their types.
THEOREM TypeCorrect == Spec => []TypeOK
<1>1. IInv => TypeOK
  <2> SUFFICES ASSUME IInv PROVE TypeOK
    OBVIOUS
  <2>1. lines \in Nat
    BY LineFacts DEF IInv, ReaderOK, ReaderInv
  <2>2. scene \in Scene
    BY SceneFacts DEF IInv, ReaderOK
  <2> QED
    BY <2>1, <2>2 DEF IInv, ReaderOK, CallOK, OutInv, TypeOK, Opening, Reading
<1> QED
  BY Invariance, <1>1, PTL

\* LineReader::ReadLine returns each line of /proc/self/maps as a whole, however
\* pread and the end of the buffer cut the file.
THEOREM ReadsWholeLines == Spec => []LinesWhole
<1>1. IInv => LinesWhole
  BY DEF IInv, ReaderOK, ReaderInv, LinesWhole
<1> QED
  BY Invariance, <1>1, PTL

\* Nothing Symbolize writes leaves the caller's buffer: neither what it appends,
\* nor what the callback has written before, nor a name that is read or demangled.
THEOREM OutputStaysInBuffer == Spec => []OutputFits
<1>1. IInv => OutputFits
  BY DEF IInv, CallOK, OutInv
<1> QED
  BY Invariance, <1>1, PTL

----------------------------------------------------------------------------
(* What Symbolize finds *)

Paren == <<<<"(", 1>>>>

\* Nothing has failed, and the call is one that Symbolized speaks of.
Clean ==
  /\ ~trouble /\ ~truncated
  /\ ~scene.open_callback /\ scene.out_size > 0 /\ ~scene.PRINT_UNSYMBOLIZED_STACK_TRACES

\* The lines whose loop body is done.
Examined == IF pc = "parse" THEN lines - 1 ELSE lines

\* The line of pc0 is still to come, and the last header among the lines so far has
\* set base_address.  A read begins only where there is no line feed.
SearchInv ==
  /\ pc = "start" => out = <<>>
  /\ pc # "callback"
  /\ pc \in Opening => table = "symtab" /\ i = 0
  /\ pc \in {"open", "readline", "pread", "parse"} =>
       /\ out = Paren
       /\ \A k \in PcLines : k > Examined
       /\ \A j \in 1 .. Examined : maps[j].len <= BufLen
       /\ \A h \in 1 .. Examined :
            HasHeader(maps[h]) /\ (\A j \in h + 1 .. Examined : ~HasHeader(maps[j])) =>
              base_address = LoadedAt(maps[h])
  /\ pc = "pread" /\ lines < Len(maps) => reader.append < maps[lines + 1].len

\* The object file is the one that contains pc0.
FileFound ==
  /\ \E k \in PcLines : maps[k].file = file
  /\ file # NoFile /\ LinesFit /\ scene.objects[file].opens
  /\ base_address = scene.bias
  /\ Len(out) <= 1

\* What the search has left behind does not contain pc0.
TableSearched ==
  /\ pc \in {"elftype", "header"} => table = "symtab" /\ i = 0
  /\ pc \in Reading => Object.is_elf
  /\ table = "dynsym" => Answers(file)["symtab"] = {}
  /\ pc = "sections" => \A k \in 1 .. i : Object.sections[k] # table
  /\ pc \in {"strtab", "symbols", "name"} => table \in Range(Object.sections)
  /\ pc = "strtab" => i = 0
  /\ pc = "symbols" => \A k \in 1 .. i : ~HoldsPc(Symbols[k])
  /\ pc = "name" => name \in Candidate(file, table)

FoundInv == pc \in {"elftype"} \cup Reading => FileFound /\ TableSearched

\* The object is not found.
NoAnswer == PcLines = {} \/ ~LinesFit \/ \E k \in PcLines : maps[k].file = NoFile

Unopened(f) ==
  Prefix(<<<<"(", 1>>>> \o Str(f) \o <<<<"+", 1>>, <<"0", 1>>, <<"x", 1>>>> \o
           Hex(scene.pc0 - scene.bias) \o <<<<")", 1>>>>, scene.out_size - 1)

\* What the call returns for object file f.
Verdict(f) ==
  LET regular == Answers(f)["symtab"]
      names == IF regular # {} THEN regular ELSE Answers(f)["dynsym"]
  IN  IF ~scene.objects[f].opens
        THEN result = (scene.out_size > 2) /\ out = Unopened(f)
      ELSE IF ~scene.objects[f].is_elf THEN ~result
      ELSE /\ result = (names # {})
           /\ result => \E n \in names : out \in {Str(d) : d \in {n, Demangled[n]} \ {NoName}}

Outcome == IF NoAnswer THEN ~result ELSE \A k \in PcLines : Verdict(maps[k].file)

SymInv ==
  /\ Clean => SearchInv /\ FoundInv
  /\ pc = "aborted" => trouble \/ truncated
  /\ pc = "done" /\ Clean => Outcome

\* The invariant is enough.
LEMMA SymbolizedHolds == SymInv => Symbolized
<1> SUFFICES ASSUME SymInv PROVE Symbolized
  OBVIOUS
<1>1. pc = "aborted" => trouble \/ truncated
  BY DEF SymInv
<1>2. ASSUME pc = "done", ~trouble, ~truncated, ~scene.open_callback, scene.out_size > 0,
             ~scene.PRINT_UNSYMBOLIZED_STACK_TRACES
      PROVE  Outcome
  BY <1>2 DEF SymInv, Clean
<1> QED
  BY <1>1, <1>2, Zenon DEF Symbolized, Outcome, NoAnswer, Verdict, Unopened

\* No two mappings contain pc0.
LEMMA OnePcLine ==
  ASSUME scene \in Scenes, NEW j \in PcLines, NEW k \in PcLines
  PROVE  j = k
<1>1. \A a, b \in PcLines : ~(a < b)
  <2> SUFFICES ASSUME NEW a \in PcLines, NEW b \in PcLines, a < b PROVE FALSE
    OBVIOUS
  <2>1. /\ a \in 1 .. Len(maps) /\ b \in 1 .. Len(maps)
        /\ scene.pc0 \in maps[a].start .. maps[a].end - 1
        /\ scene.pc0 \in maps[b].start .. maps[b].end - 1
    BY LineFacts DEF PcLines
  <2>2. maps[a].end <= maps[b].start
    BY <2>1, LayoutAssumption, LineFacts DEF maps
  <2>3. /\ maps[a].start \in Nat /\ maps[a].end \in Nat
        /\ maps[b].start \in Nat /\ maps[b].end \in Nat
    BY <2>1, LineFacts DEF Line
  <2> QED
    BY <2>1, <2>2, <2>3
<1>2. j \in Nat /\ k \in Nat
  BY LineFacts DEF PcLines
<1> QED
  BY <1>1, <1>2

\* LineStart is where the next line begins.
LEMMA NextLineStart ==
  ASSUME scene \in Scenes, lines \in 0 .. Len(maps), lines < Len(maps)
  PROVE  lines + 1 \in 1 .. Len(maps) /\ LineStart = maps[lines + 1].pos
<1>1. lines + 1 \in 1 .. Len(maps) /\ lines \in Nat
  BY LineFacts
<1>2. CASE lines = 0
  BY <1>1, <1>2, LineFacts DEF LineStart
<1>3. CASE lines # 0
  <2>1. lines + 1 > 1 /\ lines + 1 - 1 = lines
    BY <1>1, <1>3
  <2>2. maps[lines + 1].pos = End(maps[lines])
    BY <1>1, <2>1, LineFacts
  <2> QED
    BY <1>1, <1>3, <2>2 DEF LineStart
<1> QED
  BY <1>2, <1>3

\* Where there is no line feed, the rest of the buffer is shorter than the next line.
LEMMA NoLineFeed ==
  ASSUME scene \in Scenes, NEW r \in Reader, NEW bol \in 0 .. r.eod, lines \in 0 .. Len(maps),
         lines < Len(maps),
         \A p \in bol .. r.eod - 1 : r.buf[p] = LineStart + p - bol,
         FindLineFeed(r, bol) = {}
  PROVE  r.eod - bol < maps[lines + 1].len
<1>1. lines + 1 \in 1 .. Len(maps) /\ lines \in Nat
  BY LineFacts
<1>2. PICK pos \in Nat, len \in Nat :
        /\ pos = maps[lines + 1].pos /\ len = maps[lines + 1].len /\ len > 1
        /\ End(maps[lines + 1]) = pos + len
  BY <1>1, LineFacts
<1>3. LineStart = pos
  BY <1>2, NextLineStart
<1>4. r.eod \in Nat /\ bol \in Nat
  BY SymbolizeAssumption DEF Reader
<1> SUFFICES ASSUME r.eod - bol >= len PROVE FALSE
  BY <1>2, <1>4
<1>5. PICK q \in bol .. r.eod - 1 : q = bol + len - 1
  <2>1. bol + len - 1 \in bol .. r.eod - 1
    BY <1>2, <1>4
  <2> QED
    BY <2>1
<1>6. r.buf[q] = pos + len - 1
  <2>1. r.buf[q] = pos + q - bol
    BY <1>3, <1>5
  <2>2. pos + q - bol = pos + len - 1
    BY <1>2, <1>4, <1>5
  <2> QED
    BY <2>1, <2>2
<1>7. r.buf[q] = End(maps[lines + 1]) - 1
  <2>1. PICK e \in Nat : e = End(maps[lines + 1])
    BY <1>1, LineFacts
  <2>2. pos + len - 1 = e - 1
    BY <1>2, <2>1
  <2> QED
    BY <1>6, <2>1, <2>2
<1>8. lines + 1 \in DOMAIN maps
  BY <1>1, LineFacts
<1>9. IsLineFeed(r.buf[q])
  BY <1>7, <1>8 DEF IsLineFeed
<1> QED
  BY <1>5, <1>9 DEF FindLineFeed

\* If the buffer is full, or has all the rest of the file, and still has no whole line,
\* then no line that fits mentions pc0.
LEMMA NothingMore ==
  ASSUME ReaderOK, Clean, SearchInv, pc = "pread", NEW e \in Nat,
         lines < Len(maps) => e < maps[lines + 1].len,
         e = BufLen \/ LineStart + e = MapsLength
  PROVE  NoAnswer
<1>1. scene \in Scenes /\ lines \in 0 .. Len(maps) /\ lines \in Nat /\ BufLen \in Nat
  BY SymbolizeAssumption, LineFacts DEF ReaderOK, ReaderInv
<1>2. \A k \in PcLines : k > lines
  BY DEF SearchInv, Examined
<1> SUFFICES ASSUME NEW k \in PcLines, LinesFit PROVE FALSE
  BY DEF NoAnswer
<1>3. k \in 1 .. Len(maps) /\ k > lines /\ Len(maps) \in Nat
  BY <1>1, <1>2, LineFacts DEF PcLines
<1>4. lines < Len(maps) /\ lines + 1 \in 1 .. k /\ lines + 1 \in 1 .. Len(maps)
  BY <1>1, <1>3
<1>5. PICK pos \in Nat, len \in Nat :
        /\ pos = maps[lines + 1].pos /\ len = maps[lines + 1].len
        /\ End(maps[lines + 1]) = pos + len
  BY <1>1, <1>4, LineFacts
<1>6. e < len /\ LineStart = pos
  BY <1>1, <1>4, <1>5, NextLineStart
<1>7. len <= BufLen
  BY <1>4, <1>5 DEF LinesFit
<1>8. PICK all \in Nat : all = MapsLength /\ pos + len <= all
  <2>1. PICK last \in Nat : last = Len(maps) /\ last \in 1 .. Len(maps)
    BY <1>3
  <2>2. PICK q \in Nat : q = maps[last].pos /\ End(maps[last]) \in Nat /\ End(maps[last]) >= q
    <3>1. maps[last].pos \in Nat /\ maps[last].len \in Nat
          /\ End(maps[last]) = maps[last].pos + maps[last].len
      BY <1>1, <2>1, LineFacts
    <3> QED
      BY <3>1
  <2>3. CASE lines + 1 = last
    BY <1>5, <2>1, <2>2, <2>3 DEF MapsLength
  <2>4. CASE lines + 1 # last
    <3>1. lines + 1 < last
      BY <1>1, <1>4, <2>1, <2>4
    <3>2. End(maps[lines + 1]) <= q
      BY <1>1, <1>4, <2>1, <2>2, <3>1, LineFacts
    <3>3. PICK all \in Nat : all = MapsLength
      BY <2>1, <2>2 DEF MapsLength
    <3>4. all >= q
      BY <2>1, <2>2, <3>3 DEF MapsLength
    <3> QED
      BY <1>5, <3>2, <3>3, <3>4
  <2> QED
    BY <2>3, <2>4
<1> QED
  BY <1>1, <1>5, <1>6, <1>7, <1>8

\* The search goes on.
LEMMA SearchGoesOn ==
  ASSUME Clean, SearchInv, pc \in {"open", "readline", "pread"},
         UNCHANGED <<scene, base_address, search, output>>,
         Examined' = Examined, pc' \in {"readline", "pread", "parse"},
         pc' = "pread" /\ lines' < Len(maps) => reader'.append < maps[lines' + 1].len
  PROVE  SearchInv' /\ FoundInv'
<1>1. PcLines' = PcLines /\ maps' = maps
  BY DEF PcLines, maps
<1>2. UNCHANGED <<base_address, table, i, out>>
  BY DEF search, output
<1>3. /\ table = "symtab" /\ i = 0 /\ out = Paren
      /\ \A k \in PcLines : k > Examined
      /\ \A j \in 1 .. Examined : maps[j].len <= BufLen
      /\ \A h \in 1 .. Examined :
           HasHeader(maps[h]) /\ (\A j \in h + 1 .. Examined : ~HasHeader(maps[j])) =>
             base_address = LoadedAt(maps[h])
  BY DEF SearchInv, Opening
<1>4. FoundInv'
  BY DEF FoundInv, Reading
<1>5. pc' # "start" /\ pc' # "callback"
  OBVIOUS
<1> QED
  BY <1>1, <1>2, <1>3, <1>4, <1>5 DEF SearchInv

\* It ends with a string that says nothing.
LEMMA NothingReturned ==
  ASSUME out = Paren, NEW base, ReturnUnopened(out, base)
  PROVE  pc' = "done" /\ ~result' /\ out' = out
<1>1. ~(Len(out) > 1)
  BY DEF Paren
<1> QED
  BY <1>1 DEF ReturnUnopened, Return

LEMMA NoAnswerOutcome ==
  ASSUME NoAnswer, UNCHANGED scene, ~result'
  PROVE  Outcome'
<1>1. NoAnswer'
  BY DEF NoAnswer, PcLines, LinesFit, maps
<1> QED
  BY <1>1 DEF Outcome

----------------------------------------------------------------------------
(* The steps of the search for the line of pc0 *)

\* Each step keeps the invariant, those that fail because nothing is Clean afterwards.
LEMMA StartFinds ==
  ASSUME IInv, SymInv, Start
  PROVE  SymInv'
<1>1. /\ pc = "start" /\ UNCHANGED <<scene, lines, trouble, truncated, base_address, table, i>>
      /\ scene \in Scenes /\ scene.out_size \in Nat /\ lines = 0
  BY SceneFacts DEF IInv, ReaderOK, ReaderInv, Start, search, ghosts
<1>2. pc' \in {"done", "open", "callback"}
  BY DEF Start, Return
<1>3. SUFFICES ASSUME Clean' PROVE SearchInv' /\ FoundInv' /\ pc' # "done"
  BY <1>2 DEF SymInv
<1>4. Clean /\ SearchInv
  BY <1>1, <1>3 DEF Clean, SymInv
<1>5. scene.out_size > 1 /\ ~scene.open_callback
  BY <1>1, <1>4, ScenesAssumption DEF Clean
<1>6. pc' = "open" /\ out' = SafeAppendString(Paren, out, scene.out_size)
  <2>1. ~(scene.out_size < 1)
    BY <1>1, <1>5
  <2> QED
    BY <1>5, <2>1 DEF Start, Paren
<1>7. out' = Paren
  <2>1. PICK n \in Nat : n = scene.out_size /\ n > 1
    BY <1>1, <1>5
  <2>2. out = <<>> /\ Len(out) = 0
    BY <1>1, <1>4 DEF SearchInv
  <2>3. Len(Paren) = 1 /\ Paren \in Seq({<<"(", 1>>})
    BY DEF Paren
  <2>4. Min({n - 0 - 1, 1}) = 1
    <3>1. PICK a \in Int, b \in Int : a = n - 0 - 1 /\ b = 1 /\ a >= b
      BY <2>1
    <3>2. Min({a, b}) \in {a, b} /\ Min({a, b}) <= a /\ Min({a, b}) <= b
      BY MinOfTwo
    <3> QED
      BY <3>1, <3>2
  <2>5. SubSeq(Paren, 1, 1) = Paren
    BY <2>3
  <2>6. Prefix(Paren, n - Len(out) - 1) = Paren
    BY <2>2, <2>3, <2>4, <2>5 DEF Prefix
  <2>7. out \o Paren = Paren
    BY <2>2, <2>3
  <2> QED
    BY <1>6, <2>1, <2>6, <2>7 DEF SafeAppendString
<1>8. FoundInv'
  BY <1>6 DEF FoundInv, Reading
<1>9. \A k \in PcLines' : k > 0
  <2>1. PcLines' = PcLines
    BY <1>1 DEF PcLines, maps
  <2> QED
    BY <1>1, <2>1, LineFacts DEF PcLines
<1>10. Examined' = 0 /\ table' = "symtab" /\ i' = 0
  BY <1>1, <1>4, <1>6 DEF Examined, SearchInv, Opening
<1> QED
  BY <1>6, <1>7, <1>8, <1>9, <1>10 DEF SearchInv

LEMMA OpenCallbackFinds ==
  ASSUME SymInv, OpenCallback
  PROVE  SymInv'
<1>1. pc = "callback" /\ UNCHANGED <<scene, trouble, truncated>>
  BY DEF OpenCallback, ghosts
<1>2. pc' \in {"done", "elftype"}
  BY DEF OpenCallback, Opened, ReturnUnopened, Return
<1>3. ~Clean'
  BY <1>1 DEF Clean, SymInv, SearchInv
<1> QED
  BY <1>2, <1>3 DEF SymInv

LEMMA OpenMapsFinds ==
  ASSUME SymInv, OpenMaps
  PROVE  SymInv'
<1>1. UNCHANGED <<scene, truncated, base_address, search, lines>> /\ pc = "open"
  BY DEF OpenMaps
<1>2. CASE pc' = "readline" /\ UNCHANGED <<output, trouble>>
  <2>1. SUFFICES ASSUME Clean' PROVE SearchInv' /\ FoundInv'
    BY <1>2 DEF SymInv
  <2>2. Clean /\ SearchInv
    BY <1>1, <1>2, <2>1 DEF Clean, SymInv
  <2>3. Examined' = Examined
    BY <1>1, <1>2 DEF Examined
  <2> QED
    BY <1>1, <1>2, <2>2, <2>3, SearchGoesOn
<1>3. CASE trouble' = TRUE /\ ReturnUnopened(out, base_address)
  BY <1>3 DEF SymInv, Clean, ReturnUnopened, Return
<1> QED
  BY <1>2, <1>3 DEF OpenMaps

LEMMA PreadFinds ==
  ASSUME ReaderOK, SymInv, Pread
  PROVE  SymInv'
<1>1. /\ UNCHANGED <<scene, pc, base_address, search, output, lines, trouble, truncated>>
      /\ pc = "pread" /\ reader \in Reader
  BY DEF Pread, ReaderOK, ghosts
<1>2. reader'.append = reader.append
  BY <1>1 DEF Pread, Reader
<1>3. SUFFICES ASSUME Clean' PROVE SearchInv' /\ FoundInv'
  BY <1>1 DEF SymInv
<1>4. Clean /\ SearchInv
  BY <1>1, <1>3 DEF Clean, SymInv
<1>5. Examined' = Examined
  BY <1>1 DEF Examined
<1>6. lines' < Len(maps) => reader'.append < maps[lines' + 1].len
  BY <1>1, <1>2, <1>4 DEF SearchInv
<1> QED
  BY <1>1, <1>4, <1>5, <1>6, SearchGoesOn

LEMMA PreadFailsFinds ==
  ASSUME SymInv, PreadFails
  PROVE  SymInv'
BY DEF PreadFails, SymInv, Clean, ReturnUnopened, Return

\* The next line is in the buffer, or there is no answer.
LEMMA TakeLineFinds ==
  ASSUME ReaderOK, SymInv, pc \in {"readline", "pread"}, NEW r \in Reader, NEW bol,
         UNCHANGED <<scene, base_address, search, trouble, truncated>>,
         TakeLine(r, bol), FindLineFeed(r, bol) = {} /\ Clean => NoAnswer
  PROVE  SymInv'
<1>1. lines \in Nat
  BY LineFacts DEF ReaderOK, ReaderInv
<1>2. Clean' => Clean /\ SearchInv /\ out = Paren
  BY DEF Clean, SymInv, SearchInv
<1>3. CASE FindLineFeed(r, bol) # {}
  <2>1. lines' = lines + 1 /\ pc' = "parse" /\ UNCHANGED output
    BY <1>3 DEF TakeLine
  <2>2. SUFFICES ASSUME Clean' PROVE SearchInv' /\ FoundInv'
    BY <2>1 DEF SymInv
  <2>3. Examined' = Examined
    BY <1>1, <2>1 DEF Examined
  <2> QED
    BY <1>2, <2>1, <2>2, <2>3, SearchGoesOn
<1>4. CASE FindLineFeed(r, bol) = {}
  <2>1. ReturnUnopened(out, base_address)
    BY <1>4 DEF TakeLine
  <2>2. pc' = "done"
    BY <2>1 DEF ReturnUnopened, Return
  <2>3. SUFFICES ASSUME Clean' PROVE Outcome'
    BY <2>2 DEF SymInv, SearchInv, FoundInv, Opening, Reading
  <2>4. ~result'
    BY <1>2, <2>1, <2>3, NothingReturned
  <2> QED
    BY <1>2, <1>4, <2>3, <2>4, NoAnswerOutcome
<1> QED
  BY <1>3, <1>4

LEMMA ReadLineFinds ==
  ASSUME ReaderOK, SymInv, ReadLine
  PROVE  SymInv'
<1> DEFINE bol == reader.eol + 1
<1>1. /\ UNCHANGED <<scene, base_address, search, trouble, truncated>> /\ pc = "readline"
      /\ scene \in Scenes /\ reader \in Reader /\ lines \in 0 .. Len(maps) /\ lines \in Nat
      /\ (reader = NewReader /\ lines = 0) \/ AfterLine
  BY LineFacts DEF ReadLine, ReaderOK, ReaderInv
<1>2. /\ reader.eol \in Nat /\ reader.eod \in Nat /\ reader.eod <= BufLen /\ BufLen \in Nat
  BY <1>1, SymbolizeAssumption DEF Reader
<1>3. ASSUME NEW n \in Nat, reader'.append = n, pc' = "pread", UNCHANGED <<output, lines>>,
             lines < Len(maps) => n < maps[lines + 1].len
      PROVE  SymInv'
  <2>1. SUFFICES ASSUME Clean' PROVE SearchInv' /\ FoundInv'
    BY <1>3 DEF SymInv
  <2>2. Clean /\ SearchInv
    BY <1>1, <2>1 DEF Clean, SymInv
  <2>3. Examined' = Examined
    BY <1>1, <1>3 DEF Examined
  <2> QED
    BY <1>1, <1>3, <2>2, <2>3, SearchGoesOn
<1>4. CASE reader.eod = 0
  <2>1. StartRead(reader, 0)
    BY <1>4 DEF ReadLine
  <2>2. reader'.append = 0 /\ pc' = "pread" /\ UNCHANGED <<output, lines>>
    BY <1>1, <2>1 DEF StartRead, Reader
  <2>3. lines < Len(maps) => 0 < maps[lines + 1].len
    <3> SUFFICES ASSUME lines < Len(maps) PROVE 0 < maps[lines + 1].len
      OBVIOUS
    <3>1. lines + 1 \in 1 .. Len(maps)
      BY <1>1, LineFacts
    <3>2. PICK n \in Nat : n = maps[lines + 1].len /\ n > 1
      BY <1>1, <3>1, LineFacts
    <3> QED
      BY <3>2
  <2> QED
    BY <1>3, <2>2, <2>3
<1>5. CASE reader.eod # 0 /\ FindLineFeed(reader, bol) # {}
  <2>1. TakeLine(reader, bol)
    BY <1>5 DEF ReadLine
  <2>2. FindLineFeed(reader, bol) = {} /\ Clean => NoAnswer
    BY <1>5
  <2> HIDE DEF bol
  <2> QED
    BY <1>1, <2>1, <2>2, TakeLineFinds
<1>6. CASE reader.eod # 0 /\ FindLineFeed(reader, bol) = {}
  <2>1. StartRead([reader EXCEPT !.buf = Moved(reader, bol), !.bol = bol], reader.eod - bol)
    BY <1>6 DEF ReadLine
  <2>2. reader'.append = reader.eod - bol /\ pc' = "pread" /\ UNCHANGED <<output, lines>>
    BY <1>1, <2>1 DEF StartRead, Reader
  <2>3. AfterLine
    BY <1>1, <1>6 DEF NewReader
  <2>4. LineStart \in Int
    <3>1. lines # 0 /\ lines \in 1 .. Len(maps)
      BY <1>1, <2>3 DEF AfterLine
    <3> QED
      BY <1>1, <3>1, LineFacts DEF LineStart
  <2>5. bol \in 0 .. reader.eod /\ reader.eod - bol \in Nat
    BY <1>2, <2>3 DEF AfterLine
  <2>6. \A p \in bol .. reader.eod - 1 : reader.buf[p] = LineStart + p - bol
    <3> SUFFICES ASSUME NEW p \in bol .. reader.eod - 1
                 PROVE  reader.buf[p] = LineStart + p - bol
      OBVIOUS
    <3>1. reader.buf[p] = LineStart + p - reader.eol - 1
      BY <2>3 DEF AfterLine
    <3> QED
      BY <1>2, <2>4, <3>1
  <2> HIDE DEF bol
  <2>7. lines < Len(maps) => reader.eod - bol < maps[lines + 1].len
    BY <1>1, <1>6, <2>5, <2>6, NoLineFeed
  <2> QED
    BY <1>3, <2>2, <2>5, <2>7
<1> QED
  BY <1>4, <1>5, <1>6

LEMMA RefillFinds ==
  ASSUME ReaderOK, SymInv, Refill
  PROVE  SymInv'
<1>1. /\ UNCHANGED <<scene, base_address, search, trouble, truncated>> /\ pc = "pread"
      /\ scene \in Scenes /\ reader \in Reader /\ lines \in 0 .. Len(maps)
      /\ reader.offset = LineStart + reader.append
      /\ \A p \in 0 .. (reader.append + reader.num_bytes) - 1 : reader.buf[p] = LineStart + p
      /\ reader.append + reader.num_bytes <= BufLen
  BY DEF Refill, ReaderOK, ReaderInv, DuringRead
<1>2. PICK at \in Nat : at = reader.append + reader.num_bytes
  BY <1>1 DEF Reader
<1>3. /\ reader.append \in Nat /\ reader.num_bytes \in Nat /\ reader.offset \in Nat
      /\ BufLen \in Nat
  BY <1>1, SymbolizeAssumption DEF Reader
<1>4. LineStart \in Int /\ MapsLength \in Int
  <2>1. Len(maps) \in 1 .. Len(maps)
    BY <1>1, LineFacts
  <2>2. MapsLength \in Int
    BY <1>1, <2>1, LineFacts DEF MapsLength
  <2>3. CASE lines = 0
    BY <2>2, <2>3 DEF LineStart
  <2>4. CASE lines # 0
    <3>1. lines \in 1 .. Len(maps)
      BY <1>1, <2>4, LineFacts
    <3> QED
      BY <1>1, <2>2, <2>4, <3>1, LineFacts DEF LineStart
  <2> QED
    BY <2>3, <2>4
<1>5. at = BufLen \/ LineStart + at = MapsLength
  <2>1. Wanted = 0 \/ Left = 0
    BY DEF Refill
  <2>2. PICK a \in Nat, n \in Nat, start \in Int, end \in Int :
          /\ a = reader.append /\ n = reader.num_bytes /\ start = LineStart /\ end = MapsLength
    BY <1>3, <1>4
  <2>3. Wanted = BufLen - a - n /\ Left = end - (start + a) - n /\ at = a + n
    BY <1>1, <1>2, <2>2 DEF Wanted, Left
  <2> QED
    BY <1>3, <2>1, <2>2, <2>3
<1>6. ASSUME lines < Len(maps) => at < maps[lines + 1].len, Clean
      PROVE  NoAnswer
  <2>1. SearchInv
    BY <1>6 DEF SymInv
  <2> QED
    BY <1>1, <1>5, <1>6, <2>1, NothingMore
<1>7. CASE reader.num_bytes = 0
  <2>1. ReturnUnopened(out, base_address)
    BY <1>7 DEF Refill
  <2>2. pc' = "done"
    BY <2>1 DEF ReturnUnopened, Return
  <2>3. SUFFICES ASSUME Clean' PROVE Outcome'
    BY <2>2 DEF SymInv, SearchInv, FoundInv, Opening, Reading
  <2>4. Clean /\ SearchInv /\ out = Paren
    BY <1>1, <2>3 DEF Clean, SymInv, SearchInv
  <2>5. ~result'
    BY <2>1, <2>4, NothingReturned
  <2>6. at = reader.append
    BY <1>2, <1>3, <1>7
  <2>7. NoAnswer
    BY <1>1, <1>6, <2>4, <2>6 DEF SearchInv
  <2> QED
    BY <1>1, <2>5, <2>7, NoAnswerOutcome
<1>8. CASE reader.num_bytes # 0
  <2>1. TakeLine(Refilled, 0)
    BY <1>8 DEF Refill
  <2>2. Refilled = [reader EXCEPT !.offset = reader.offset + reader.num_bytes, !.eod = at]
    BY <1>1, <1>2 DEF Refilled, Reader
  <2>3. at \in 0 .. BufLen /\ reader.offset + reader.num_bytes \in Nat
    BY <1>1, <1>2, <1>3
  <2>4. Refilled \in Reader /\ Refilled.eod = at /\ Refilled.buf = reader.buf
    BY <1>1, <2>2, <2>3 DEF Reader
  <2>5. \A p \in 0 .. Refilled.eod - 1 : Refilled.buf[p] = LineStart + p - 0
    <3> SUFFICES ASSUME NEW p \in 0 .. at - 1 PROVE reader.buf[p] = LineStart + p - 0
      BY <2>4
    <3>1. reader.buf[p] = LineStart + p
      BY <1>1, <1>2
    <3> QED
      BY <1>4, <3>1
  <2>6. ASSUME FindLineFeed(Refilled, 0) = {}, Clean PROVE NoAnswer
    <3>1. ASSUME lines < Len(maps) PROVE at < maps[lines + 1].len
      <4>1. 0 \in 0 .. Refilled.eod /\ Refilled.eod - 0 = at
        BY <1>2, <2>4
      <4> QED
        BY <1>1, <2>4, <2>5, <2>6, <3>1, <4>1, NoLineFeed
    <3> QED
      BY <1>6, <2>6, <3>1
  <2> QED
    BY <1>1, <2>1, <2>4, <2>6, TakeLineFinds
<1> QED
  BY <1>7, <1>8

----------------------------------------------------------------------------
(* The answer where the object file does not open *)

\* The characters that Prefix takes.
LEMMA PrefixIs ==
  ASSUME NEW s \in Seq(Characters), NEW n \in Nat
  PROVE  /\ Prefix(s, n) \in Seq(Characters)
         /\ Len(Prefix(s, n)) = IF n < Len(s) THEN n ELSE Len(s)
         /\ \A p \in 1 .. Len(Prefix(s, n)) : Prefix(s, n)[p] = s[p]
<1>1. Len(s) \in Nat
  OBVIOUS
<1>2. PICK m \in Nat : m = Min({n, Len(s)}) /\ m = IF n < Len(s) THEN n ELSE Len(s)
  <2>1. PICK k \in Nat : k = Len(s)
    BY <1>1
  <2>2. PICK x \in Int, y \in Int : x = n /\ y = k
    BY <2>1
  <2>3. Min({x, y}) \in {x, y} /\ Min({x, y}) <= x /\ Min({x, y}) <= y
    BY MinOfTwo
  <2> QED
    BY <2>1, <2>2, <2>3
<1>3. Prefix(s, n) = SubSeq(s, 1, m)
  BY <1>2 DEF Prefix
<1>4. m <= Len(s) /\ \A p \in 1 .. m : s[p] \in Characters
  <2>1. m <= Len(s)
    BY <1>1, <1>2
  <2>2. \A p \in 1 .. m : p \in 1 .. Len(s)
    BY <1>1, <2>1
  <2> QED
    BY <2>1, <2>2
<1>5. SubSeq(s, 1, m) \in Seq(Characters) /\ Len(SubSeq(s, 1, m)) = m
  BY <1>4, SubSeqProperties
<1>6. \A p \in 1 .. m : SubSeq(s, 1, m)[p] = s[p]
  BY <1>4, SubSeqProperties
<1> QED
  BY <1>2, <1>3, <1>5, <1>6

LEMMA PrefixWhole ==
  ASSUME NEW s \in Seq(Characters), NEW n \in Nat, Len(s) <= n
  PROVE  Prefix(s, n) = s
<1>1. Prefix(s, n) \in Seq(Characters) /\ Len(Prefix(s, n)) = Len(s)
      /\ \A p \in 1 .. Len(s) : Prefix(s, n)[p] = s[p]
  <2>1. Len(s) \in Nat /\ ~(n < Len(s))
    OBVIOUS
  <2> QED
    BY <2>1, PrefixIs
<1> QED
  BY <1>1, SeqEqual

\* A buffer that holds the beginning of a text goes on to hold that of the text with
\* what is appended.
LEMMA AppendIsPrefix ==
  ASSUME NEW w \in Seq(Characters), NEW source \in Seq(Characters), NEW size \in Nat, size > 0
  PROVE  SafeAppendString(source, Prefix(w, size - 1), size) = Prefix(w \o source, size - 1)
<1>1. PICK n \in Nat : n = size - 1
  OBVIOUS
<1>2. PICK a \in Nat, b \in Nat : a = Len(w) /\ b = Len(source)
  OBVIOUS
<1>3. PICK dest \in Seq(Characters) : dest = Prefix(w, n)
  BY PrefixIs
<1>4. PICK d \in Nat : d = Len(dest) /\ d = IF n < a THEN n ELSE a
  BY <1>2, <1>3, PrefixIs
<1>5. PICK rest \in Nat : rest = size - d - 1 /\ rest = n - d
  BY <1>1, <1>4
<1>6. PICK part \in Seq(Characters) : part = Prefix(source, rest)
  BY PrefixIs
<1>7. PICK q \in Nat : q = Len(part) /\ q = IF rest < b THEN rest ELSE b
  BY <1>2, <1>6, PrefixIs
<1>8. PICK ws \in Seq(Characters) : ws = w \o source /\ Len(ws) = a + b
  BY <1>2, ConcatProperties
<1>9. PICK all \in Seq(Characters) : all = Prefix(ws, n)
  BY PrefixIs
<1>10. PICK m \in Nat : m = Len(all) /\ m = IF n < a + b THEN n ELSE a + b
  <2>1. Len(all) = IF n < Len(ws) THEN n ELSE Len(ws)
    BY <1>1, <1>9, PrefixIs
  <2>2. Len(ws) = a + b
    BY <1>8
  <2> QED
    BY <1>1, <2>1, <2>2
<1>11. dest \o part \in Seq(Characters) /\ Len(dest \o part) = d + q
  BY <1>4, <1>7, ConcatProperties
<1>12. d + q = m
  BY <1>4, <1>5, <1>7, <1>10
<1>13. ASSUME NEW p \in 1 .. m PROVE (dest \o part)[p] = all[p]
  <2>1. all[p] = (w \o source)[p]
    <3>1. all[p] = ws[p]
      <4>1. p \in 1 .. Len(Prefix(ws, n))
        BY <1>9, <1>10, <1>13
      <4> QED
        BY <1>9, <4>1, PrefixIs
    <3> QED
      BY <1>8, <3>1
  <2>2. CASE p <= d
    <3>1. p \in 1 .. Len(dest) /\ p \in 1 .. Len(w)
      BY <1>2, <1>4, <1>13, <2>2
    <3>2. (dest \o part)[p] = dest[p]
      BY <3>1, ConcatProperties
    <3>3. (w \o source)[p] = w[p]
      BY <3>1, ConcatProperties
    <3>4. dest[p] = w[p]
      BY <1>3, <3>1, PrefixIs
    <3> QED
      BY <2>1, <3>2, <3>3, <3>4
  <2>3. CASE p > d
    <3>1. rest > 0 /\ d = a
      BY <1>4, <1>5, <1>7, <1>10, <1>12, <1>13, <2>3
    <3>2. PICK k \in Nat : k = p - d /\ k \in 1 .. q /\ k \in 1 .. b
      BY <1>5, <1>7, <1>12, <1>13, <2>3
    <3>3. (dest \o part)[p] = part[k]
      <4>1. p \in Len(dest) + 1 .. Len(dest) + Len(part) /\ p - Len(dest) = k
        BY <1>4, <1>7, <1>12, <1>13, <2>3, <3>2
      <4> QED
        BY <4>1, ConcatProperties
    <3>4. (w \o source)[p] = source[k]
      <4>1. p \in Len(w) + 1 .. Len(w) + Len(source) /\ p - Len(w) = k
        BY <1>2, <1>13, <2>3, <3>1, <3>2
      <4> QED
        BY <4>1, ConcatProperties
    <3>5. part[k] = source[k]
      <4>1. k \in 1 .. Len(Prefix(source, rest))
        BY <1>6, <1>7, <3>2
      <4> QED
        BY <1>6, <4>1, PrefixIs
    <3> QED
      BY <2>1, <3>3, <3>4, <3>5
  <2> QED
    <3>1. p <= d \/ p > d
      BY <1>4, <1>10, <1>13
    <3> QED
      BY <2>2, <2>3, <3>1, Zenon
<1>14. dest \o part = all
  BY <1>10, <1>11, <1>12, <1>13, SeqEqual
<1>15. SafeAppendString(source, dest, size) = dest \o part
  BY <1>4, <1>5, <1>6 DEF SafeAppendString
<1> QED
  BY <1>1, <1>3, <1>8, <1>9, <1>14, <1>15

\* Nothing is appended to a full buffer.
LEMMA AppendToFull ==
  ASSUME NEW dest \in Seq(Characters), NEW source \in Seq(Characters), NEW size \in Nat,
         Len(dest) = size - 1
  PROVE  SafeAppendString(source, dest, size) = dest
<1>1. size - Len(dest) - 1 = 0
  BY Len(dest) \in Nat
<1>2. Prefix(source, 0) = <<>>
  <2>1. Prefix(source, 0) \in Seq(Characters) /\ Len(Prefix(source, 0)) = 0
    BY PrefixIs
  <2> QED
    BY <2>1, EmptySeq
<1>3. dest \o <<>> = dest
  OBVIOUS
<1> QED
  BY <1>1, <1>2, <1>3 DEF SafeAppendString

\* The output where the object file does not open.
LEMMA UnopenedText ==
  ASSUME scene \in Scenes, scene.out_size > 1, NEW f \in Files, NEW known,
         known = SafeAppendString(Str(f), Paren, scene.out_size),
         ReturnUnopened(known, scene.bias)
  PROVE  pc' = "done" /\ result' = (scene.out_size > 2) /\ out' = Unopened(f)
<1>1. PICK size \in Nat, n \in Nat : size = scene.out_size /\ n = size - 1 /\ size > 1
  BY SceneFacts
<1>2. PICK length \in Nat : length = Len(Str(f)) /\ length > 0
  BY StrFacts, SymbolizeAssumption
<1>3. PICK plus \in Seq(Characters), close \in Seq(Characters), hex \in Seq(Characters),
           name1 \in Seq(Characters) :
        /\ plus = <<<<"+", 1>>, <<"0", 1>>, <<"x", 1>>>> /\ close = <<<<")", 1>>>>
        /\ hex = Hex(scene.pc0 - scene.bias) /\ name1 = Str(f)
  <2>1. scene.pc0 - scene.bias \in Int
    BY SceneFacts
  <2> QED
    BY <2>1, LiteralFacts, HexFacts, StrFacts
<1>4. Paren \in Seq(Characters) /\ Len(Paren) = 1
  BY LiteralFacts DEF Paren
<1>5. PICK w1 \in Seq(Characters) : w1 = Paren \o name1 /\ Len(w1) = 1 + length
  <2>1. Paren \o name1 \in Seq(Characters) /\ Len(Paren \o name1) = Len(Paren) + Len(name1)
    BY <1>3, <1>4, ConcatProperties
  <2> QED
    BY <1>2, <1>3, <1>4, <2>1
<1>6. PICK w2 \in Seq(Characters) : w2 = w1 \o plus
  BY ConcatProperties
<1>7. PICK w3 \in Seq(Characters) : w3 = w2 \o hex
  BY ConcatProperties
<1>8. PICK w4 \in Seq(Characters) : w4 = w3 \o close
  BY ConcatProperties
<1>9. known = Prefix(w1, n)
  <2>1. Prefix(Paren, n) = Paren
    <3>1. Len(Paren) <= n
      BY <1>1, <1>4
    <3> QED
      BY <1>1, <1>4, <3>1, PrefixWhole
  <2>2. SafeAppendString(name1, Prefix(Paren, size - 1), size) = Prefix(Paren \o name1, size - 1)
    BY <1>1, <1>4, AppendIsPrefix
  <2> QED
    BY <1>1, <1>3, <1>5, <2>1, <2>2
<1>10. PICK k \in Nat : k = Len(known) /\ k = IF n < 1 + length THEN n ELSE 1 + length
  <2>1. Len(known) = IF n < Len(w1) THEN n ELSE Len(w1)
    BY <1>1, <1>9, PrefixIs
  <2>2. Len(w1) = 1 + length
    BY <1>5
  <2> QED
    BY <1>1, <1>2, <2>1, <2>2
<1>11. AppendOffset(known, scene.bias, size) = Prefix(w4, n)
  <2>1. SafeAppendString(plus, Prefix(w1, size - 1), size) = Prefix(w1 \o plus, size - 1)
    BY <1>1, AppendIsPrefix
  <2>2. SafeAppendString(hex, Prefix(w2, size - 1), size) = Prefix(w2 \o hex, size - 1)
    BY <1>1, AppendIsPrefix
  <2>3. SafeAppendString(close, Prefix(w3, size - 1), size) = Prefix(w3 \o close, size - 1)
    BY <1>1, AppendIsPrefix
  <2>4. SafeAppendString(plus, known, size) = Prefix(w2, n)
    BY <1>1, <1>6, <1>9, <2>1
  <2>5. SafeAppendString(hex, Prefix(w2, n), size) = Prefix(w3, n)
    BY <1>1, <1>7, <2>2
  <2>6. SafeAppendString(close, Prefix(w3, n), size) = Prefix(w4, n)
    BY <1>1, <1>8, <2>3
  <2>7. AppendOffset(known, scene.bias, size) =
          SafeAppendString(close,
             SafeAppendString(hex, SafeAppendString(plus, known, size), size), size)
    BY <1>3 DEF AppendOffset
  <2> QED
    BY <2>4, <2>5, <2>6, <2>7
<1>12. Unopened(f) = Prefix(w4, n)
  BY <1>1, <1>3, <1>5, <1>6, <1>7, <1>8, Zenon DEF Unopened, Paren
<1>13. CASE size > 2
  <2>1. Len(known) > 1
    <3>1. k > 1
      <4>1. n > 1 /\ 1 + length > 1
        BY <1>1, <1>2, <1>13
      <4>2. k = n \/ k = 1 + length
        BY <1>10
      <4> QED
        BY <4>1, <4>2
    <3> QED
      BY <1>10, <3>1
  <2>2. Return(TRUE, AppendOffset(known, scene.bias, scene.out_size))
    BY <2>1 DEF ReturnUnopened
  <2>3. pc' = "done" /\ result' = TRUE /\ out' = Unopened(f)
    BY <1>1, <1>11, <1>12, <2>2 DEF Return
  <2> QED
    <3>1. scene.out_size > 2
      BY <1>1, <1>13
    <3> QED
      BY <2>3, <3>1, Zenon
<1>14. CASE size = 2
  <2>1. k = 1 /\ k = size - 1
    BY <1>1, <1>2, <1>10, <1>14
  <2>2. ~(Len(known) > 1)
    BY <1>10, <2>1
  <2>3. Return(FALSE, known)
    BY <2>2 DEF ReturnUnopened
  <2>4. known \in Seq(Characters) /\ Len(known) = size - 1
    <3>1. known \in Seq(Characters)
      BY <1>1, <1>9, PrefixIs
    <3> QED
      BY <1>10, <2>1, <3>1
  <2>5. /\ SafeAppendString(plus, known, size) = known /\ SafeAppendString(hex, known, size) = known
        /\ SafeAppendString(close, known, size) = known
    BY <2>4, AppendToFull
  <2>6. AppendOffset(known, scene.bias, size) = known
    BY <1>3, <2>5 DEF AppendOffset
  <2>7. pc' = "done" /\ result' = FALSE /\ out' = Unopened(f)
    BY <1>11, <1>12, <2>3, <2>6 DEF Return
  <2> QED
    <3>1. (scene.out_size > 2) = FALSE
      BY <1>1, <1>14
    <3> QED
      BY <2>7, <3>1, Zenon
<1> QED
  BY <1>1, <1>13, <1>14

\* What ExamineLine makes of base_address, unless a read fails.
LEMMA BaseFound ==
  ASSUME NEW line \in Line, NEW b \in BaseAddresses(line), ~b.failed
  PROVE  b.base = IF HasHeader(line) THEN LoadedAt(line) ELSE base_address
<1>1. line.r \in BOOLEAN /\ line.elf \in {"none", "exec", "dyn", "other"}
  BY DEF Line
<1>2. CASE ~line.r \/ line.elf \in {"none", "other"}
  BY <1>2 DEF BaseAddresses, HasHeader
<1>3. CASE line.r /\ line.elf = "exec"
  BY <1>3 DEF BaseAddresses, HasHeader, LoadedAt
<1>4. CASE line.r /\ line.elf = "dyn"
  <2> DEFINE base == IF Headers(line) = {} THEN line.start
                     ELSE line.start - line.phdrs[Min(Headers(line))].vaddr
  <2>1. b = [base |-> base, failed |-> FALSE] \/ \E x : b = [base |-> x, failed |-> TRUE]
    BY <1>4 DEF BaseAddresses
  <2>2. b = [base |-> base, failed |-> FALSE]
    BY <2>1
  <2>3. LoadedAt(line) = base /\ HasHeader(line)
    BY <1>4 DEF LoadedAt, HasHeader
  <2> QED
    BY <2>2, <2>3
<1> QED
  BY <1>1, <1>2, <1>3, <1>4

\* The line contains pc0, or pc0 is still to come; a header sets base_address.
LEMMA ExamineLineFinds ==
  ASSUME IInv, SymInv, ExamineLine
  PROVE  SymInv'
<1>1. /\ pc = "parse" /\ UNCHANGED <<scene, table, i, lines, truncated>>
      /\ ReaderOK /\ scene \in Scenes /\ lines \in Nat
  BY LineFacts DEF ExamineLine, IInv, ReaderOK, ReaderInv
<1>2. /\ lines \in 1 .. Len(maps) /\ CurrentLine = maps[lines] /\ maps[lines].len <= BufLen
  BY <1>1, ExaminesNext
<1>3. PICK line \in Line : line = maps[lines]
  BY <1>1, <1>2, LineFacts
<1>4. PICK b \in BaseAddresses(line), fails \in BOOLEAN :
           /\ base_address' = b.base
           /\ IF ~(line.start <= scene.pc0 /\ scene.pc0 < line.end /\ line.r /\ line.x)
                THEN pc' = "readline" /\ ~fails /\ UNCHANGED <<output, file>>
              ELSE IF line.file = NoFile
                THEN ReturnUnopened(out, b.base) /\ ~fails /\ UNCHANGED file
              ELSE IF scene.objects[line.file].opens /\ ~fails
                THEN Opened(out, b.base, line.file)
                ELSE /\ ReturnUnopened(SafeAppendString(Str(line.file), out, scene.out_size),
                                       b.base)
                     /\ UNCHANGED file
           /\ trouble' = (trouble \/ b.failed \/ fails)
  BY <1>2, <1>3 DEF ExamineLine
<1>5. pc' \in {"readline", "done", "elftype"}
  BY <1>4 DEF ReturnUnopened, Return, Opened
<1>6. SUFFICES ASSUME Clean' PROVE SearchInv' /\ FoundInv' /\ (pc' = "done" => Outcome')
  BY <1>5 DEF SymInv
<1>7. ~trouble /\ ~b.failed /\ ~fails
  <2>1. ~trouble'
    BY <1>6 DEF Clean
  <2> QED
    BY <1>4, <2>1, Zenon
<1>8. Clean /\ SearchInv
  BY <1>1, <1>6, <1>7 DEF Clean, SymInv
<1>9. /\ table = "symtab" /\ i = 0 /\ out = Paren
      /\ \A k \in PcLines : k > lines - 1
      /\ \A j \in 1 .. lines - 1 : maps[j].len <= BufLen
      /\ \A h \in 1 .. lines - 1 :
           HasHeader(maps[h]) /\ (\A j \in h + 1 .. lines - 1 : ~HasHeader(maps[j])) =>
             base_address = LoadedAt(maps[h])
  BY <1>1, <1>8 DEF SearchInv, Opening, Examined
<1>10. base_address' = IF HasHeader(line) THEN LoadedAt(line) ELSE base_address
  BY <1>4, <1>7, BaseFound
<1>11. ASSUME NEW h \in 1 .. lines, HasHeader(maps[h]),
              \A j \in h + 1 .. lines : ~HasHeader(maps[j])
       PROVE  base_address' = LoadedAt(maps[h])
  <2>1. CASE h = lines
    BY <1>3, <1>10, <1>11, <2>1
  <2>2. CASE h # lines
    <3>1. h \in 1 .. lines - 1 /\ lines \in h + 1 .. lines
      BY <1>1, <2>2
    <3>2. ~HasHeader(line)
      BY <1>3, <1>11, <3>1
    <3>3. \A j \in h + 1 .. lines - 1 : j \in h + 1 .. lines
      BY <1>1
    <3>4. base_address = LoadedAt(maps[h])
      BY <1>9, <1>11, <3>1, <3>3
    <3> QED
      BY <1>10, <3>2, <3>4
  <2> QED
    BY <2>1, <2>2
<1>12. \A j \in 1 .. lines : maps[j].len <= BufLen
  <2> SUFFICES ASSUME NEW j \in 1 .. lines PROVE maps[j].len <= BufLen
    OBVIOUS
  <2>1. j = lines \/ j \in 1 .. lines - 1
    BY <1>1
  <2> QED
    BY <1>2, <1>9, <2>1
<1>13. PcLines' = PcLines /\ maps' = maps
  BY <1>1 DEF PcLines, maps
<1>14. /\ line.start \in Nat /\ line.end \in Nat /\ line.r \in BOOLEAN /\ line.x \in BOOLEAN
       /\ scene.pc0 \in Nat /\ line.file \in Files \cup {NoFile}
  BY <1>1, SceneFacts DEF Line
<1>15. lines \in PcLines <=> line.start <= scene.pc0 /\ scene.pc0 < line.end /\ line.r /\ line.x
  <2>1. lines \in DOMAIN maps
    BY <1>1, <1>2, LineFacts
  <2>2. lines \in PcLines <=> line.r /\ line.x /\ scene.pc0 \in line.start .. line.end - 1
    BY <1>3, <2>1 DEF PcLines
  <2> QED
    BY <1>14, <2>2
<1>16. CASE lines \notin PcLines
  <2>1. pc' = "readline" /\ UNCHANGED <<output, file>>
    BY <1>4, <1>15, <1>16
  <2>2. FoundInv'
    BY <2>1 DEF FoundInv, Reading
  <2>3. Examined' = lines
    BY <1>1, <2>1 DEF Examined
  <2>4. \A k \in PcLines : k > lines
    <3> SUFFICES ASSUME NEW k \in PcLines PROVE k > lines
      OBVIOUS
    <3>1. k \in Nat /\ k > lines - 1 /\ k # lines
      BY <1>1, <1>9, <1>16, LineFacts DEF PcLines
    <3> QED
      BY <1>1, <3>1
  <2>5. out' = Paren /\ table' = "symtab" /\ i' = 0
    BY <1>1, <1>9, <2>1 DEF output
  <2> QED
    BY <1>11, <1>12, <1>13, <2>1, <2>2, <2>3, <2>4, <2>5 DEF SearchInv
<1>17. CASE lines \in PcLines
  <2>1. \A k \in PcLines : k = lines
    BY <1>1, <1>17, OnePcLine
  <2>2. LinesFit
    <3> SUFFICES ASSUME NEW k \in PcLines, NEW j \in 1 .. k PROVE maps[j].len <= BufLen
      BY DEF LinesFit
    <3>1. k = lines
      BY <2>1
    <3> QED
      BY <1>12, <3>1
  <2>3. line.start <= scene.pc0 /\ scene.pc0 < line.end /\ line.r /\ line.x
    BY <1>15, <1>17
  <2>4. CASE line.file = NoFile
    <3>1. ReturnUnopened(out, b.base)
      BY <1>4, <2>3, <2>4
    <3>2. pc' = "done" /\ ~result'
      BY <1>9, <3>1, NothingReturned
    <3>3. NoAnswer
      BY <1>3, <1>17, <2>4 DEF NoAnswer
    <3>4. SearchInv' /\ FoundInv'
      BY <3>2 DEF SearchInv, FoundInv, Opening, Reading
    <3> QED
      BY <1>1, <3>2, <3>3, <3>4, NoAnswerOutcome
  <2>5. CASE line.file # NoFile
    <3>1. b.base = scene.bias
      <4>1. /\ lines \in DOMAIN scene.maps /\ scene.maps[lines].r /\ scene.maps[lines].x
            /\ scene.maps[lines].file # NoFile
            /\ scene.pc0 \in scene.maps[lines].start .. scene.maps[lines].end - 1
        BY <1>3, <1>17, <2>5 DEF PcLines, maps
      <4>2. PICK h \in 1 .. lines :
              /\ HasHeader(maps[h]) /\ scene.bias = LoadedAt(maps[h])
              /\ \A j \in h + 1 .. lines : ~HasHeader(maps[j])
        BY <1>1, <4>1, LayoutAssumption DEF maps
      <4> QED
        BY <1>4, <1>11, <4>2
    <3>2. CASE scene.objects[line.file].opens
      <4>1. Opened(out, b.base, line.file)
        BY <1>4, <1>7, <2>3, <2>5, <3>2
      <4>2. pc' = "elftype" /\ file' = line.file /\ out' = out
        BY <1>8, <4>1 DEF Opened, Clean
      <4>3. SearchInv'
        BY <1>1, <1>9, <4>2 DEF SearchInv, Opening
      <4>4. LinesFit'
        BY <1>13, <2>2 DEF LinesFit
      <4>5. Len(out') <= 1
        BY <1>9, <4>2 DEF Paren
      <4>6. FileFound'
        BY <1>1, <1>3, <1>4, <1>13, <1>17, <2>5, <3>1, <3>2, <4>2, <4>4, <4>5 DEF FileFound
      <4>7. TableSearched'
        BY <1>1, <1>9, <4>2 DEF TableSearched, Reading
      <4> QED
        BY <4>2, <4>3, <4>6, <4>7 DEF FoundInv
    <3>3. CASE ~scene.objects[line.file].opens
      <4>1. ReturnUnopened(SafeAppendString(Str(line.file), Paren, scene.out_size), scene.bias)
        BY <1>4, <1>9, <2>3, <2>5, <3>1, <3>3
      <4>2. scene.out_size > 1 /\ line.file \in Files
        <5>1. scene.out_size > 0 /\ scene.out_size # 1 /\ scene.out_size \in Nat
          BY <1>1, <1>8, SceneFacts, ScenesAssumption DEF Clean
        <5> QED
          BY <1>14, <2>5, <5>1
      <4>3. /\ pc' = "done"
            /\ result' = (scene.out_size > 2) /\ out' = Unopened(line.file)
        BY <1>1, <4>1, <4>2, UnopenedText
      <4>4. Verdict(line.file)'
        BY <1>1, <3>3, <4>3, Zenon DEF Verdict, Unopened
      <4>5. ~NoAnswer'
        BY <1>3, <1>13, <1>17, <2>1, <2>2, <2>5 DEF NoAnswer, LinesFit
      <4>6. \A k \in PcLines' : maps'[k].file = line.file
        BY <1>3, <1>13, <2>1
      <4>7. Outcome'
        BY <4>4, <4>5, <4>6 DEF Outcome
      <4>8. SearchInv' /\ FoundInv'
        BY <4>3 DEF SearchInv, FoundInv, Opening, Reading
      <4> QED
        BY <4>7, <4>8
    <3> QED
      BY <3>2, <3>3
  <2> QED
    BY <2>4, <2>5
<1> QED
  BY <1>16, <1>17

----------------------------------------------------------------------------
(* The steps of the search in the symbol tables *)

\* A read of the object file that fails or is cut short is no longer clean.
LEMMA CleanRead ==
  ASSUME trouble \in BOOLEAN, truncated \in BOOLEAN, NEW count \in Int, NEW n,
         Reads(n, count), Clean'
  PROVE  Clean /\ n = count
<1>1. /\ trouble' = (trouble \/ n < 0) /\ truncated' = (truncated \/ n \in 0 .. count - 1)
      /\ UNCHANGED scene /\ n \in ReadFromOffset(count)
  BY DEF Reads
<1>2. ~trouble' /\ ~truncated'
  BY DEF Clean
<1>3. ~trouble /\ ~(n < 0)
  BY <1>1, <1>2, Zenon
<1>4. ~truncated /\ n \notin 0 .. count - 1
  BY <1>1, <1>2, Zenon
<1>5. n \in {count} \cup 0 .. count - 1 \cup {-1}
  BY <1>1, <1>4 DEF ReadFromOffset
<1> QED
  BY <1>1, <1>3, <1>4, <1>5 DEF Clean

LEMMA CleanReadExactly ==
  ASSUME trouble \in BOOLEAN, truncated \in BOOLEAN, NEW exact, ReadsExactly(exact, 1), Clean'
  PROVE  Clean /\ exact
<1>1. PICK n : Reads(n, 1) /\ exact = (n = 1)
  BY DEF ReadsExactly
<1>2. Clean /\ n = 1
  <2>1. PICK count \in Int : count = 1
    OBVIOUS
  <2>2. Reads(n, count)
    BY <1>1, <2>1
  <2>3. Clean /\ n = count
    BY <2>2, CleanRead
  <2> QED
    BY <2>1, <2>3
<1> QED
  BY <1>1, <1>2

\* The tables of Tables.
LEMMA TableNames == Range(Tables) = {"symtab", "dynsym"}
BY DEF Range, Tables

LEMMA SearchOver ==
  ASSUME pc' \in Reading \cup {"done", "aborted"}
  PROVE  SearchInv' /\ (pc' \in {"done", "aborted"} => FoundInv')
BY DEF SearchInv, FoundInv, Reading, Opening

LEMMA FileStaysFound ==
  ASSUME FileFound, UNCHANGED <<scene, file, base_address>>, Len(out') <= 1
  PROVE  FileFound'
<1>1. PcLines' = PcLines /\ LinesFit' = LinesFit /\ maps' = maps
  BY DEF PcLines, LinesFit, maps
<1> QED
  BY <1>1 DEF FileFound

LEMMA VerdictOutcome ==
  ASSUME scene \in Scenes, FileFound, UNCHANGED <<scene, file>>, Verdict(file)'
  PROVE  Outcome'
<1>1. PcLines' = PcLines /\ LinesFit' = LinesFit /\ maps' = maps
  BY DEF PcLines, LinesFit, maps
<1>2. \A k \in PcLines : maps[k].file = file
  BY OnePcLine DEF FileFound
<1>3. ~NoAnswer'
  BY <1>1, <1>2 DEF NoAnswer, FileFound
<1> QED
  BY <1>1, <1>2, <1>3 DEF Outcome

\* What the answers depend on.
LEMMA AnswersStay ==
  ASSUME UNCHANGED <<scene, written>>, NEW f
  PROVE  Answers(f)' = Answers(f)
BY DEF Answers, Candidate, HoldsPc

LEMMA NotAnswered ==
  ASSUME NEW f, NEW t \in Range(Tables),
         \/ t \notin Range(scene.objects[f].sections)
         \/ \A n \in Candidate(f, t) : ~(written + Length[n] < scene.out_size)
  PROVE  Answers(f)[t] = {}
BY DEF Answers

LEMMA Answered ==
  ASSUME NEW f, NEW t \in Range(Tables), t \in Range(scene.objects[f].sections),
         NEW n \in Candidate(f, t), written + Length[n] < scene.out_size
  PROVE  n \in Answers(f)[t]
BY DEF Answers

\* The symbol is in neither table.
LEMMA NoSymbolOutcome ==
  ASSUME scene \in Scenes, FileFound, UNCHANGED <<scene, file, written>>, ~result',
         result' \in BOOLEAN,
         Answers(file)["symtab"] = {}, Answers(file)["dynsym"] = {}
  PROVE  Outcome'
<1>1. Answers(file)' = Answers(file)
  BY AnswersStay
<1>2. scene.objects[file].opens
  BY DEF FileFound
<1>3. Verdict(file)'
  BY <1>1, <1>2 DEF Verdict
<1> QED
  BY <1>3, VerdictOutcome

\* The table that is searched has no answer.
LEMMA NotInTableFinds ==
  ASSUME IInv, SymInv, pc \in Reading, UNCHANGED <<scene, file, base_address>>,
         NEW text, NotInTable(text),
         Clean' => Clean /\ Len(text) <= 1 /\ Answers(file)[table] = {}
  PROVE  SymInv'
<1>1. /\ scene \in Scenes /\ table \in {"symtab", "dynsym"}
  BY ReadingFacts, TableNames
<1>2. pc' \in {"sections", "done"}
  BY DEF NotInTable, ReturnMissing, Return
<1>3. SUFFICES ASSUME Clean' PROVE SearchInv' /\ FoundInv' /\ (pc' = "done" => Outcome')
  BY <1>2 DEF SymInv
<1>4. SearchInv' /\ (pc' = "done" => FoundInv')
  BY <1>2, SearchOver DEF Reading
<1>5. FileFound /\ TableSearched /\ Clean /\ Len(text) <= 1 /\ Answers(file)[table] = {}
  BY <1>3 DEF SymInv, FoundInv
<1>6. CASE table = "symtab"
  <2>1. /\ table' = "dynsym" /\ i' = 0 /\ pc' = "sections" /\ out' = text
        /\ UNCHANGED <<written, result>>
    BY <1>6 DEF NotInTable, Tables
  <2>2. FileFound'
    BY <1>5, <2>1, FileStaysFound
  <2>3. Answers(file)' = Answers(file)
    BY <2>1, AnswersStay
  <2>4. Object.is_elf /\ Object' = Object
    BY <1>5 DEF TableSearched, Object
  <2>5. TableSearched'
    BY <1>5, <1>6, <2>1, <2>3, <2>4 DEF TableSearched
  <2> QED
    BY <1>4, <2>1, <2>2, <2>5 DEF FoundInv
<1>7. CASE table = "dynsym"
  <2>1. ReturnMissing(text) /\ UNCHANGED table
    BY <1>7 DEF NotInTable, Tables
  <2>2. Return(FALSE, text)
    <3>1. Len(text) <= 1 => ~(Len(text) > 1)
      <4>1. CASE Len(text) \in Int
        BY <4>1
      <4> QED
        BY <4>1
    <3> QED
      BY <1>5, <2>1, <3>1 DEF ReturnMissing
  <2>3. pc' = "done" /\ result' = FALSE /\ written' = written
    BY <2>2 DEF Return
  <2>4. Answers(file)["symtab"] = {}
    BY <1>5, <1>7 DEF TableSearched
  <2> QED
    BY <1>1, <1>4, <1>5, <1>7, <2>3, <2>4, NoSymbolOutcome
<1> QED
  BY <1>1, <1>6, <1>7

\* The search begins with the regular table, unless this is no ELF file.
LEMMA FileGetElfTypeFinds ==
  ASSUME IInv, SymInv, FileGetElfType
  PROVE  SymInv'
<1>1. /\ pc = "elftype" /\ UNCHANGED search
      /\ scene \in Scenes /\ out \in Seq(Characters) /\ written = 0
      /\ trouble \in BOOLEAN /\ truncated \in BOOLEAN
  BY OpeningFacts DEF FileGetElfType, Opening
<1>2. PICK exact \in BOOLEAN :
        /\ ReadsExactly(exact, 1)
        /\ IF ~exact \/ ~Object.is_elf
             THEN Return(FALSE, out)
             ELSE /\ pc' = "header"
                  /\ written' = IF scene.symbolize_callback THEN Max({scene.callback, 0}) ELSE 0
                  /\ out' = SubSeq(out, written' + 1, Len(out))
                  /\ UNCHANGED result
  BY DEF FileGetElfType
<1>3. UNCHANGED <<scene, base_address, file, table, i>>
  BY <1>1, <1>2, ReadsExactlyFacts DEF search
<1>4. pc' \in {"header", "done"}
  BY <1>2 DEF Return
<1>5. SUFFICES ASSUME Clean' PROVE SearchInv' /\ FoundInv' /\ (pc' = "done" => Outcome')
  BY <1>4 DEF SymInv
<1>6. SearchInv' /\ (pc' = "done" => FoundInv')
  BY <1>4, SearchOver DEF Reading
<1>7. Clean /\ exact
  BY <1>1, <1>2, <1>5, CleanReadExactly
<1>8. FileFound /\ TableSearched
  BY <1>1, <1>7 DEF SymInv, FoundInv
<1>9. CASE ~Object.is_elf
  <2>1. pc' = "done" /\ ~result'
    BY <1>2, <1>9 DEF Return
  <2>2. Verdict(file)'
    BY <1>3, <1>8, <1>9, <2>1 DEF Verdict, Object, FileFound
  <2> QED
    BY <1>1, <1>3, <1>6, <1>8, <2>1, <2>2, VerdictOutcome
<1>10. CASE Object.is_elf
  <2>1. /\ pc' = "header" /\ out' = SubSeq(out, written' + 1, Len(out))
        /\ written' = IF scene.symbolize_callback THEN Max({scene.callback, 0}) ELSE 0
    BY <1>2, <1>7, <1>10
  <2>2. PICK first \in Nat : first = written'
    <3>1. PICK c \in Int, zero \in Int : c = scene.callback /\ zero = 0
      BY <1>1, SceneFacts
    <3>2. Max({c, zero}) \in {c, zero} /\ Max({c, zero}) >= zero
      BY MaxOfTwo
    <3>3. Max({scene.callback, 0}) \in Int /\ Max({scene.callback, 0}) >= 0
      BY <3>1, <3>2
    <3> QED
      BY <2>1, <3>3
  <2>3. Len(out') <= 1
    <3>1. PICK len \in Nat : len = Len(out) /\ len <= 1
      BY <1>1, <1>8 DEF FileFound
    <3>2. out' = SubSeq(out, first + 1, len)
      BY <2>1, <2>2, <3>1
    <3>3. CASE first = 0
      <4>1. out' = out
        BY <1>1, <3>1, <3>2, <3>3
      <4> QED
        BY <3>1, <4>1
    <3>4. CASE first # 0
      <4>1. Len(out') = 0
        BY <1>1, <3>1, <3>2, <3>4
      <4> QED
        BY <4>1
    <3> QED
      BY <3>3, <3>4
  <2>4. FileFound'
    BY <1>3, <1>8, <2>3, FileStaysFound
  <2>5. Object' = Object
    BY <1>3 DEF Object
  <2>6. TableSearched'
    BY <1>1, <1>3, <1>8, <1>10, <2>1, <2>5 DEF TableSearched
  <2> QED
    BY <1>6, <2>1, <2>4, <2>6 DEF FoundInv
<1> QED
  BY <1>9, <1>10

\* A header that is read whole.
LEMMA HeaderFinds ==
  ASSUME IInv, SymInv, pc \in {"header", "strtab"}, NEW next,
         next = IF pc = "header" THEN "sections" ELSE "symbols",
         NEW exact \in BOOLEAN, ReadsExactly(exact, 1), UNCHANGED search,
         IF exact THEN pc' = next /\ UNCHANGED output ELSE ReturnMissing(out)
  PROVE  SymInv'
<1>1. pc \in Reading /\ trouble \in BOOLEAN /\ truncated \in BOOLEAN
  BY ReadingFacts DEF Reading
<1>2. UNCHANGED <<scene, base_address, file, table, i, name>>
  BY <1>1, ReadsExactlyFacts DEF search
<1>3. pc' \in {"sections", "symbols", "done"}
  BY DEF ReturnMissing, Return
<1>4. SUFFICES ASSUME Clean' PROVE SearchInv' /\ FoundInv' /\ pc' # "done"
  BY <1>3 DEF SymInv
<1>5. SearchInv'
  BY <1>3, SearchOver DEF Reading
<1>6. Clean /\ exact
  BY <1>1, <1>4, CleanReadExactly
<1>7. FileFound /\ TableSearched
  BY <1>1, <1>6 DEF SymInv, FoundInv
<1>8. pc' = next /\ UNCHANGED <<out, written>>
  BY <1>6 DEF output
<1>9. FileFound'
  BY <1>2, <1>7, <1>8, FileStaysFound DEF FileFound
<1>10. Object' = Object /\ Answers(file)' = Answers(file)
  BY <1>2, <1>8, AnswersStay DEF Object
<1>11. TableSearched'
  <2>1. CASE pc = "header"
    <3>1. i' = 0 /\ table' = "symtab" /\ Object'.is_elf /\ pc' = "sections"
      BY <1>1, <1>2, <1>7, <1>8, <1>10, <2>1 DEF TableSearched
    <3> QED
      BY <3>1 DEF TableSearched
  <2>2. CASE pc = "strtab"
    <3>1. /\ i' = 0 /\ Object'.is_elf /\ pc' = "symbols" /\ table' \in Range(Object'.sections)
          /\ table' = "dynsym" => Answers(file)'["symtab"] = {}
      BY <1>1, <1>2, <1>7, <1>8, <1>10, <2>2 DEF TableSearched
    <3> QED
      BY <3>1 DEF TableSearched
  <2> QED
    BY <2>1, <2>2
<1> QED
  BY <1>3, <1>5, <1>8, <1>9, <1>11 DEF FoundInv

LEMMA ReadHeadersFind ==
  ASSUME IInv, SymInv, ReadHeader \/ ReadStrtab
  PROVE  SymInv'
<1>1. CASE ReadHeader
  BY <1>1, HeaderFinds DEF ReadHeader
<1>2. CASE ReadStrtab
  BY <1>2, HeaderFinds DEF ReadStrtab
<1> QED
  BY <1>1, <1>2

\* A read of the next entries of a table.
LEMMA EntriesRead ==
  ASSUME IInv, pc \in Reading, NEW size \in Nat \ {0}, NEW entries \in Nat, ~Exhausted(entries),
         NEW count, count = 2 * Chunk(size, entries), NEW n \in ReadFromOffset(count),
         Reads(n, count)
  PROVE  /\ n \in Int
         /\ UNCHANGED <<scene, base_address>>
         /\ n < 0 \/ n % 2 # 0 => trouble' \/ truncated'
         /\ Clean' => /\ Clean /\ n >= 0 /\ n % 2 = 0
                      /\ n \div 2 \in Nat /\ i + n \div 2 <= entries
<1>1. i \in Nat /\ trouble \in BOOLEAN /\ truncated \in BOOLEAN
  BY ReadingFacts
<1>2. PICK chunk \in Nat : chunk = Chunk(size, entries) /\ i + chunk <= entries
  BY <1>1, ChunkFacts
<1>3. PICK c \in Nat : c = count /\ c = 2 * chunk
  BY <1>2
<1>4. Reads(n, c) /\ n \in ReadFromOffset(c)
  BY <1>3
<1>5. n \in -1 .. c /\ UNCHANGED <<scene, base_address>>
  BY <1>1, <1>3, <1>4, ReadsFacts
<1>6. trouble' = (trouble \/ n < 0) /\ truncated' = (truncated \/ n \in 0 .. c - 1)
  BY <1>4 DEF Reads
<1>7. ASSUME n < 0 \/ n % 2 # 0 PROVE n < 0 \/ n \in 0 .. c - 1
  <2>1. CASE n = c
    <3>1. c % 2 = 0
      BY <1>3
    <3> QED
      BY <1>3, <1>7, <2>1, <3>1
  <2>2. CASE n # c
    BY <1>3, <1>5, <2>2
  <2> QED
    BY <2>1, <2>2
<1>8. n < 0 \/ n % 2 # 0 => trouble' \/ truncated'
  BY <1>6, <1>7, Zenon
<1>9. ASSUME Clean' PROVE Clean /\ n = c
  BY <1>1, <1>4, <1>9, CleanRead
<1>10. c >= 0 /\ c % 2 = 0 /\ c \div 2 = chunk
  BY <1>3
<1>11. Clean' => /\ Clean /\ n >= 0 /\ n % 2 = 0
                 /\ n \div 2 \in Nat /\ i + n \div 2 <= entries
  BY <1>2, <1>9, <1>10
<1> QED
  BY <1>5, <1>8, <1>11

\* The search of a table goes on.
LEMMA TableGoesOn ==
  ASSUME FileFound, TableSearched, pc \in Reading,
         UNCHANGED <<scene, base_address, file, table, output>>,
         pc' \in {"sections", "strtab", "symbols", "name"},
         pc' = "sections" => \A k \in 1 .. i' : Object.sections[k] # table,
         pc' # "sections" => table \in Range(Object.sections),
         pc' = "strtab" => i' = 0,
         pc' = "symbols" => \A k \in 1 .. i' : ~HoldsPc(Symbols[k]),
         pc' = "name" => name' \in Candidate(file, table)
  PROVE  FoundInv'
<1>1. UNCHANGED <<out, written>>
  BY DEF output
<1>2. FileFound'
  BY <1>1, FileStaysFound DEF FileFound
<1>3. /\ Object' = Object /\ Symbols' = Symbols /\ Answers(file)' = Answers(file)
      /\ Candidate(file, table)' = Candidate(file, table)
      /\ \A k : HoldsPc(Symbols[k])' <=> HoldsPc(Symbols[k])
  BY <1>1, AnswersStay DEF Object, Symbols, Candidate, HoldsPc
<1>4. Object.is_elf /\ (table = "dynsym" => Answers(file)["symtab"] = {})
  BY DEF TableSearched
<1>5. TableSearched'
  BY <1>3, <1>4 DEF TableSearched
<1> QED
  BY <1>2, <1>5 DEF FoundInv

\* No section header is skipped.
LEMMA GetSectionHeaderByTypeFinds ==
  ASSUME IInv, SymInv, GetSectionHeaderByType
  PROVE  SymInv'
<1> DEFINE sections == Object.sections
           entries == Len(sections)
           count == 2 * Chunk(SectionChunk, entries)
<1>1. pc = "sections" /\ pc \in Reading /\ UNCHANGED <<file, name>>
  BY DEF GetSectionHeaderByType, Reading
<1>2. /\ entries \in Nat /\ i \in Nat /\ table \in Range(Tables)
      /\ DOMAIN sections = 1 .. entries
  BY <1>1, ReadingFacts DEF ObjectFile
<1>3. SectionChunk \in Nat \ {0}
  BY SymbolizeAssumption
<1>4. Clean => /\ FileFound /\ TableSearched /\ Len(out) <= 1
               /\ \A k \in 1 .. i : sections[k] # table
  BY <1>1 DEF SymInv, FoundInv, TableSearched, FileFound
<1> HIDE DEF entries
<1>5. CASE Exhausted(entries)
  <2>1. NotInTable(out) /\ UNCHANGED <<scene, reader, base_address, ghosts>>
    BY <1>5 DEF GetSectionHeaderByType, entries
  <2>2. Clean' => Clean
    BY <2>1 DEF ghosts, Clean
  <2>3. ASSUME Clean PROVE Answers(file)[table] = {}
    <3>1. \A k \in 1 .. entries : sections[k] # table
      BY <1>2, <1>4, <1>5, <2>3 DEF Exhausted
    <3>2. table \notin Range(sections)
      BY <1>2, <3>1 DEF Range
    <3> QED
      BY <1>2, <3>2, NotAnswered DEF Object
  <2> QED
    BY <1>1, <1>4, <2>1, <2>2, <2>3, NotInTableFinds
<1>6. CASE ~Exhausted(entries)
  <2>1. PICK n \in ReadFromOffset(count) :
          /\ Reads(n, count)
          /\ IF n < 0 THEN NotInTable(out)
             ELSE IF n % 2 # 0 THEN AssertFail /\ UNCHANGED <<table, i>>
             ELSE IF \E k \in i + 1 .. i + n \div 2 : sections[k] = table
               THEN pc' = "strtab" /\ i' = 0 /\ UNCHANGED <<output, table>>
               ELSE i' = i + n \div 2 /\ UNCHANGED <<pc, output, table>>
    BY <1>6 DEF GetSectionHeaderByType, entries
  <2>2. /\ n \in Int /\ UNCHANGED <<scene, base_address>>
        /\ n < 0 \/ n % 2 # 0 => trouble' \/ truncated'
        /\ Clean' => /\ Clean /\ n >= 0 /\ n % 2 = 0
                     /\ n \div 2 \in Nat /\ i + n \div 2 <= entries
    BY <1>1, <1>2, <1>3, <1>6, <2>1, EntriesRead
  <2> HIDE DEF count
  <2>3. CASE n < 0
    <3>1. NotInTable(out) /\ ~Clean'
      BY <2>1, <2>2, <2>3
    <3> QED
      BY <1>1, <2>2, <3>1, NotInTableFinds
  <2>4. CASE ~(n < 0) /\ n % 2 # 0
    <3>1. pc' = "aborted" /\ (trouble' \/ truncated')
      BY <2>1, <2>2, <2>4 DEF AssertFail
    <3> QED
      BY <3>1 DEF SymInv, Clean
  <2>5. CASE ~(n < 0) /\ n % 2 = 0
    <3>1. IF \E k \in i + 1 .. i + n \div 2 : sections[k] = table
            THEN pc' = "strtab" /\ i' = 0 /\ UNCHANGED <<output, table>>
            ELSE i' = i + n \div 2 /\ UNCHANGED <<pc, output, table>>
      BY <2>1, <2>5
    <3>2. pc' \in {"strtab", "sections"} /\ UNCHANGED <<output, table>>
      BY <1>1, <3>1
    <3>3. SUFFICES ASSUME Clean' PROVE FoundInv'
      BY <3>2, SearchOver DEF SymInv, Reading
    <3>4. PICK half \in Nat : half = n \div 2 /\ i + half <= entries
      BY <2>2, <3>3
    <3>5. FileFound /\ TableSearched /\ \A k \in 1 .. i : sections[k] # table
      BY <1>4, <2>2, <3>3
    <3>6. CASE \E k \in i + 1 .. i + half : sections[k] = table
      <4>1. table \in Range(sections)
        <5>1. PICK k \in i + 1 .. i + half : sections[k] = table
          BY <3>6
        <5>2. k \in 1 .. entries
          BY <1>2, <3>4
        <5> QED
          BY <1>2, <5>1, <5>2 DEF Range
      <4>2. pc' = "strtab" /\ i' = 0
        BY <3>1, <3>4, <3>6
      <4> QED
        BY <1>1, <2>2, <3>2, <3>5, <4>1, <4>2, TableGoesOn
    <3>7. CASE ~\E k \in i + 1 .. i + half : sections[k] = table
      <4>1. pc' = "sections" /\ i' = i + half
        BY <1>1, <3>1, <3>4, <3>7
      <4>2. \A k \in 1 .. i + half : k \in 1 .. i \/ k \in i + 1 .. i + half
        BY <1>2, <3>4
      <4>3. \A k \in 1 .. i' : sections[k] # table
        BY <3>5, <3>7, <4>1, <4>2
      <4> QED
        BY <1>1, <2>2, <3>2, <3>5, <4>1, <4>3, TableGoesOn
    <3> QED
      BY <3>6, <3>7
  <2> QED
    BY <2>2, <2>3, <2>4, <2>5
<1> QED
  BY <1>5, <1>6

\* Addresses in the object file and in the process.
LEMMA CoversPc ==
  ASSUME scene \in Scenes, base_address = scene.bias, NEW symbol \in Symbol
  PROVE  Covers(symbol, base_address) <=> HoldsPc(symbol)
<1>1. PICK pc0 \in Int, bias \in Int, value \in Nat, size \in Nat :
        pc0 = scene.pc0 /\ bias = scene.bias /\ value = symbol.value /\ size = symbol.size
  BY SceneFacts DEF Symbol
<1>2. value + bias <= pc0 /\ pc0 < value + bias + size <=>
        pc0 - bias \in value .. value + size - 1
  OBVIOUS
<1> QED
  BY <1>1, <1>2 DEF Covers, HoldsPc

\* No symbol is skipped, and the first one that contains pc0 is taken.
LEMMA FindSymbolFinds ==
  ASSUME IInv, SymInv, FindSymbol
  PROVE  SymInv'
<1> DEFINE entries == Len(Symbols)
           count == 2 * Chunk(NUM_SYMBOLS, entries)
           Hits(n) == {k \in i + 1 .. i + n \div 2 : Covers(Symbols[k], base_address)}
<1>1. pc = "symbols" /\ pc \in Reading /\ UNCHANGED file
  BY DEF FindSymbol, Reading
<1>2. /\ Symbols \in Seq(Symbol) /\ entries \in Nat /\ i \in Nat /\ table \in Range(Tables)
      /\ DOMAIN Symbols = 1 .. entries /\ scene \in Scenes
  BY <1>1, ReadingFacts
<1>3. NUM_SYMBOLS \in Nat \ {0}
  BY SymbolizeAssumption
<1>4. Clean => /\ FileFound /\ TableSearched /\ Len(out) <= 1
               /\ \A k \in 1 .. i : ~HoldsPc(Symbols[k])
               /\ table \in Range(Object.sections)
               /\ base_address = scene.bias
  BY <1>1 DEF SymInv, FoundInv, TableSearched, FileFound
<1> HIDE DEF entries
<1>5. CASE Exhausted(entries)
  <2>1. NotInTable(out) /\ UNCHANGED <<scene, reader, base_address, ghosts>>
    BY <1>5 DEF FindSymbol, entries
  <2>2. Clean' => Clean
    BY <2>1 DEF ghosts, Clean
  <2>3. ASSUME Clean PROVE Answers(file)[table] = {}
    <3>1. \A k \in 1 .. entries : ~HoldsPc(Symbols[k])
      BY <1>2, <1>4, <1>5, <2>3 DEF Exhausted
    <3>2. Candidate(file, table) = {}
      BY <1>2, <3>1 DEF Candidate, Symbols, Object
    <3> QED
      BY <1>2, <3>2, NotAnswered
  <2> QED
    BY <1>1, <1>4, <2>1, <2>2, <2>3, NotInTableFinds
<1>6. CASE ~Exhausted(entries)
  <2>1. PICK n \in ReadFromOffset(count) :
          /\ Reads(n, count)
          /\ IF n < 0 \/ n % 2 # 0 THEN AssertFail /\ UNCHANGED <<table, i, name>>
             ELSE IF Hits(n) # {}
               THEN /\ name' = Symbols[Min(Hits(n))].name
                    /\ pc' = "name"
                    /\ UNCHANGED <<output, table, i>>
               ELSE i' = i + n \div 2 /\ UNCHANGED <<pc, output, table, name>>
    BY <1>6 DEF FindSymbol, entries
  <2>2. /\ n \in Int /\ UNCHANGED <<scene, base_address>>
        /\ n < 0 \/ n % 2 # 0 => trouble' \/ truncated'
        /\ Clean' => /\ Clean /\ n >= 0 /\ n % 2 = 0
                     /\ n \div 2 \in Nat /\ i + n \div 2 <= entries
    BY <1>1, <1>2, <1>3, <1>6, <2>1, EntriesRead
  <2> HIDE DEF count
  <2>3. CASE n < 0 \/ n % 2 # 0
    <3>1. pc' = "aborted" /\ (trouble' \/ truncated')
      BY <2>1, <2>2, <2>3 DEF AssertFail
    <3> QED
      BY <3>1 DEF SymInv, Clean
  <2>4. CASE ~(n < 0 \/ n % 2 # 0)
    <3> DEFINE hits == Hits(n)
    <3>1. IF hits # {}
            THEN name' = Symbols[Min(hits)].name /\ pc' = "name" /\ UNCHANGED <<output, table, i>>
            ELSE i' = i + n \div 2 /\ UNCHANGED <<pc, output, table, name>>
      BY <2>1, <2>4
    <3>2. \A k : k \in hits <=> k \in i + 1 .. i + n \div 2 /\ Covers(Symbols[k], base_address)
      OBVIOUS
    <3> HIDE DEF hits, Hits
    <3>3. pc' \in {"name", "symbols"} /\ UNCHANGED <<output, table>>
      BY <1>1, <3>1
    <3>4. SUFFICES ASSUME Clean' PROVE FoundInv'
      BY <3>3, SearchOver DEF SymInv, Reading
    <3>5. PICK half \in Nat : half = n \div 2 /\ i + half <= entries
      BY <2>2, <3>4
    <3>6. /\ FileFound /\ TableSearched /\ table \in Range(Object.sections)
          /\ \A k \in 1 .. i : ~HoldsPc(Symbols[k])
          /\ base_address = scene.bias
      BY <1>4, <2>2, <3>4
    <3>7. \A k \in 1 .. entries : Covers(Symbols[k], base_address) <=> HoldsPc(Symbols[k])
      <4> SUFFICES ASSUME NEW k \in 1 .. entries
                   PROVE  Covers(Symbols[k], base_address) <=> HoldsPc(Symbols[k])
        OBVIOUS
      <4>1. Symbols[k] \in Symbol
        BY <1>2, ElementOfSeq DEF entries
      <4> QED
        BY <1>2, <3>6, <4>1, CoversPc
    <3>8. \A k : k \in hits <=> k \in i + 1 .. i + half /\ HoldsPc(Symbols[k])
      <4>1. \A k \in i + 1 .. i + half : k \in 1 .. entries
        BY <1>2, <3>5
      <4>2. \A k : k \in hits <=> k \in i + 1 .. i + half /\ Covers(Symbols[k], base_address)
        BY <3>2, <3>5
      <4> QED
        BY <3>7, <4>1, <4>2
    <3>9. \A k \in 1 .. i + half : k \in 1 .. i \/ k \in i + 1 .. i + half
      BY <1>2, <3>5
    <3>10. CASE hits # {}
      <4>1. hits \in SUBSET Nat
        <5>1. \A k \in i + 1 .. i + half : k \in Nat
          BY <1>2, <3>5
        <5> QED
          BY <3>8, <5>1
      <4>2. PICK first \in hits : first = Min(hits) /\ \A k \in hits : first <= k
        BY <3>10, <4>1, MinOfNaturals
      <4>3. first \in 1 .. entries /\ HoldsPc(Symbols[first]) /\ first \in i + 1 .. i + half
        <5>1. first \in i + 1 .. i + half /\ HoldsPc(Symbols[first])
          BY <3>8
        <5> QED
          BY <1>2, <3>5, <5>1
      <4>4. \A j \in 1 .. entries : HoldsPc(Symbols[j]) => first <= j
        <5> SUFFICES ASSUME NEW j \in 1 .. entries, HoldsPc(Symbols[j]), ~(first <= j)
                     PROVE  FALSE
          OBVIOUS
        <5>1. j \in 1 .. i + half
          BY <1>2, <3>5, <4>3
        <5>2. j \in i + 1 .. i + half
          BY <3>6, <3>9, <5>1
        <5>3. j \in hits
          BY <3>8, <5>2
        <5> QED
          BY <4>2, <5>3
      <4>5. Symbols[first].name \in Candidate(file, table)
        BY <1>2, <4>3, <4>4 DEF Candidate, Symbols, Object
      <4>6. pc' = "name" /\ name' \in Candidate(file, table)
        BY <3>1, <3>10, <4>2, <4>5
      <4> QED
        BY <1>1, <2>2, <3>3, <3>6, <4>6, TableGoesOn
    <3>11. CASE hits = {}
      <4>1. pc' = "symbols" /\ i' = i + half
        BY <1>1, <3>1, <3>5, <3>11
      <4>2. \A k \in 1 .. i' : ~HoldsPc(Symbols[k])
        BY <3>6, <3>8, <3>9, <3>11, <4>1
      <4> QED
        BY <1>1, <2>2, <3>3, <3>6, <4>1, <4>2, TableGoesOn
    <3> QED
      BY <3>10, <3>11
  <2> QED
    BY <2>3, <2>4
<1> QED
  BY <1>5, <1>6

\* There is at most one first symbol.
LEMMA OneCandidate ==
  ASSUME NEW f, NEW t, scene.objects[f].symbols[t] \in Seq(Symbol),
         NEW m \in Candidate(f, t), NEW n \in Candidate(f, t)
  PROVE  m = n
<1> DEFINE symbols == scene.objects[f].symbols[t]
           hits == {k \in DOMAIN symbols : HoldsPc(symbols[k])}
<1>1. PICK j \in hits : m = symbols[j].name /\ \A k \in hits : j <= k
  BY DEF Candidate
<1>2. PICK k \in hits : n = symbols[k].name /\ \A h \in hits : k <= h
  BY DEF Candidate
<1>3. j \in Nat /\ k \in Nat
  OBVIOUS
<1>4. j <= k /\ k <= j
  BY <1>1, <1>2
<1> QED
  BY <1>1, <1>2, <1>3, <1>4

\* The name fits and is the answer, or the table has none.
LEMMA ReadNameFinds ==
  ASSUME IInv, SymInv, ReadName
  PROVE  SymInv'
<1> DEFINE size == scene.out_size - written
           Text(n) == IF n > Length[name] THEN Str(name)
                      ELSE Prefix(Str(name), n) \o SubSeq(out, n + 1, Len(out))
<1>1. pc = "name" /\ pc \in Reading /\ UNCHANGED <<file, name>>
  BY DEF ReadName, Reading
<1>2. PICK n \in ReadFromOffset(size) :
        /\ Reads(n, size)
        /\ IF n <= 0 \/ Len(Text(n)) >= size
             THEN NotInTable(<<>>)
             ELSE Return(TRUE, DemangleInplace(Text(n), size)) /\ UNCHANGED <<table, i>>
  BY DEF ReadName
<1>3. /\ scene \in Scenes /\ scene.out_size \in Nat /\ written \in Nat
      /\ trouble \in BOOLEAN /\ truncated \in BOOLEAN /\ table \in Range(Tables)
      /\ scene.out_size > 0 => written + Len(out) < scene.out_size
      /\ out \in Seq(Characters)
      /\ scene.objects[file].symbols[table] \in Seq(Symbol)
  BY <1>1, ReadingFacts DEF Symbols, Object
<1>4. name \in Names
  BY <1>1 DEF IInv, CallOK, FileInv
<1>5. PICK length \in Nat : length = Length[name] /\ Len(Str(name)) = length
      /\ Str(name) \in Seq(Characters)
  BY <1>4, StrFacts
<1>6. PICK s \in Int : s = size
  BY <1>3
<1>7. UNCHANGED <<scene, base_address>>
  BY <1>2 DEF Reads
<1>8. ASSUME Clean'
      PROVE  /\ Clean /\ n = s /\ s > 0 /\ SubSeq(out, n + 1, Len(out)) = <<>>
             /\ FileFound /\ TableSearched /\ name \in Candidate(file, table)
             /\ table \in Range(scene.objects[file].sections)
  <2>1. Reads(n, s)
    BY <1>2, <1>6
  <2>2. Clean /\ n = s
    BY <1>3, <1>8, <2>1, CleanRead
  <2>3. scene.out_size > 0
    BY <2>2 DEF Clean
  <2>4. PICK len \in Nat : len = Len(out) /\ len < s
    <3>1. PICK len \in Nat : len = Len(out)
      BY <1>3
    <3> QED
      BY <1>3, <1>6, <2>3, <3>1
  <2>5. SubSeq(out, n + 1, Len(out)) = <<>>
    BY <1>3, <2>2, <2>4
  <2> QED
    BY <1>1, <2>2, <2>4, <2>5 DEF SymInv, FoundInv, TableSearched, Object
<1> DEFINE text == Text(n)
<1>9. CASE n <= 0 \/ Len(text) >= size
  <2>1. NotInTable(<<>>)
    BY <1>2, <1>9
  <2> DEFINE none == <<>>
  <2>2. NotInTable(none) /\ Len(none) <= 1
    BY <2>1
  <2> HIDE DEF none
  <2>3. ASSUME Clean' PROVE Answers(file)[table] = {}
    <3>1. Clean /\ n = s /\ s > 0 /\ name \in Candidate(file, table)
      BY <1>8, <2>3
    <3>2. Len(text) >= s
      BY <1>6, <1>9, <3>1
    <3>3. length >= s
      <4> SUFFICES ASSUME length < s PROVE FALSE
        BY <1>5
      <4>1. n > Length[name]
        BY <1>5, <3>1
      <4>2. text = Str(name)
        BY <4>1
      <4> HIDE DEF text
      <4> QED
        BY <1>5, <3>2, <4>2
    <3>4. ~(written + Length[name] < scene.out_size)
      BY <1>3, <1>5, <1>6, <3>3
    <3>5. \A m \in Candidate(file, table) : ~(written + Length[m] < scene.out_size)
      BY <1>3, <3>1, <3>4, OneCandidate
    <3> QED
      BY <1>3, <3>5, NotAnswered
  <2> HIDE DEF size, Text, text
  <2>4. Clean' => Clean /\ Len(none) <= 1 /\ Answers(file)[table] = {}
    BY <1>8, <2>2, <2>3
  <2> QED
    BY <1>1, <1>7, <2>2, <2>4, NotInTableFinds
<1>10. CASE ~(n <= 0 \/ Len(text) >= size)
  <2>1. Return(TRUE, DemangleInplace(text, size)) /\ UNCHANGED table
    BY <1>2, <1>10
  <2>2. pc' = "done" /\ result' = TRUE /\ out' = DemangleInplace(text, size) /\ written' = written
    BY <2>1 DEF Return
  <2>3. SUFFICES ASSUME Clean' PROVE Verdict(file)'
    <3>1. SearchInv' /\ FoundInv'
      BY <2>2, SearchOver
    <3>2. ASSUME Clean' PROVE FileFound
      BY <1>8, <3>2
    <3> QED
      BY <1>1, <1>3, <1>7, <2>2, <3>1, <3>2, VerdictOutcome DEF SymInv
  <2>4. /\ n = s /\ s > 0 /\ SubSeq(out, n + 1, Len(out)) = <<>>
        /\ FileFound /\ TableSearched /\ name \in Candidate(file, table)
        /\ table \in Range(scene.objects[file].sections)
    BY <1>8, <2>3
  <2>5. text = Str(name) /\ length < s
    <3>1. CASE n > Length[name]
      <4>1. text = Str(name)
        BY <3>1
      <4> QED
        BY <1>5, <2>4, <3>1, <4>1
    <3>2. CASE ~(n > Length[name])
      <4>1. PICK k \in Nat : k = n
        BY <2>4
      <4>2. Prefix(Str(name), k) \in Seq(Characters) /\ Len(Prefix(Str(name), k)) = k
        <5>1. /\ Prefix(Str(name), k) \in Seq(Characters)
              /\ Len(Prefix(Str(name), k)) = IF k < Len(Str(name)) THEN k ELSE Len(Str(name))
          BY <1>5, PrefixIs
        <5> QED
          BY <1>5, <3>2, <4>1, <5>1
      <4>3. text = Prefix(Str(name), k) \o <<>>
        BY <2>4, <3>2, <4>1
      <4> HIDE DEF text
      <4>4. Prefix(Str(name), k) \o <<>> = Prefix(Str(name), k)
        BY <4>2, ConcatEmptySeq
      <4>5. Len(text) >= s
        BY <2>4, <4>1, <4>2, <4>3, <4>4
      <4> QED
        BY <1>6, <1>10, <4>5
    <3> QED
      BY <3>1, <3>2
  <2> HIDE DEF text, Text
  <2>6. out' \in {Str(d) : d \in {name, Demangled[name]} \ {NoName}}
    <3>1. name # NoName
      BY <1>4, SymbolizeAssumption
    <3>2. out' = Str(name) \/ (Demangled[name] # NoName /\ out' = Str(Demangled[name]))
      BY <2>2, <2>5, Zenon DEF DemangleInplace
    <3> QED
      BY <3>1, <3>2
  <2>7. written + Length[name] < scene.out_size
    BY <1>3, <1>5, <1>6, <2>5
  <2>8. name \in Answers(file)[table]
    BY <1>3, <2>4, <2>7, Answered
  <2>9. Answers(file)' = Answers(file)
    BY <1>1, <1>7, <2>2, AnswersStay
  <2>10. scene.objects[file].opens /\ scene.objects[file].is_elf
    BY <1>1, <2>4 DEF FileFound, TableSearched, Object
  <2> DEFINE regular == Answers(file)["symtab"]
             names == IF regular # {} THEN regular ELSE Answers(file)["dynsym"]
  <2>11. name \in names
    <3>1. table = "symtab" \/ (table = "dynsym" /\ regular = {})
      BY <1>3, <2>4, TableNames DEF TableSearched
    <3> QED
      BY <2>8, <3>1
  <2>12. result' = (names # {})
    BY <2>2, <2>11
  <2>13. \E m \in names : out' \in {Str(d) : d \in {m, Demangled[m]} \ {NoName}}
    BY <2>6, <2>11
  <2> QED
    BY <1>1, <1>7, <2>9, <2>10, <2>12, <2>13 DEF Verdict, Str
<1> QED
  BY <1>9, <1>10

LEMMA InitSymInv == Init => SymInv
BY DEF Init, SymInv, SearchInv, FoundInv, Opening, Reading, Tables, Clean

LEMMA VerdictStays ==
  ASSUME UNCHANGED <<scene, written, out, result>>, NEW f, Verdict(f)
  PROVE  Verdict(f)'
<1>1. Answers(f)' = Answers(f)
  BY AnswersStay
<1>2. Unopened(f)' = Unopened(f)
  BY DEF Unopened, Hex, Prefix, Str
<1> QED
  BY <1>1, <1>2 DEF Verdict, Str

LEMMA NextKeepsSymInv ==
  ASSUME IInv, SymInv, [Next]_vars
  PROVE  SymInv'
<1>1. CASE Start \/ OpenCallback \/ OpenMaps \/ ReadLine
  BY <1>1, StartFinds, OpenCallbackFinds, OpenMapsFinds, ReadLineFinds DEF IInv
<1>2. CASE Pread \/ PreadFails \/ Refill
  BY <1>2, PreadFinds, PreadFailsFinds, RefillFinds DEF IInv
<1>3. CASE ExamineLine \/ FileGetElfType \/ ReadHeader \/ ReadStrtab
  BY <1>3, ExamineLineFinds, FileGetElfTypeFinds, ReadHeadersFind
<1>4. CASE GetSectionHeaderByType \/ FindSymbol \/ ReadName
  BY <1>4, GetSectionHeaderByTypeFinds, FindSymbolFinds, ReadNameFinds
<1>5. CASE UNCHANGED vars
  <2>1. UNCHANGED <<scene, pc, reader, base_address, file, table, i, name, out, written, result,
                    lines, trouble, truncated>>
    BY <1>5 DEF vars, search, output, ghosts
  <2>2. maps' = maps /\ PcLines' = PcLines /\ LinesFit' = LinesFit /\ NoAnswer' = NoAnswer
    BY <2>1 DEF maps, PcLines, LinesFit, NoAnswer
  <2>3. Clean' = Clean /\ Examined' = Examined /\ SearchInv' = SearchInv
    BY <2>1, <2>2 DEF Clean, Examined, SearchInv
  <2>4. /\ FileFound' = FileFound /\ Object' = Object /\ Symbols' = Symbols
        /\ Answers(file)' = Answers(file) /\ Candidate(file, table)' = Candidate(file, table)
    BY <2>1, <2>2, AnswersStay DEF FileFound, Object, Symbols, Candidate, HoldsPc
  <2>5. TableSearched' = TableSearched
    BY <2>1, <2>4 DEF TableSearched, HoldsPc
  <2>6. FoundInv' = FoundInv
    BY <2>1, <2>4, <2>5 DEF FoundInv
  <2>7. Outcome => Outcome'
    <3>1. CASE NoAnswer
      BY <2>1, <2>2, <3>1 DEF Outcome
    <3>2. CASE ~NoAnswer
      <4> SUFFICES ASSUME \A k \in PcLines : Verdict(maps[k].file), NEW k \in PcLines
                   PROVE  Verdict(maps[k].file)'
        BY <2>2, <3>2 DEF Outcome
      <4>1. PICK f : f = maps[k].file
        OBVIOUS
      <4>2. Verdict(f)'
        BY <2>1, <4>1, VerdictStays
      <4> QED
        BY <2>2, <4>1, <4>2
    <3> QED
      BY <3>1, <3>2
  <2> QED
    BY <2>1, <2>3, <2>6, <2>7 DEF SymInv
<1> QED
  BY <1>1, <1>2, <1>3, <1>4, <1>5 DEF Next, Step, Terminated

\* Unless something fails, Symbolize finds the name of the first symbol that contains
\* pc0, in the regular table or else in the dynamic one, or the object file and the
\* offset; it fails only where there is neither, and never aborts.
THEOREM FindsTheSymbol == Spec => []Symbolized
<1>1. Init => SymInv
  BY InitSymInv
<1>2. IInv /\ SymInv /\ [Next]_vars => SymInv'
  BY NextKeepsSymInv
<1>3. SymInv => Symbolized
  BY SymbolizedHolds
<1> QED
  BY Invariance, <1>1, <1>2, <1>3, PTL DEF Spec

=============================================================================
