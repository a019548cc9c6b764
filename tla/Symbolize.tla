----------------------------- MODULE Symbolize -----------------------------
(***************************************************************************)
(* src/symbolize.cc: one call Symbolize(pc, out, out_size), from the       *)
(* search of /proc/self/maps for the object file that contains pc to the   *)
(* symbol table of this file.  The system calls of the files it reads may  *)
(* return less than asked for, and fail.                                   *)
(***************************************************************************)
EXTENDS Integers, Sequences, SequencesExt, FiniteSets, FiniteSetsExt

CONSTANTS
  Files,         \* names of object files
  Names,         \* names of symbols, mangled and demangled
  NoFile,        \* a mapping without file name
  NoName,        \* Demangle fails
  Length,        \* the length of each name
  Demangled,     \* what Demangle returns for a name
  BufLen,        \* 1024, the buffer of the LineReader
  SectionChunk,  \* 16, the section headers read at a time
  NUM_SYMBOLS,   \* 32, the symbols read at a time
  HexDigits,     \* 16, the digits of the largest address
  Scenes         \* what the call may find, see Scene

Tables == <<"symtab", "dynsym">>

\* A line of /proc/self/maps: its position, its length with the '\n', what it
\* says, and the ELF header and program headers that are mapped at its start
\* address, if any.  loads_header: the segment is PT_LOAD and has file offset 0.
Line == [pos : Nat, len : Nat \ {0, 1}, start : Nat, end : Nat, r : BOOLEAN, x : BOOLEAN,
         file : Files \cup {NoFile}, elf : {"none", "exec", "dyn", "other"},
         phdrs : Seq([loads_header : BOOLEAN, vaddr : Nat])]

Symbol == [value : Nat, size : Nat, defined : BOOLEAN, name : Names]

ObjectFile == [opens : BOOLEAN, is_elf : BOOLEAN,
               sections : Seq({"other"} \cup Range(Tables)),
               symbols : [Range(Tables) -> Seq(Symbol)]]

\* bias is where the object that contains pc0 is loaded, minus where it was
\* linked to.  callback is what g_symbolize_callback returns, if it is set.
Scene == [pc0 : Nat, out_size : Nat, maps : Seq(Line), bias : Int,
          objects : [Files -> ObjectFile],
          open_callback : BOOLEAN, symbolize_callback : BOOLEAN, callback : Int,
          PRINT_UNSYMBOLIZED_STACK_TRACES : BOOLEAN,
          IoErrors : BOOLEAN,    \* may system calls fail?
          Truncates : BOOLEAN]   \* may the object file be truncated?

\* Lines follow each other.
Contiguous(m) ==
  /\ m # <<>> /\ m[1].pos = 0
  /\ \A k \in 2 .. Len(m) : m[k].pos = m[k - 1].pos + m[k - 1].len
  /\ \A j, k \in DOMAIN m : j < k => m[j].pos + m[j].len <= m[k].pos

ASSUME SymbolizeAssumption ==
  /\ Length \in [Names \cup Files -> Nat \ {0}]
  /\ Demangled \in [Names -> Names \cup {NoName}]
  /\ NoFile \notin Files /\ NoName \notin Names
  /\ {BufLen, SectionChunk, NUM_SYMBOLS, HexDigits} \subseteq Nat \ {0}

\* A buffer of one byte has no place for out[1], which the code reads.
ASSUME ScenesAssumption ==
  \A s \in Scenes :
    /\ s \in Scene
    /\ s.out_size # 1
    /\ s.symbolize_callback => s.callback < s.out_size
    /\ Contiguous(s.maps)

VARIABLES
  scene,         \* the element of Scenes that holds, constant
  pc,            \* the next step
  reader,        \* the LineReader
  base_address,
  file,          \* the object file that is open
  table,         \* the symbol table that is searched
  i,             \* the next section header, or symbol
  name,          \* the name of the symbol found
  out,           \* the string in the caller's buffer from the pointer out on
  written,       \* the bytes of the callback, before out
  result,        \* what Symbolize returns
  \* What the properties remember:
  lines,         \* lines ReadLine has returned
  trouble,       \* has a system call failed?
  truncated      \* has the object file been truncated?

search == <<file, table, i, name>>
output == <<out, written, result>>
ghosts == <<lines, trouble, truncated>>

vars == <<scene, pc, reader, base_address, search, output, ghosts>>

maps == scene.maps

\* Bytes of /proc/self/maps are their positions; a NUL is -1.
NUL == -1
End(line) == line.pos + line.len
MapsLength == End(maps[Len(maps)])
IsLineFeed(byte) == \E k \in DOMAIN maps : byte = End(maps[k]) - 1

Reader == [buf : [0 .. BufLen - 1 -> Nat \cup {NUL}], offset : Nat,
           bol : 0 .. BufLen, eol : 0 .. BufLen, eod : 0 .. BufLen,
           append : 0 .. BufLen, num_bytes : 0 .. BufLen]

\* append and num_bytes belong to the call of ReadFromOffset in progress.
NewReader == [buf |-> [p \in 0 .. BufLen - 1 |-> NUL], offset |-> 0,
              bol |-> 0, eol |-> 0, eod |-> 0, append |-> 0, num_bytes |-> 0]

Init ==
  /\ scene \in Scenes
  /\ pc = "start"
  /\ reader = NewReader
  /\ base_address = 0 /\ file = NoFile /\ table = Tables[1] /\ i = 0 /\ name = NoName
  /\ out = <<>> /\ written = 0 /\ result = FALSE
  /\ lines = 0 /\ trouble = FALSE /\ truncated = FALSE

----------------------------------------------------------------------------
(* Strings: a character is the string it comes from and its place in there *)

Characters ==
  ((Names \cup Files \cup {"(", "+", "0", "x", ")"}) \X Nat) \cup ({"hex"} \X Int \X Nat)

Prefix(s, n) == SubSeq(s, 1, Min({n, Len(s)}))

Str(n) == [p \in 1 .. Length[n] |-> <<n, p>>]

\* itoa_r of an unsigned value in base 16; one below zero has wrapped around.
Hex(value) ==
  LET digits == 1 + Cardinality({n \in 1 .. HexDigits - 1 : value < 0 \/ value >= 16 ^ n})
  IN  [p \in 1 .. digits |-> <<"hex", value, p>>]

SafeAppendString(source, dest, dest_size) ==
  dest \o Prefix(source, dest_size - Len(dest) - 1)

\* <out>+0x<offset>)
AppendOffset(text, base, size) ==
  LET plus   == SafeAppendString(<<<<"+", 1>>, <<"0", 1>>, <<"x", 1>>>>, text, size)
      offset == SafeAppendString(Hex(scene.pc0 - base), plus, size)
  IN  SafeAppendString(<<<<")", 1>>>>, offset, size)

----------------------------------------------------------------------------
(* The end of the call *)

Return(value, text) ==
  /\ pc' = "done"
  /\ result' = value
  /\ out' = text
  /\ UNCHANGED written

\* There is no object file to read: its name, if known, is the answer.
ReturnUnopened(text, base) ==
  IF Len(text) > 1
    THEN Return(TRUE, AppendOffset(text, base, scene.out_size))
    ELSE Return(FALSE, text)

\* The symbol was not found in f.
ReturnMissing(text) ==
  IF Len(text) > 1 /\ ~scene.symbolize_callback
    THEN Return(TRUE, AppendOffset(text, base_address, scene.out_size))
    ELSE Return(FALSE, text)

\* SAFE_ASSERT
AssertFail == pc' = "aborted" /\ UNCHANGED output

Opened(text, base, f) ==
  IF scene.PRINT_UNSYMBOLIZED_STACK_TRACES
    THEN ReturnUnopened(text, base) /\ UNCHANGED file
    ELSE pc' = "elftype" /\ file' = f /\ out' = text /\ UNCHANGED <<written, result>>

----------------------------------------------------------------------------
(* LineReader *)

FindLineFeed(r, bol) == {p \in bol .. r.eod - 1 : IsLineFeed(r.buf[p])}

\* The next line is in the buffer; or the line that begins there is too long, or
\* has no end.
TakeLine(r, bol) ==
  LET feeds == FindLineFeed(r, bol)
  IN  IF feeds # {}
        THEN /\ reader' = [r EXCEPT !.bol = bol, !.eol = Min(feeds), !.buf[Min(feeds)] = NUL]
             /\ lines' = lines + 1
             /\ pc' = "parse"
             /\ UNCHANGED output
        ELSE /\ reader' = [r EXCEPT !.bol = bol]
             /\ ReturnUnopened(out, base_address)
             /\ UNCHANGED lines

StartRead(r, append) ==
  /\ reader' = [r EXCEPT !.append = append, !.num_bytes = 0]
  /\ pc' = "pread"
  /\ UNCHANGED <<output, lines>>

\* Mutant: the incomplete line is not moved.
Moved_InPlace(r, bol) == r.buf

\* The trailing incomplete line is moved to the beginning.
Moved(r, bol) ==
  [p \in 0 .. BufLen - 1 |-> IF p < r.eod - bol THEN r.buf[bol + p] ELSE r.buf[p]]

ReadLine ==
  /\ pc = "readline"
  /\ LET bol == reader.eol + 1
     IN  IF reader.eod = 0
           THEN StartRead(reader, 0)
         ELSE IF FindLineFeed(reader, bol) # {}
           THEN TakeLine(reader, bol)
           ELSE StartRead([reader EXCEPT !.buf = Moved(reader, bol), !.bol = bol],
                          reader.eod - bol)
  /\ UNCHANGED <<scene, base_address, search, trouble, truncated>>

\* Mutant: the incomplete line in the buffer is forgotten.
Wanted_WholeBuffer == BufLen - reader.num_bytes

\* The bytes ReadFromOffset still wants, and those that are left in the file.
Wanted == BufLen - reader.append - reader.num_bytes
Left == MapsLength - reader.offset - reader.num_bytes

\* The loop of ReadFromOffset: pread returns as many bytes as it likes.
Pread ==
  /\ pc = "pread"
  /\ \E n \in 1 .. Min({Wanted, Left}) :
       LET at == reader.append + reader.num_bytes
           from == reader.offset + reader.num_bytes
       IN  reader' = [reader EXCEPT !.num_bytes = @ + n,
                        !.buf = [p \in 0 .. BufLen - 1 |->
                                   IF p \in at .. at + n - 1 THEN from + p - at ELSE @[p]]]
  /\ UNCHANGED <<scene, pc, base_address, search, output, ghosts>>

\* An error, other than EINTR.
PreadFails ==
  /\ pc = "pread" /\ Wanted > 0 /\ scene.IoErrors
  /\ trouble' = TRUE
  /\ ReturnUnopened(out, base_address)
  /\ UNCHANGED <<scene, reader, base_address, search, lines, truncated>>

Refilled ==
  [reader EXCEPT !.offset = @ + reader.num_bytes,
                 !.eod = reader.append + reader.num_bytes]

\* ReadFromOffset has returned to ReadLine.
Refill ==
  /\ pc = "pread" /\ (Wanted = 0 \/ Left = 0)
  /\ IF reader.num_bytes = 0
       THEN ReturnUnopened(out, base_address) /\ UNCHANGED <<reader, lines>>
       ELSE TakeLine(Refilled, 0)
  /\ UNCHANGED <<scene, base_address, search, trouble, truncated>>

----------------------------------------------------------------------------
(* The object file that contains pc0 *)

Start ==
  /\ pc = "start"
  /\ IF scene.out_size < 1
       THEN Return(FALSE, out)
       ELSE /\ out' = SafeAppendString(<<<<"(", 1>>>>, out, scene.out_size)
            /\ pc' = IF scene.open_callback THEN "callback" ELSE "open"
            /\ UNCHANGED <<written, result>>
  /\ UNCHANGED <<scene, reader, base_address, search, ghosts>>

\* g_symbolize_open_object_file_callback
OpenCallback ==
  /\ pc = "callback"
  /\ base_address' = scene.bias
  /\ \E f \in Files, known \in BOOLEAN :
       LET text == IF known THEN SafeAppendString(Str(f), out, scene.out_size) ELSE out
       IN  IF scene.objects[f].opens
             THEN Opened(text, scene.bias, f)
             ELSE ReturnUnopened(text, scene.bias) /\ UNCHANGED file
  /\ UNCHANGED <<scene, reader, table, i, name, ghosts>>

OpenMaps ==
  /\ pc = "open"
  /\ \/ pc' = "readline" /\ UNCHANGED <<output, trouble>>
     \/ scene.IoErrors /\ trouble' = TRUE /\ ReturnUnopened(out, base_address)
  /\ UNCHANGED <<scene, reader, base_address, search, lines, truncated>>

\* The line that begins at reader.bol.
CurrentLine ==
  LET byte == reader.buf[reader.bol]
  IN  maps[CHOOSE k \in DOMAIN maps : byte \in maps[k].pos .. End(maps[k]) - 1]

Headers(line) == {k \in DOMAIN line.phdrs : line.phdrs[k].loads_header}

\* Mutant: the virtual address of the segment is not subtracted.
BaseAddresses_NoVaddr(line) ==
  {[base |-> IF line.r /\ line.elf = "exec" THEN 0
             ELSE IF line.r /\ line.elf = "dyn" THEN line.start
             ELSE base_address, failed |-> FALSE]}

\* What base_address may be after the line; a header that cannot be read is as
\* good as none.
BaseAddresses(line) ==
  IF ~line.r \/ line.elf \in {"none", "other"} THEN {[base |-> base_address, failed |-> FALSE]}
  ELSE IF line.elf = "exec" THEN {[base |-> 0, failed |-> FALSE]}
       \cup IF scene.IoErrors THEN {[base |-> base_address, failed |-> TRUE]} ELSE {}
  ELSE {[base |-> IF Headers(line) = {} THEN line.start
                  ELSE line.start - line.phdrs[Min(Headers(line))].vaddr, failed |-> FALSE]}
       \cup IF scene.IoErrors
              THEN {[base |-> b, failed |-> TRUE] :
                      b \in {base_address, line.start}
                            \cup {line.start - line.phdrs[k].vaddr : k \in Headers(line)}}
              ELSE {}

\* The loop body of OpenObjectFileContainingPcAndGetStartAddress after ReadLine.
ExamineLine ==
  /\ pc = "parse"
  /\ LET line == CurrentLine
         known == SafeAppendString(Str(line.file), out, scene.out_size)
     IN  \E b \in BaseAddresses(line), fails \in (IF scene.IoErrors THEN BOOLEAN ELSE {FALSE}) :
           /\ base_address' = b.base
           /\ IF ~(line.start <= scene.pc0 /\ scene.pc0 < line.end /\ line.r /\ line.x)
                THEN pc' = "readline" /\ ~fails /\ UNCHANGED <<output, file>>
              ELSE IF line.file = NoFile
                THEN ReturnUnopened(out, b.base) /\ ~fails /\ UNCHANGED file
              ELSE IF scene.objects[line.file].opens /\ ~fails
                THEN Opened(out, b.base, line.file)
                ELSE ReturnUnopened(known, b.base) /\ UNCHANGED file
           /\ trouble' = (trouble \/ b.failed \/ fails)
  /\ UNCHANGED <<scene, reader, table, i, name, lines, truncated>>

----------------------------------------------------------------------------
(* Its symbol tables *)

\* What ReadFromOffset may return for the object file.
ReadFromOffset(count) ==
  (IF truncated THEN {0} ELSE {count} \cup IF scene.Truncates THEN 0 .. count - 1 ELSE {})
  \cup IF scene.IoErrors THEN {-1} ELSE {}

Reads(n, count) ==
  /\ n \in ReadFromOffset(count)
  /\ trouble' = (trouble \/ n < 0)
  /\ truncated' = (truncated \/ n \in 0 .. count - 1)
  /\ UNCHANGED <<scene, reader, base_address, lines>>

\* ReadFromOffsetExact
ReadsExactly(exact, count) ==
  \E n \in ReadFromOffset(count) : Reads(n, count) /\ exact = (n = count)

Object == scene.objects[file]
Symbols == Object.symbols[table]

\* FileGetElfType, and g_symbolize_callback.
FileGetElfType ==
  /\ pc = "elftype"
  /\ \E exact \in BOOLEAN :
       /\ ReadsExactly(exact, 1)
       /\ IF ~exact \/ ~Object.is_elf
            THEN Return(FALSE, out)
            ELSE /\ pc' = "header"
                 /\ written' = IF scene.symbolize_callback THEN Max({scene.callback, 0}) ELSE 0
                 /\ out' = SubSeq(out, written' + 1, Len(out))
                 /\ UNCHANGED result
  /\ UNCHANGED search

ReadHeader ==
  /\ pc = "header"
  /\ \E exact \in BOOLEAN :
       /\ ReadsExactly(exact, 1)
       /\ IF exact THEN pc' = "sections" /\ UNCHANGED output ELSE ReturnMissing(out)
  /\ UNCHANGED search

\* The table does not exist, or has no symbol for pc0.
NotInTable(text) ==
  IF table = Tables[1]
    THEN /\ table' = Tables[2] /\ i' = 0
         /\ pc' = "sections"
         /\ out' = text
         /\ UNCHANGED <<written, result>>
    ELSE ReturnMissing(text) /\ UNCHANGED <<table, i>>

\* Mutant: the loop goes one entry too far.
Exhausted_OffByOne(entries) == i > entries

\* The end of a loop over entries, and the entries to read at once.
Exhausted(entries) == i >= entries
Chunk(size, entries) == Min({size, entries - i})

\* GetSectionHeaderByType: the next section headers, of two bytes each.
GetSectionHeaderByType ==
  /\ pc = "sections"
  /\ LET sections == Object.sections
         count == 2 * Chunk(SectionChunk, Len(sections))
     IN  IF Exhausted(Len(sections))
           THEN NotInTable(out) /\ UNCHANGED <<scene, reader, base_address, ghosts>>
           ELSE \E n \in ReadFromOffset(count) :
                  /\ Reads(n, count)
                  /\ IF n < 0 THEN NotInTable(out)
                     ELSE IF n % 2 # 0 THEN AssertFail /\ UNCHANGED <<table, i>>
                     ELSE IF \E k \in i + 1 .. i + n \div 2 : sections[k] = table
                       THEN pc' = "strtab" /\ i' = 0 /\ UNCHANGED <<output, table>>
                       ELSE i' = i + n \div 2 /\ UNCHANGED <<pc, output, table>>
  /\ UNCHANGED <<file, name>>

\* The section header of the string table.
ReadStrtab ==
  /\ pc = "strtab"
  /\ \E exact \in BOOLEAN :
       /\ ReadsExactly(exact, 1)
       /\ IF exact THEN pc' = "symbols" /\ UNCHANGED output ELSE ReturnMissing(out)
  /\ UNCHANGED search

Covers(symbol, base) ==
  /\ symbol.value # 0 /\ symbol.defined
  /\ symbol.value + base <= scene.pc0 /\ scene.pc0 < symbol.value + base + symbol.size

\* FindSymbol: the next symbols, of two bytes each.
FindSymbol ==
  /\ pc = "symbols"
  /\ LET count == 2 * Chunk(NUM_SYMBOLS, Len(Symbols))
         Hits(n) == {k \in i + 1 .. i + n \div 2 : Covers(Symbols[k], base_address)}
     IN  IF Exhausted(Len(Symbols))
           THEN NotInTable(out) /\ UNCHANGED <<scene, reader, base_address, ghosts, name>>
           ELSE \E n \in ReadFromOffset(count) :
                  /\ Reads(n, count)
                  /\ IF n < 0 \/ n % 2 # 0 THEN AssertFail /\ UNCHANGED <<table, i, name>>
                     ELSE IF Hits(n) # {}
                       THEN /\ name' = Symbols[Min(Hits(n))].name
                            /\ pc' = "name"
                            /\ UNCHANGED <<output, table, i>>
                       ELSE i' = i + n \div 2 /\ UNCHANGED <<pc, output, table, name>>
  /\ UNCHANGED file

\* DemangleInplace
DemangleInplace(text, size) ==
  IF text = Str(name) /\ Demangled[name] # NoName /\ Length[Demangled[name]] + 1 <= size
    THEN Str(Demangled[name])
    ELSE text

\* FindSymbol reads the name to out, where n bytes replace what was there.
ReadName ==
  /\ pc = "name"
  /\ LET size == scene.out_size - written
         Text(n) == IF n > Length[name] THEN Str(name)
                    ELSE Prefix(Str(name), n) \o SubSeq(out, n + 1, Len(out))
     IN  \E n \in ReadFromOffset(size) :
           /\ Reads(n, size)
           /\ IF n <= 0 \/ Len(Text(n)) >= size
                THEN NotInTable(<<>>)
                ELSE Return(TRUE, DemangleInplace(Text(n), size)) /\ UNCHANGED <<table, i>>
  /\ UNCHANGED <<file, name>>

----------------------------------------------------------------------------

Step ==
  \/ Start \/ OpenCallback \/ OpenMaps \/ ReadLine \/ Pread \/ PreadFails \/ Refill
  \/ ExamineLine \/ FileGetElfType \/ ReadHeader \/ GetSectionHeaderByType \/ ReadStrtab
  \/ FindSymbol \/ ReadName

Ended == pc \in {"done", "aborted"}

Terminated == Ended /\ UNCHANGED vars

Next == Step \/ Terminated

Spec == Init /\ [][Next]_vars

\* The thread that symbolizes is scheduled.
FairSpec == Spec /\ WF_vars(Step)

----------------------------------------------------------------------------
(* Properties *)

\* Type correctness; the indexes of the LineReader stay in its buffer.
TypeOK ==
  /\ scene \in Scene
  /\ pc \in {"start", "callback", "open", "readline", "pread", "parse", "elftype", "header",
             "sections", "strtab", "symbols", "name", "done", "aborted"}
  /\ reader \in Reader
  /\ reader.append + reader.num_bytes <= BufLen
  /\ {i, written, lines} \subseteq Nat
  /\ out \in Seq(Characters)
  /\ base_address \in Int
  /\ file \in Files \cup {NoFile} /\ table \in Range(Tables) /\ name \in Names \cup {NoName}
  /\ {result, trouble, truncated} \subseteq BOOLEAN

\* ReadLine returns the lines of /proc/self/maps one after the other, each as a
\* whole, wherever pread and the end of the buffer cut them.
LinesWhole ==
  pc = "parse" =>
    LET line == maps[lines]
    IN  /\ reader.eol = reader.bol + line.len - 1
        /\ \A p \in reader.bol .. reader.eol - 1 :
             reader.buf[p] = line.pos + p - reader.bol

\* The string and its NUL stay within the caller's buffer.
OutputFits == scene.out_size > 0 => written + Len(out) < scene.out_size

\* Is pc0 in the symbol, where its object is loaded?
HoldsPc(symbol) ==
  /\ symbol.value # 0 /\ symbol.defined
  /\ scene.pc0 - scene.bias \in symbol.value .. symbol.value + symbol.size - 1

\* The executable mapping of pc0.
PcLines == {k \in DOMAIN maps : /\ maps[k].r /\ maps[k].x
                                /\ scene.pc0 \in maps[k].start .. maps[k].end - 1}

\* The lines up to it fit into the buffer.
LinesFit == \A k \in PcLines : \A j \in 1 .. k : maps[j].len <= BufLen

\* The first symbol of table t that contains pc0.
Candidate(f, t) ==
  LET symbols == scene.objects[f].symbols[t]
      hits == {k \in DOMAIN symbols : HoldsPc(symbols[k])}
  IN  {symbols[k].name : k \in {k \in hits : \A j \in hits : k <= j}}

\* The names Symbolize should find in f, by table: those that fit.
Answers(f) ==
  [t \in Range(Tables) |->
    IF t \in Range(scene.objects[f].sections)
      THEN {n \in Candidate(f, t) : written + Length[n] < scene.out_size}
      ELSE {}]

\* A line with the ELF header of an executable or a library, and where that is loaded
\* minus where it was linked to.
HasHeader(line) == line.r /\ line.elf \in {"exec", "dyn"}

LoadedAt(line) ==
  IF line.elf = "exec" THEN 0
  ELSE IF Headers(line) = {} THEN line.start
  ELSE line.start - line.phdrs[Min(Headers(line))].vaddr

\* Lines are in the order of their addresses, and the last header before the code that
\* contains pc0 is that of its object.
ASSUME LayoutAssumption ==
  \A s \in Scenes :
    /\ \A j, k \in DOMAIN s.maps : j < k => s.maps[j].end <= s.maps[k].start
    /\ \A k \in DOMAIN s.maps :
         /\ s.maps[k].r /\ s.maps[k].x /\ s.maps[k].file # NoFile
         /\ s.pc0 \in s.maps[k].start .. s.maps[k].end - 1
         => \E h \in 1 .. k : /\ HasHeader(s.maps[h]) /\ s.bias = LoadedAt(s.maps[h])
                             /\ \A j \in h + 1 .. k : ~HasHeader(s.maps[j])

\* Unless something fails, the call succeeds with the name of the first symbol
\* that contains pc0, in the regular table or else in the dynamic one, mangled or
\* not, or with the object file and the offset if the file does not open; and it
\* succeeds only then.
Symbolized ==
  /\ pc = "aborted" => trouble \/ truncated
  /\ pc = "done" /\ ~trouble /\ ~truncated /\ ~scene.open_callback /\ scene.out_size > 0
     /\ ~scene.PRINT_UNSYMBOLIZED_STACK_TRACES =>
       IF PcLines = {} \/ ~LinesFit \/ \E k \in PcLines : maps[k].file = NoFile
         THEN ~result
         ELSE \A k \in PcLines :
           LET f == maps[k].file
               regular == Answers(f)["symtab"]
               names == IF regular # {} THEN regular ELSE Answers(f)["dynsym"]
           IN  IF ~scene.objects[f].opens
                 THEN result = (scene.out_size > 2) /\ out = Prefix(<<<<"(", 1>>>> \o Str(f) \o
                                             <<<<"+", 1>>, <<"0", 1>>, <<"x", 1>>>> \o
                                             Hex(scene.pc0 - scene.bias) \o <<<<")", 1>>>>,
                                             scene.out_size - 1)
               ELSE IF ~scene.objects[f].is_elf THEN ~result
               ELSE /\ result = (names # {})
                    /\ result => \E n \in names :
                         out \in {Str(d) : d \in {n, Demangled[n]} \ {NoName}}

\* The call ends, unless the object file is truncated while it is read.
Ends == <>(Ended \/ truncated)
=============================================================================
