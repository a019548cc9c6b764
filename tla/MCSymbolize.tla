---------------------------- MODULE MCSymbolize ----------------------------
(***************************************************************************)
(* Instances of Symbolize for TLC: layouts of a process, the lengths of    *)
(* the lines of /proc/self/maps, symbol tables and failures.               *)
(***************************************************************************)
EXTENDS Symbolize

CONSTANTS exe, lib, data, f1, f2, long, plain

MCLength ==
  [n \in Names \cup Files |-> CASE n = long -> 7 [] n = plain -> 5 [] n = f2 -> 2 [] OTHER -> 1]

\* f1 has a demangled form that fits, f2 one that does not, long none.
MCDemangled == [n \in Names |-> CASE n = f1 -> plain [] n = f2 -> long [] OTHER -> NoName]

Mapping(start, end, flags, f, elf, phdrs) ==
  [pos |-> 0, len |-> 2, start |-> start, end |-> end, r |-> "r" \in flags, x |-> "x" \in flags,
   file |-> f, elf |-> elf, phdrs |-> phdrs]

Segment(loads_header, vaddr) == [loads_header |-> loads_header, vaddr |-> vaddr]

\* An executable linked to its address, whose text is mapped with its header; a
\* library in two mappings; code without a file.
FixedLayout ==
  <<Mapping(10, 14, {"r", "x"}, exe, "exec", <<>>),
    Mapping(20, 22, {"r"}, lib, "dyn", <<Segment(FALSE, 0), Segment(TRUE, 0)>>),
    Mapping(22, 26, {"r", "x"}, lib, "none", <<>>),
    Mapping(30, 32, {"r", "x"}, NoFile, "none", <<>>)>>

\* A position-independent executable, an object file read as data, a guard page
\* and a library that was linked to address 4.
MovedLayout ==
  <<Mapping(10, 14, {"r", "x"}, exe, "dyn", <<>>),
    Mapping(16, 18, {"r"}, data, "other", <<>>),
    Mapping(20, 22, {"r"}, lib, "dyn", <<Segment(TRUE, 4), Segment(FALSE, 6)>>),
    Mapping(22, 23, {}, lib, "none", <<>>),
    Mapping(23, 26, {"r", "x"}, lib, "none", <<>>)>>

\* Addresses and the bias of what contains them.
FixedPcs == {<<12, 0>>, <<24, 20>>, <<30, 0>>, <<40, 0>>}
MovedPcs == {<<12, 10>>, <<24, 16>>}

\* The line lengths lens, in order.
WithLengths(m, lens) ==
  [k \in DOMAIN m |-> [m[k] EXCEPT !.len = lens[k],
                                   !.pos = MapThenSumSet(LAMBDA j : lens[j], 1 .. k - 1)]]

Sym(value, size, n) == [value |-> value, size |-> size, defined |-> TRUE, name |-> n]

ObjectWith(sections, symtab, dynsym) ==
  [opens |-> TRUE, is_elf |-> TRUE, sections |-> sections,
   symbols |-> [t \in {"symtab", "dynsym"} |-> IF t = "symtab" THEN symtab ELSE dynsym]]

\* Object files for a symbol at address a: with both tables, where the symbol
\* comes last in one and first in the other; stripped; with a name that is too
\* long in the regular table; without the symbol; not an object file; not there.
ObjectFiles(a) ==
  LET undefined == [Sym(a, 4, f2) EXCEPT !.defined = FALSE]
      below == Sym(Max({0, a - 4}), 4, f2)
      above == Sym(a + 1, 1, f2)
      near == Sym(Max({0, a - 1}), 1, f1)
      both == ObjectWith(<<"other", "other", "symtab", "dynsym">>,
                <<Sym(0, 99, f2), undefined, below, above, Sym(a, 2, f1)>>,
                <<Sym(a, 1, f2)>>)
  IN  {both,
       [both EXCEPT !.sections = <<"dynsym">>],
       [both EXCEPT !.symbols["symtab"] = <<Sym(a, 1, long)>>],
       [both EXCEPT !.symbols["symtab"] = <<>>, !.symbols["dynsym"] = <<Sym(a + 2, 2, f1)>>],
       [both EXCEPT !.sections = <<"symtab">>, !.symbols["symtab"] = <<near>>],
       [both EXCEPT !.sections = <<>>],
       [both EXCEPT !.is_elf = FALSE],
       [both EXCEPT !.opens = FALSE]}

SceneWith(m, at, object, size) ==
  [pc0 |-> at[1], bias |-> at[2], maps |-> m, out_size |-> size,
   objects |-> [f \in Files |-> object],
   open_callback |-> FALSE, symbolize_callback |-> FALSE, callback |-> -1,
   PRINT_UNSYMBOLIZED_STACK_TRACES |-> FALSE, IoErrors |-> FALSE, Truncates |-> FALSE]

\* Every way in which lines and the ends of the buffer meet.
LineScenes ==
  UNION {{SceneWith(WithLengths(FixedLayout, lens), at, ObjectWith(<<>>, <<>>, <<>>), 7) :
            lens \in [1 .. 4 -> {2, BufLen - 1, BufLen, BufLen + 1}]} : at \in FixedPcs}

Uniform(layout) == WithLengths(layout, [k \in DOMAIN layout |-> 2])

\* Every object file, in both layouts, for buffers small and large.
FileScenes ==
  UNION {{SceneWith(Uniform(FixedLayout), at, o, size) :
            o \in ObjectFiles(at[1] - at[2]), size \in {0, 2, 4, 6, 9}} : at \in FixedPcs}
  \cup
  UNION {{SceneWith(Uniform(MovedLayout), at, o, size) :
            o \in ObjectFiles(at[1] - at[2]), size \in {4, 6}} : at \in MovedPcs}

\* Failures, truncated files, callbacks.
TroubleScenes ==
  UNION {
    LET s == SceneWith(Uniform(MovedLayout), <<24, 16>>, o, size)
    IN  {[s EXCEPT !.IoErrors = TRUE, !.Truncates = TRUE],
         [s EXCEPT !.PRINT_UNSYMBOLIZED_STACK_TRACES = TRUE],
         [s EXCEPT !.open_callback = TRUE]}
        \cup {[s EXCEPT !.symbolize_callback = TRUE, !.callback = n, !.Truncates = TRUE] :
                n \in {-1, 0, 2}}
    : o \in ObjectFiles(8), size \in {4, 6}}

AllScenes == LineScenes \cup FileScenes \cup TroubleScenes
=============================================================================
