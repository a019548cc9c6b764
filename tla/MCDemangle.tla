----------------------------- MODULE MCDemangle -----------------------------
(***************************************************************************)
(* Instances of Demangle for TLC: well-formed names, built together with   *)
(* the text that demangle.h promises for them, and names that are not.     *)
(***************************************************************************)
EXTENDS Demangle


\* A piece of a name and the text it stands for.
Piece(m, d) == [m |-> m, d |-> d]

Plain == {Piece("1f", "f"), Piece("3Foo", "Foo")}
Anonymous == Piece("12_GLOBAL__N_1", "(anonymous namespace)")
Operators == {Piece("pl", "operator+"), Piece("nw", "operator new"),
              Piece("cvi", "operator int"), Piece("lsIiE", "operator<< <>")}
Template(p, args) == Piece(p.m \o "I" \o args \o "E", p.d \o "<>")
TemplateArgLists == {"i", "Li1E", "J1AiE", "XplT_Li1EE", "1AIiE"}
Templates == {Template(Piece("1A", "A"), a) : a \in TemplateArgLists}

Scopes == Plain \cup {Anonymous, Piece("St", "std"), Piece("Sa", "std::allocator"),
                      Template(Piece("3Foo", "Foo"), "i")}

Join(p, q) == Piece(p.m \o q.m, p.d \o "::" \o q.d)
Nest(p) == Piece("N" \o p.m \o "E", p.d)

\* Constructor and destructor of Foo.
Structors == {Piece("N3FooC1E", "Foo::Foo"), Piece("N1f3FooD0E", "f::Foo::~Foo"),
              Piece("NSoD1E", "std::ostream::~ostream"),
              Piece("N3FooIiEC2E", "Foo<>::Foo")}

Names ==
  Plain \cup Operators \cup Templates \cup Structors
  \cup {Piece("St1f", "std::f"), Piece("NK3Foo1fE", "Foo::f"),
        Piece("1fB1t", "f"), Piece("NcvT_IiEE", "operator ?<>")}
  \cup {Nest(Join(s, p)) : s \in Scopes, p \in Plain \cup Operators \cup Templates}
  \cup {Nest(Join(s, Join(t, p))) : s \in Scopes, t \in {Piece("1n", "n"), Anonymous},
                                    p \in Plain}

Parameters == {"v", "i", "PKc", "1A", "St1A", "S_", "1AIiE", "N1n1AE", "Z1gvE1B", "FivE",
               "M1AFvvE", "A3_i", "T_", "DtLi0EE", "U1qi", "DpT_", "rVKi", "A_1A"}

Function(p, params) == Piece(p.m \o params, p.d \o "()")

Locals == {Piece("Z" \o f.m \o "E" \o p.m, f.d \o "::" \o p.d) :
             f \in {Function(q, "v") : q \in Plain}, p \in Plain}

Encodings ==
  Names \cup Locals
  \cup {Function(p, t) : p \in Names, t \in {"v", "1A"}}
  \cup {Function(p, t \o u) : p \in Plain, t \in Parameters, u \in Parameters}
  \cup {Function(p, t \o t \o t) : p \in Plain, t \in Parameters}
  \cup {Piece("TV" \o p.m, p.d) : p \in Plain \cup Templates}
  \cup {Piece("Th4_" \o f.m, f.d) : f \in {Function(p, "v") : p \in Structors}}
  \cup {Piece(f.m \o suffix, f.d) : f \in {Function(p, "v") : p \in Plain},
                                    suffix \in {".clone.3", ".isra.2.constprop.18"}}
  \cup {Piece(f.m \o "@@V1", f.d \o "@@V1") : f \in Plain}

WellFormed == {Piece("_Z" \o e.m, e.d) : e \in Encodings}

\* What a symbol table may contain besides.
Pieces == {"N", "E", "1f", "C1", "i", "I", "St", "Z", "L", "cv", "X", "LZ"}

Unchecked(m) == [m |-> m, d |-> NoText]

AllSymbols ==
  WellFormed
  \cup {Unchecked("_Z" \o p \o q \o r) : p \in Pieces, q \in Pieces, r \in Pieces}
  \cup {Unchecked(m) : m \in {"_ZERO", "main", "_Z", "_ZNE", "_Z99999999991f"}}
=============================================================================
