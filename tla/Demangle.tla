------------------------------ MODULE Demangle ------------------------------
(***************************************************************************)
(* Demangle (src/demangle.cc): a backtracking recursive-descent parser of  *)
(* mangled C++ names that runs in signal handlers and writes what it has   *)
(* understood so far into a buffer of the caller.                          *)
(*                                                                         *)
(* Each Parse function of the code is an expression built from the steps   *)
(* it is made of: &&, ||, the two kinds of loops, tokens, "save the state  *)
(* and restore it", and the operations on the output.  Run executes such   *)
(* an expression on a State.  A text is a TLA+ string, read and cut with   *)
(* the operators of Sequences.                                             *)
(***************************************************************************)
EXTENDS Integers, Sequences, FiniteSets

CONSTANTS
  Symbols,    \* the names the program asks Demangle about: m, and d, the text
              \* that demangle.h promises if m is well-formed
  NoText,     \* the d of names that are not
  Sizes,      \* the out_size of the calls
  INT_MAX     \* the largest int

Largest == CHOOSE n \in Sizes : \A k \in Sizes : k <= n

ASSUME SizesAssumption ==
  /\ Sizes \subseteq Nat /\ Sizes # {}
  /\ INT_MAX \in Nat

VARIABLES
  mangled,    \* the name
  expected,   \* ... and the text promised for it, or NoText
  answers     \* per out_size asked so far, the result and the contents of out

vars == <<mangled, expected, answers>>

-----------------------------------------------------------------------------
\* Characters and texts.
Char(str, i) == SubSeq(str, i, i)
Chars(str) == {Char(str, i) : i \in 1 .. Len(str)}
From(str, i) == SubSeq(str, i, Len(str))

StrPrefix(str, prefix) ==
  Len(prefix) <= Len(str) /\ SubSeq(str, 1, Len(prefix)) = prefix

Digits == Chars("0123456789")
Lower == Chars("abcdefghijklmnopqrstuvwxyz")
Upper == Chars("ABCDEFGHIJKLMNOPQRSTUVWXYZ")

IsAlpha(str, i) == i <= Len(str) /\ Char(str, i) \in Lower \cup Upper
IsDigit(str, i) == i <= Len(str) /\ Char(str, i) \in Digits

NUL == "$"  \* the terminating '\0', a character of no name

\* Overwrite buf with str from offset n on.
Write(buf, n, str) == SubSeq(buf, 1, n) \o str \o From(buf, n + Len(str) + 1)

-----------------------------------------------------------------------------
\* struct State.  mangled_cur is the rest of the name; out_cur and prev_name
\* are offsets from out_begin, which is never nullptr (Symbolize passes an array).
\* buf is the buffer as far as it has been written, shared by all copies of a
\* State.  ok is what the Parse function returned.
max_levels == 5

InitState(name, size) ==
  [mangled_cur |-> name, out_cur |-> 0, out_size |-> size,
   prev_name |-> 0, prev_name_length |-> -1, nest_level |-> -1,
   append |-> TRUE, overflowed |-> FALSE,
   local_level |-> 0, expr_level |-> 0, arg_level |-> 0,
   buf |-> "", ok |-> TRUE]

Succeed(s) == [s EXCEPT !.ok = TRUE]
Fail(s) == [s EXCEPT !.ok = FALSE]

\* *state = copy.
RestoreState(s, copy) == [copy EXCEPT !.buf = s.buf, !.ok = FALSE]

\* ParseOneCharToken, ParseTwoCharToken and ParseCharClass.
Consume(s, n) == Succeed([s EXCEPT !.mangled_cur = From(@, n + 1)])

ParseToken(s, token) ==
  IF StrPrefix(s.mangled_cur, token) THEN Consume(s, Len(token)) ELSE Fail(s)

ParseCharClass(s, char_class) ==
  IF s.mangled_cur # "" /\ Char(s.mangled_cur, 1) \in char_class
  THEN Consume(s, 1) ELSE Fail(s)

-----------------------------------------------------------------------------
\* The output.

\* Copy str to out_cur, as much of it as leaves room for the '\0', which is
\* written as long as nothing has overflowed.
AppendText_NoRoomForNul(s, str) ==
  LET n == IF s.out_cur + Len(str) <= s.out_size THEN Len(str) ELSE 0 IN
  [s EXCEPT !.out_cur = @ + n, !.buf = Write(@, s.out_cur, SubSeq(str, 1, n) \o NUL),
            !.overflowed = @ \/ n < Len(str)]

AppendText_ForgetsOverflow(s, str) ==
  LET room == IF s.out_size > s.out_cur THEN s.out_size - s.out_cur - 1 ELSE 0
      n == IF Len(str) <= room THEN Len(str) ELSE room IN
  [s EXCEPT !.out_cur = @ + n, !.overflowed = n < Len(str),
            !.buf = Write(@, s.out_cur, SubSeq(str, 1, n) \o NUL)]

AppendText(s, str) ==
  LET room == IF s.out_size > s.out_cur THEN s.out_size - s.out_cur - 1 ELSE 0
      n == IF Len(str) <= room THEN Len(str) ELSE room
      overflowed == s.overflowed \/ n < Len(str)
      text == SubSeq(str, 1, n) \o IF overflowed THEN "" ELSE NUL IN
  [s EXCEPT !.out_cur = @ + n, !.overflowed = overflowed,
            !.buf = Write(@, s.out_cur, text)]

MaybeAppend_NoSpace(s, str) ==
  LET named == IF IsAlpha(str, 1) \/ Char(str, 1) = "_"
               THEN [s EXCEPT !.prev_name = s.out_cur, !.prev_name_length = Len(str)]
               ELSE s IN
  IF s.append /\ str # "" THEN AppendText(named, str) ELSE s

\* MaybeAppendWithLength: a space keeps < < apart, and an identifier is
\* remembered for constructors and destructors.
MaybeAppend(s, str) ==
  LET spaced == IF Char(str, 1) = "<" /\ s.out_cur > 0 /\ Char(s.buf, s.out_cur) = "<"
                THEN AppendText(s, " ") ELSE s
      named == IF IsAlpha(str, 1) \/ Char(str, 1) = "_"
               THEN [spaced EXCEPT !.prev_name = spaced.out_cur,
                                   !.prev_name_length = Len(str)]
               ELSE spaced IN
  IF s.append /\ str # "" THEN AppendText(named, str) ELSE s

\* MaybeAppendWithLength(state, prev_name, prev_name_length).  prev_name points
\* into the buffer (where, after an overflow, the name may be cut), or nowhere if
\* there is none.
AppendPrevName(s) ==
  IF ~s.append \/ s.prev_name_length <= 0 THEN s
  ELSE LET end == s.prev_name + s.prev_name_length IN
       MaybeAppend(s, SubSeq(s.buf, s.prev_name + 1,
                             IF end <= Len(s.buf) THEN end ELSE Len(s.buf)))

MaybeAppendSeparator(s) == IF s.nest_level >= 1 THEN MaybeAppend(s, "::") ELSE s

MaybeCancelLastSeparator(s) ==
  IF s.nest_level < 1 \/ ~s.append \/ s.out_cur < 2 THEN s
  ELSE [s EXCEPT !.out_cur = @ - 2, !.buf = Write(@, s.out_cur - 2, NUL)]

MaybeIncreaseNestLevel(s) ==
  IF s.nest_level > -1 THEN [s EXCEPT !.nest_level = @ + 1] ELSE s

-----------------------------------------------------------------------------
\* ParseNumber: "n" is a minus sign, and stays consumed if no number follows.
\* The digits are added up as long as the sum fits into an int.
RECURSIVE Decimal(_, _)
Decimal(str, number) ==
  IF ~IsDigit(str, 1) THEN [fits |-> TRUE, number |-> number, rest |-> str]
  ELSE LET digit == CHOOSE d \in 0 .. 9 : Char("0123456789", d + 1) = Char(str, 1) IN
       IF number > INT_MAX \div 10 \/ digit > INT_MAX - number * 10
       THEN [fits |-> FALSE, number |-> number, rest |-> str]
       ELSE Decimal(From(str, 2), number * 10 + digit)

Number(s) ==
  LET signed == ParseToken(s, "n")
      d == Decimal(signed.mangled_cur, 0)
      parsed == d.fits /\ d.rest # signed.mangled_cur IN
  [state |-> IF parsed THEN Succeed([signed EXCEPT !.mangled_cur = d.rest])
                       ELSE Fail(signed),
   number |-> IF signed.ok THEN -d.number ELSE d.number]

ParseNumber(s) == Number(s).state

anon_prefix == "_GLOBAL__N_"

IdentifierIsAnonymousNamespace(s, length) ==
  length > Len(anon_prefix) /\ StrPrefix(s.mangled_cur, anon_prefix)

ParseIdentifier(s, length) ==
  IF length < 0 \/ length > Len(s.mangled_cur) THEN Fail(s)
  ELSE Consume(MaybeAppend(s, IF IdentifierIsAnonymousNamespace(s, length)
                              THEN "(anonymous namespace)"
                              ELSE SubSeq(s.mangled_cur, 1, length)), length)

ParseSourceName(s) ==
  LET n == Number(s)
      r == ParseIdentifier(n.state, n.number) IN
  IF n.state.ok /\ r.ok THEN r ELSE RestoreState(r, s)

-----------------------------------------------------------------------------
\* The steps Parse functions are made of.
Token(t) == [op |-> "token", token |-> t]
CharClass(str) == [op |-> "class", class |-> Chars(str)]
Call(f) == [op |-> "call", function |-> f]
All(es) == [op |-> "all", steps |-> es]                    \* e1 && e2 && ...
Any(es) == [op |-> "any", alternatives |-> es]             \* e1 || e2 || ...
Optional(e) == [op |-> "optional", body |-> e]
OneOrMore(e) == [op |-> "oneormore", body |-> e]
ZeroOrMore(e) == [op |-> "zeroormore", body |-> e]
Restoring(e) == [op |-> "restoring", body |-> e]           \* *state = copy
Nested(e) == [op |-> "nested", body |-> e]                 \* Enter-/LeaveNestedName
Muted(e) == [op |-> "muted", body |-> e]                   \* Disable-/RestoreAppend
Say(str) == [op |-> "say", text |-> str]                   \* MaybeAppend
SayPrevName == [op |-> "prevname"]
Native(f) == [op |-> "native", function |-> f]
TwoMore == [op |-> "two"]              \* AtLeastNumCharsRemaining(mangled_cur, 2)
Deeper(level) == [op |-> "deeper", level |-> level]        \* the guard and ++
Shallower(level) == [op |-> "shallower", level |-> level]  \* --

\* Replace one of the tokens in DOMAIN texts by the texts it stands for.
Abbreviation(texts, width) == [op |-> "table", texts |-> texts, width |-> width]

\* Alternatives, each followed by *state = copy.
Alternatives(rules) == Any([i \in DOMAIN rules |-> Restoring(All(rules[i]))])

\* const AbbrevPair tables.
kOperatorList ==
  [nw |-> "new", na |-> "new[]", dl |-> "delete", da |-> "delete[]", ps |-> "+",
   ng |-> "-", ad |-> "&", de |-> "*", co |-> "~", pl |-> "+", mi |-> "-", ml |-> "*",
   dv |-> "/", rm |-> "%", an |-> "&", or |-> "|", eo |-> "^", aS |-> "=", pL |-> "+=",
   mI |-> "-=", mL |-> "*=", dV |-> "/=", rM |-> "%=", aN |-> "&=", oR |-> "|=",
   eO |-> "^=", ls |-> "<<", rs |-> ">>", lS |-> "<<=", rS |-> ">>=", eq |-> "==",
   ne |-> "!=", lt |-> "<", gt |-> ">", le |-> "<=", ge |-> ">=", nt |-> "!",
   aa |-> "&&", oo |-> "||", pp |-> "++", mm |-> "--", cm |-> ",", pm |-> "->*",
   pt |-> "->", cl |-> "()", ix |-> "[]", qu |-> "?", st |-> "sizeof", sz |-> "sizeof"]

kBuiltinTypeList ==
  [v |-> "void", w |-> "wchar_t", b |-> "bool", c |-> "char", a |-> "signed char",
   h |-> "unsigned char", s |-> "short", t |-> "unsigned short", i |-> "int",
   j |-> "unsigned int", l |-> "long", m |-> "unsigned long", x |-> "long long",
   y |-> "unsigned long long", n |-> "__int128", o |-> "unsigned __int128",
   f |-> "float", d |-> "double", e |-> "long double", g |-> "__float128",
   z |-> "ellipsis"]

kSubstitutionList ==
  [t |-> "", a |-> "allocator", b |-> "basic_string", s |-> "string",
   i |-> "istream", o |-> "ostream", d |-> "iostream"]

OperatorTexts ==
  [o \in DOMAIN kOperatorList |->
     IF Char(kOperatorList[o], 1) \in Lower THEN <<"operator", " ", kOperatorList[o]>>
                                            ELSE <<"operator", kOperatorList[o]>>]

SubstitutionTexts ==
  [c \in DOMAIN kSubstitutionList |->
     IF kSubstitutionList[c] = "" THEN <<"std">> ELSE <<"std", "::", kSubstitutionList[c]>>]

BuiltinTexts == [c \in DOMAIN kBuiltinTypeList |-> <<kBuiltinTypeList[c]>>]

-----------------------------------------------------------------------------
\* The Parse functions.
ParseMangledName == All(<<Token("_Z"), Call("Encoding")>>)

ParseEncoding ==
  Any(<<Restoring(All(<<Call("Name"), Call("BareFunctionType")>>)),
        Call("Name"), Call("SpecialName")>>)

ParseName ==
  Any(<<Call("NestedName"), Call("LocalName"),
        Restoring(All(<<Call("UnscopedTemplateName"), Call("TemplateArgs")>>)),
        Call("UnscopedName")>>)

ParseUnscopedName ==
  Any(<<Call("UnqualifiedName"),
        Restoring(All(<<Token("St"), Say("std::"), Call("UnqualifiedName")>>))>>)

ParseUnscopedTemplateName == Any(<<Call("UnscopedName"), Call("Substitution")>>)

ParseNestedName ==
  Restoring(All(<<Token("N"),
                  Nested(All(<<Optional(Call("CVQualifiers")), Native("Prefix")>>)),
                  Token("E")>>))

\* One more component of a prefix.
PrefixComponent ==
  Any(<<Call("TemplateParam"), Call("Substitution"), Call("UnscopedName")>>)

ParseUnqualifiedName ==
  Any(<<Call("OperatorName"), Call("CtorDtorName"),
        All(<<Native("SourceName"), Optional(Call("AbiTags"))>>),
        All(<<Call("LocalSourceName"), Optional(Call("AbiTags"))>>)>>)

ParseLocalSourceName ==
  Restoring(All(<<Token("L"), Native("SourceName"), Optional(Call("Discriminator"))>>))

ParseFloatNumber == OneOrMore(CharClass("0123456789abcdef"))

ParseSeqId == OneOrMore(CharClass("0123456789ABCDEFGHIJKLMNOPQRSTUVWXYZ"))

ParseAbiTags == Restoring(Muted(OneOrMore(Call("AbiTag"))))

ParseAbiTag == All(<<Token("B"), Native("SourceName")>>)

ParseOperatorName ==
  All(<<TwoMore,
        Any(<<Restoring(All(<<Token("cv"), Say("operator "), Nested(Call("Type"))>>)),
              Restoring(All(<<Token("v"), CharClass("0123456789"), Native("SourceName")>>)),
              Abbreviation(OperatorTexts, 2)>>)>>)

ParseSpecialName ==
  Alternatives(<<
    <<Token("T"), CharClass("VTIS"), Call("Type")>>,
    <<Token("Tc"), Call("CallOffset"), Call("CallOffset"), Call("Encoding")>>,
    <<Token("GV"), Call("Name")>>,
    <<Token("T"), Call("CallOffset"), Call("Encoding")>>,
    <<Token("TC"), Call("Type"), Native("Number"), Token("_"), Muted(Call("Type"))>>,
    <<Token("T"), CharClass("FJ"), Call("Type")>>,
    <<Token("GR"), Call("Name")>>,
    <<Token("GA"), Call("Encoding")>>,
    <<Token("T"), CharClass("hv"), Call("CallOffset"), Call("Encoding")>> >>)

ParseCallOffset ==
  Alternatives(<< <<Token("h"), Native("Number"), Token("_")>>,
                  <<Token("v"), Call("VOffset"), Token("_")>> >>)

ParseVOffset == Restoring(All(<<Native("Number"), Token("_"), Native("Number")>>))

ParseCtorDtorName ==
  Alternatives(<< <<Token("C"), CharClass("123"), SayPrevName>>,
                  <<Token("D"), CharClass("012"), Say("~"), SayPrevName>> >>)

ParseType ==
  Any(<<Restoring(Any(<<
          Alternatives(<< <<Call("CVQualifiers"), Call("Type")>>,
                          <<CharClass("OPRCG"), Call("Type")>>,
                          <<Token("Dp"), Call("Type")>>,
                          <<Token("D"), CharClass("tT"), Call("Expression"), Token("E")>>,
                          <<Token("U"), Native("SourceName"), Call("Type")>> >>),
          Call("BuiltinType"), Call("FunctionType"), Call("ClassEnumType"),
          Call("ArrayType"), Call("PointerToMemberType"), Call("Substitution"),
          All(<<Call("TemplateTemplateParam"), Call("TemplateArgs")>>)>>)),
        Call("TemplateParam")>>)

ParseCVQualifiers ==
  Any(<<All(<<Token("r"), Optional(Token("V")), Optional(Token("K"))>>),
        All(<<Token("V"), Optional(Token("K"))>>),
        Token("K")>>)

ParseBuiltinType ==
  Any(<<Abbreviation(BuiltinTexts, 1), Restoring(All(<<Token("u"), Native("SourceName")>>))>>)

ParseFunctionType ==
  Restoring(All(<<Token("F"), Optional(Token("Y")), Call("BareFunctionType"), Token("E")>>))

ParseBareFunctionType == Restoring(All(<<Muted(OneOrMore(Call("Type"))), Say("()")>>))

ParseClassEnumType == Call("Name")

ParseArrayType ==
  Alternatives(<< <<Token("A"), Native("Number"), Token("_"), Call("Type")>>,
                  <<Token("A"), Optional(Call("Expression")), Token("_"), Call("Type")>> >>)

ParsePointerToMemberType == Restoring(All(<<Token("M"), Call("Type"), Call("Type")>>))

ParseTemplateParam ==
  Any(<<All(<<Token("T_"), Say("?")>>),
        Restoring(All(<<Token("T"), Native("Number"), Token("_"), Say("?")>>))>>)

ParseTemplateTemplateParam == Any(<<Call("TemplateParam"), Call("Substitution")>>)

ParseTemplateArgs_NotRestoring ==
  All(<<Muted(All(<<Token("I"), OneOrMore(Call("TemplateArg")), Token("E")>>)), Say("<>")>>)

ParseTemplateArgs ==
  Restoring(All(<<Muted(All(<<Token("I"), OneOrMore(Call("TemplateArg")), Token("E")>>)),
                  Say("<>")>>))

ParseTemplateArg ==
  All(<<Deeper("arg_level"),
        Alternatives(<<
          <<CharClass("IJ"), ZeroOrMore(Call("TemplateArg")), Token("E")>>,
          <<Any(<<Call("Type"), Call("ExprPrimary")>>)>>,
          <<Token("X"), Call("Expression"), Token("E")>> >>),
        Shallower("arg_level")>>)

\* After "st" the level stays as it is: its -- comes after the return.
ParseExpression ==
  LET Operands(n) == <<Call("OperatorName")>> \o [i \in 1 .. n |-> Call("Expression")]
      Counted(steps) == steps \o <<Shallower("expr_level")>>
      sr == <<Token("sr"), Call("Type"), Call("UnqualifiedName")>> IN
  Any(<<Call("TemplateParam"), Call("ExprPrimary"),
        All(<<Deeper("expr_level"),
              Alternatives(<< Counted(Operands(3)), Counted(Operands(2)),
                              Counted(Operands(1)), <<Token("st"), Call("Type")>>,
                              Counted(sr \o <<Call("TemplateArgs")>>), Counted(sr) >>)>>)>>)

ParseExprPrimary ==
  Alternatives(<< <<Token("L"), Call("Type"), Native("Number"), Token("E")>>,
                  <<Token("L"), Call("Type"), Call("FloatNumber"), Token("E")>>,
                  <<Token("L"), Call("MangledName"), Token("E")>>,
                  <<Token("LZ"), Call("Encoding"), Token("E")>> >>)

ParseLocalName ==
  All(<<Deeper("local_level"),
        Alternatives(<<
          <<Token("Z"), Call("Encoding"), Token("E"), Say("::"), Call("Name"),
            Optional(Call("Discriminator"))>>,
          <<Token("Z"), Call("Encoding"), Token("Es"), Optional(Call("Discriminator"))>> >>),
        Shallower("local_level")>>)

ParseDiscriminator == Restoring(All(<<Token("_"), Native("Number")>>))

ParseSubstitution ==
  Any(<<All(<<Token("S_"), Say("?")>>),
        Restoring(All(<<Token("S"), Call("SeqId"), Token("_"), Say("?")>>)),
        Restoring(All(<<Token("S"), Abbreviation(SubstitutionTexts, 1)>>))>>)

Grammar ==
  [MangledName |-> ParseMangledName, Encoding |-> ParseEncoding, Name |-> ParseName,
   UnscopedName |-> ParseUnscopedName, UnscopedTemplateName |-> ParseUnscopedTemplateName,
   NestedName |-> ParseNestedName, UnqualifiedName |-> ParseUnqualifiedName,
   LocalSourceName |-> ParseLocalSourceName, FloatNumber |-> ParseFloatNumber,
   SeqId |-> ParseSeqId, AbiTags |-> ParseAbiTags, AbiTag |-> ParseAbiTag,
   OperatorName |-> ParseOperatorName, SpecialName |-> ParseSpecialName,
   CallOffset |-> ParseCallOffset, VOffset |-> ParseVOffset,
   CtorDtorName |-> ParseCtorDtorName, Type |-> ParseType,
   CVQualifiers |-> ParseCVQualifiers, BuiltinType |-> ParseBuiltinType,
   FunctionType |-> ParseFunctionType, BareFunctionType |-> ParseBareFunctionType,
   ClassEnumType |-> ParseClassEnumType, ArrayType |-> ParseArrayType,
   PointerToMemberType |-> ParsePointerToMemberType, TemplateParam |-> ParseTemplateParam,
   TemplateTemplateParam |-> ParseTemplateTemplateParam, TemplateArgs |-> ParseTemplateArgs,
   TemplateArg |-> ParseTemplateArg, Expression |-> ParseExpression,
   ExprPrimary |-> ParseExprPrimary, LocalName |-> ParseLocalName,
   Discriminator |-> ParseDiscriminator, Substitution |-> ParseSubstitution]

-----------------------------------------------------------------------------
RECURSIVE Run(_, _), RunAll(_, _, _), RunAny(_, _, _), RunWhile(_, _),
          ParsePrefix(_, _), SayAll(_, _)

\* The state after the step e from state s.
Run(e, s) ==
  CASE e.op = "call" -> Run(Grammar[e.function], s)
    [] e.op = "all" -> RunAll(e.steps, 1, Succeed(s))
    [] e.op = "any" -> RunAny(e.alternatives, 1, s)
    [] e.op = "token" -> ParseToken(s, e.token)
    [] e.op = "class" -> ParseCharClass(s, e.class)
    [] e.op = "restoring" ->
         LET r == Run(e.body, s) IN IF r.ok THEN r ELSE RestoreState(r, s)
    [] e.op = "optional" -> Succeed(Run(e.body, s))
    [] e.op = "zeroormore" -> Succeed(RunWhile(e.body, s))
    [] e.op = "oneormore" ->
         LET r == Run(e.body, s) IN IF r.ok THEN Succeed(RunWhile(e.body, r)) ELSE r
    [] e.op = "nested" ->
         LET r == Run(e.body, [s EXCEPT !.nest_level = 0])
         IN IF r.ok THEN [r EXCEPT !.nest_level = s.nest_level] ELSE r
    [] e.op = "muted" ->
         LET r == Run(e.body, [s EXCEPT !.append = FALSE])
         IN IF r.ok THEN [r EXCEPT !.append = s.append] ELSE r
    [] e.op = "say" -> Succeed(MaybeAppend(s, e.text))
    [] e.op = "prevname" -> Succeed(AppendPrevName(s))
    [] e.op = "two" -> [s EXCEPT !.ok = Len(s.mangled_cur) >= 2]
    [] e.op = "deeper" -> IF s[e.level] > max_levels THEN Fail(s)
                          ELSE Succeed([s EXCEPT ![e.level] = @ + 1])
    [] e.op = "shallower" -> Succeed([s EXCEPT ![e.level] = @ - 1])
    [] e.op = "table" ->
         LET token == SubSeq(s.mangled_cur, 1,
                             IF Len(s.mangled_cur) < e.width THEN 0 ELSE e.width)
         IN IF token \in DOMAIN e.texts
            THEN Consume(SayAll(e.texts[token], s), e.width) ELSE Fail(s)
    [] e.op = "native" ->
         CASE e.function = "Number" -> ParseNumber(s)
           [] e.function = "SourceName" -> ParseSourceName(s)
           [] e.function = "Prefix" -> ParsePrefix(s, FALSE)

RunAll(es, i, s) ==
  IF i > Len(es) \/ ~s.ok THEN s ELSE RunAll(es, i + 1, Run(es[i], s))

RunAny(es, i, s) ==
  LET r == Run(es[i], s) IN IF r.ok \/ i = Len(es) THEN r ELSE RunAny(es, i + 1, r)

\* while (parse_func(state)) {}
RunWhile(e, s) ==
  LET r == Run(e, s) IN IF r.ok THEN RunWhile(e, r) ELSE r

SayAll(texts, s) ==
  IF texts = << >> THEN s ELSE SayAll(Tail(texts), MaybeAppend(s, Head(texts)))

\* The loop of ParsePrefix, which always returns true.
ParsePrefix(s, has_something) ==
  LET component == Run(PrefixComponent, MaybeAppendSeparator(s))
      cancelled == MaybeCancelLastSeparator(component)
      args == Run(Call("TemplateArgs"), cancelled) IN
  IF component.ok THEN ParsePrefix(MaybeIncreaseNestLevel(component), TRUE)
  ELSE IF ~has_something THEN Succeed(cancelled)
  ELSE IF args.ok THEN ParsePrefix(args, FALSE)
  ELSE Succeed(args)

\* IsFunctionCloneSuffix: (.<alpha>+.<digit>+)*.
RECURSIVE Skip(_, _)
Skip(str, class) ==
  IF str # "" /\ Char(str, 1) \in class THEN Skip(From(str, 2), class) ELSE str

RECURSIVE IsFunctionCloneSuffix(_)
IsFunctionCloneSuffix(str) ==
  LET number == Skip(From(str, 2), Lower \cup Upper) IN
  \/ str = ""
  \/ /\ StrPrefix(str, ".") /\ IsAlpha(str, 2)
     /\ StrPrefix(number, ".") /\ IsDigit(number, 2)
     /\ IsFunctionCloneSuffix(Skip(From(number, 2), Digits))

ParseTopLevelMangledName(s) ==
  LET r == Run(Call("MangledName"), s) IN
  IF ~r.ok \/ r.mangled_cur = "" \/ IsFunctionCloneSuffix(r.mangled_cur) THEN r
  ELSE IF StrPrefix(r.mangled_cur, "@") THEN MaybeAppend(r, r.mangled_cur)
  ELSE Fail(r)

\* The string the buffer contains: up to the first '\0', or beyond what has been
\* written if there is none.
Unterminated == "$$"

CString(buf) ==
  LET ends == {i \in 1 .. Len(buf) : Char(buf, i) = NUL} IN
  IF ends = {} THEN Unterminated
  ELSE SubSeq(buf, 1, (CHOOSE i \in ends : \A j \in ends : i <= j) - 1)

\* Demangle(mangled, out, out_size): what it returns, the string it leaves in
\* out, and how many bytes of out it has written at one time or another.
Answer(name, size) ==
  LET r == ParseTopLevelMangledName(InitState(name, size)) IN
  [returned |-> r.ok /\ ~r.overflowed, out |-> CString(r.buf), written |-> Len(r.buf)]

-----------------------------------------------------------------------------
Init ==
  /\ \E symbol \in Symbols : mangled = symbol.m /\ expected = symbol.d
  /\ answers = << >>

\* The program asks about the same name with less and less room.
Demangle(size) ==
  /\ size \notin DOMAIN answers
  /\ \A k \in Sizes : k > size => k \in DOMAIN answers
  /\ answers' = [k \in DOMAIN answers \cup {size} |->
                   IF k = size THEN Answer(mangled, size) ELSE answers[k]]
  /\ UNCHANGED <<mangled, expected>>

Next == \E size \in Sizes : Demangle(size)

Spec == Init /\ [][Next]_vars

-----------------------------------------------------------------------------
\* Demangle writes to the out_size bytes it is given and to no others, although
\* every alternative the parser tries and gives up writes to the same buffer and
\* MaybeCancelLastSeparator takes back two characters that may never have fitted.
TypeOK ==
  /\ DOMAIN answers \subseteq Sizes
  /\ \A k \in DOMAIN answers : answers[k].returned \in BOOLEAN /\ answers[k].written \in 0 .. k

\* "On success, return true and write the demangled symbol name": a result of true
\* means that the buffer holds the whole text, the one a large buffer would hold,
\* terminated, whatever the alternatives given up have left in it; and the text is
\* refused only when the buffer lacks room for it, its terminator and a separator
\* to be cancelled.  (A name like _ZNE, of which there is nothing to say, succeeds
\* without a write.)
NeverTruncated ==
  \A k \in DOMAIN answers :
    LET full == answers[Largest] IN
    /\ answers[k].returned => full.returned /\ answers[k].out = full.out
    /\ answers[k].returned /\ answers[k].written > 0 => answers[k].out # Unterminated
    /\ full.returned /\ Len(full.out) + Len("::") < k => answers[k].returned

\* A well-formed name is demangled to the text demangle.h promises for it: the
\* names of scopes, functions, constructors, destructors and operators, "<>" for
\* template arguments and "()" for parameters.
WellFormedDemangled ==
  expected # NoText /\ answers # << >> =>
    answers[Largest].returned /\ answers[Largest].out = expected

\* "Otherwise, don't change the state and returns false" (demangle.cc:425): a Parse
\* function that fails leaves everything its callers rely on as it was, and one that
\* succeeds has consumed some of the name, so that the loops over it end.  Not all of
\* them keep that rule.  ParsePrefix always succeeds, maybe having consumed nothing.
\* ParseMangledName, ParseAbiTag and ParseNumber keep what they have consumed when
\* they fail.  A failing ParseTemplateArg, ParseExpression or ParseLocalName leaves
\* its level raised, and so do the callers of ParseLocalName that save no state.
\* The other functions keep the rule, whichever of these they call.
ParseFunctions ==
  {Call(f) : f \in DOMAIN Grammar} \cup {Native(f) : f \in {"Number", "SourceName", "Prefix"}}
MayConsumeNothing == {"Prefix"}
MayConsumeAndFail == {"MangledName", "AbiTag", "Number"}
MayRaiseLevels == {"TemplateArg", "Expression", "LocalName",
                   "Name", "ClassEnumType", "Encoding", "MangledName"}

ProgressOrRestore ==
  DOMAIN answers = {Largest} =>
    \A f \in ParseFunctions :
      LET s == [InitState(From(mangled, 3), Largest) EXCEPT
                  !.out_cur = 1, !.buf = "A$", !.prev_name_length = 1, !.nest_level = 1]
          r == Run(f, s)
          Same(fields) == \A field \in fields : r[field] = s[field] IN
      IF r.ok
      THEN f.function \in MayConsumeNothing \/ Len(r.mangled_cur) < Len(s.mangled_cur)
      ELSE /\ Same({"out_cur", "overflowed", "append", "nest_level",
                    "prev_name", "prev_name_length"})
           /\ f.function \in MayConsumeAndFail \/ Same({"mangled_cur"})
           /\ f.function \in MayRaiseLevels \/ Same({"local_level", "expr_level", "arg_level"})
=============================================================================
