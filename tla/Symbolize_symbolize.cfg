SPECIFICATION FairSpec
CONSTANTS
  exe = exe
  lib = lib
  data = data
  f1 = f1
  f2 = f2
  long = long
  plain = plain
  NoFile = NoFile
  NoName = NoName
  Files = {exe, lib, data}
  Names = {f1, f2, long, plain}
  Length <- MCLength
  Demangled <- MCDemangled
  BufLen = 5
  SectionChunk = 2
  NUM_SYMBOLS = 2
  HexDigits = 3
  Scenes <- AllScenes
INVARIANTS
  TypeOK
  LinesWhole
  Symbolized
PROPERTY Ends
