SPECIFICATION Spec
CONSTANTS
  e1 = e1
  e2 = e2
  Elements = {e1, e2}
  Raw = Raw
  MinSize = 2
  ShortCount = 3
  MaxElements = 4
  Keys = {1, 2, 3}
  Values = {e1, e2}
  HashOf <- Hashes
  InitialSize = 2
  MaxSize = 7
  Junk = Junk
  Chars = {e1, e2}
  Nul = Nul
  SmallLen = 4
  Pieces <- Texts
  MaxLen = 7
  Starts <- Days
  Offset = 20700
  MaxSteps = 2
  Modes <- OpenModes
  Unwritten = 99
  Bytes = {10, 13, 97, 255}
  MaxFile = 8
  MaxStream = 3
  MaxCalls = 4
  Objects = {s1, s2}
  Fds = {3, 4, 5}
  Families = {4, 6}
  Brute = 4
  Block = 2
  Align = 4
  Bits = 8
  ByteMax = 15
  Wide = 1023
  Byte = 4
  HexRadix = 2
  Groups = 3
  Alphabet <- Alphabets
  MaxInput <- Lengths
INVARIANTS TypeOK Held 
CHECK_DEADLOCK FALSE
