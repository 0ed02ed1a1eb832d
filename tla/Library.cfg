SPECIFICATION LibrarySpec
CONSTANTS
  Size = 12
  Memories <- MCMemories
  Start <- MCStart
  Delim <- MCDelim
  Contents <- CallContents
  Calls <- AllCalls
  Words = 16
  Array <- MCArray
  Address = 9
  Values = {"v", "w"}
INVARIANTS
  CallsAsSpecified
  NumbersReadBack
  TokensInOrder
  OnlyDelimitersCut
  ViewsArePart
  LifetimesMatch
PROPERTIES
  TokensEnd
