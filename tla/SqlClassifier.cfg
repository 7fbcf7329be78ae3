SPECIFICATION Spec
CONSTANTS
  Words <- WordTable
  Quoted <- QuotedNames
  Name <- NameTable
  Phrases <- PhraseTable
  MaxPhrases = 4
CHECK_DEADLOCK FALSE
INVARIANTS
  ReadIsPure
  WrapperIsTransparent
  OrderDoesNotMatter
  NoStatementIsHidden
  CteNeverLowers
