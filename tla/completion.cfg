SPECIFICATION Spec
CONSTANTS
  NULL = NULL
  Trees = {"completion", "scratch"}
  MaxNodes = 14
  Lines <- OneByOne
  Files <- TwoFiles
  Typed <- TwoPrefixes
  Answers <- SomeAnswers
  complete_filenames = TRUE
CHECK_DEADLOCK FALSE
VIEW WithoutAddresses
INVARIANTS RedBlackTrees LookupsFindTheirKeys
PROPERTY ImplementsWordList
