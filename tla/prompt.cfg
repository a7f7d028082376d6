SPECIFICATION Spec
CONSTANTS
  NULL = NULL
  Char <- Characters
  Pieces <- AllPieces
  MaxPieces = 3
  smcup <- Smcup
  rmcup <- Rmcup
  Widths = {3,4}
  Modes = {"aware","bleach","coloured"}
  EditedPrompts <- Prompts
  MaxEdited = 1
  Letters = {"x"}
  MaxLine = 4
  term_cursor_hpos = TRUE
CHECK_DEADLOCK FALSE
INVARIANTS AlternateScreenKnown PromptStartFound TextKept LineIsShown
