SPECIFICATION SpecConsole
CONSTANTS
  NumTerminals = 2
  Cols = 2
  Rows = 1
  Chars = {"a"}
  Outputs <- MCOutputs
  Prompt <- MCPrompt
  Banner <- MCBanner
  Message <- MCMessage
  Exception <- MCException
  PageCells = 3
  MaxLength = 1
  Faulty = {0}
INVARIANT PlaceOnScreen
PROPERTY ScreensApart
