SPECIFICATION TerminalSpec
CONSTANTS
    Rows = 6
    Cols = 7
    FbRows = 7
    FbCols = 7
    WinRows = 3
    WinCols = 4
    Top = 2
    Bottom = 3
    Left = 1
    Right = 5
    MaxLen = 4
    Characters <- MCCharacters
    Letters = {"a"}
    LineMax = 6
    Prompt <- MCPrompt
    Banner <- MCBanner
    Controls <- MCControls
    Goodbye <- MCGoodbye
    Outputs <- MCOutputs
    Areas <- MCAreas
    MaxCalls = 2
INVARIANTS ScreenIsFaithful SnakeIsSound GameIsDrawn
 
