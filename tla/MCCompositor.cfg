SPECIFICATION FairSpec
CONSTANTS
    Width = 2
    Height = 1
    Statuses = {8, 57}
    Moves = {1, 8}
    Windows = {w1}
    NoWindow = NoWindow
INVARIANTS ResyncsAfterQuietMoves NoPhantomButtons NothingIsForgotten
PROPERTIES ScreenCatchesUp
