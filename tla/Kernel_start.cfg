SPECIFICATION KernelLiveSpec
CONSTANTS
    WIDTH = 4
    HEIGHT = 2
    TAB = 2
    BUF = 4
    BYTE = 4
    Printable = {" ", "a", "b", "e"}
    Texts <- MCTexts
    HandlerTexts <- MCHandlerTexts
    Lines = {0, 8, 14}
    MaxInterrupts = 2
    MaxOutput = 8
INVARIANTS FindsEnd StaysInVideo CursorOnScreen ShowsOutput NothingInService
PROPERTIES HandlersDoNotNest EveryRequestAnswered PrintEnds
