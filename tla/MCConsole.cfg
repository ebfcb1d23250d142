SPECIFICATION Spec
CONSTANTS
    t1 = t1
    t2 = t2
    Tasks = {t1, t2}
    Calls <- MCCalls
    Modes <- MCModes
    Digits <- MCDigit
    Letters = {"h", "k"}
    Newline = "nl"
    Blank = "blank"
    CharHeight = 2
    PageSize = 512
INVARIANTS WritesMapped BottomRowBlank PrintedExact
PROPERTY ImplementsTerminal
CHECK_DEADLOCK FALSE
