SPECIFICATION MCSpec
CONSTANTS
    Firsts <- MCFirsts
    Lines <- MCLines
    MaxLines = 2
    Newlines <- MCNewlines
    Bodies <- MCBodies
    MaxHead = 6
    MaxBody = 8
    Grow = 4
INVARIANTS
    UntornIsParsed
    NoEarlyFinish
