SPECIFICATION Spec
CONSTANTS
    Maps = {m0, m1}
    EmptyMap = m0
    Writers = {w1, w2}
    NoFile = NoFile
    Blank = Blank
    Torn = Torn
INVARIANT FileWhole
