SPECIFICATION Spec
CONSTANTS
    Maps = {m0, m1, m2}
    EmptyMap = m0
    Writers = {w1, w2}
    NoFile = NoFile
    Blank = Blank
    Torn = Torn
INVARIANTS
    TypeOK
    WholeUnlessOverlap
    MirrorWhenQuiet
PROPERTIES
    SoloSaveRepairs
    Mirrored
