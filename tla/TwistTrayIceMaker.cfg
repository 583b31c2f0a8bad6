SPECIFICATION Spec
CONSTANT
    StopsNameTheirSelection = TRUE
INVARIANTS
    StateOwnsWhatItStarts
    FillIsAccountedFor
PROPERTIES
    EveryWaitEnds
