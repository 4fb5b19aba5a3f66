SPECIFICATION StreamSpec
CONSTANTS
    Process = {p1, p2, p3}
    Data = {fill, reject}
    MaxRows = 5
    PollRows = 2
INVARIANTS
    ChainVerifies
    EditsPinpointed
    GapsDetected
    StreamHasNoGaps
SYMMETRY Symmetry
