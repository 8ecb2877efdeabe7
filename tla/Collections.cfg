SPECIFICATION Spec
CONSTANTS
    V1 = V1
    V2 = V2
INVARIANTS
    Canonical
    Answers
    FlushSound
    DiffSameHeight
    BitFieldIsSet
    EncodingExact
