CONSTANTS
    MaxGas = 12
    Precision = 2
    Users = {u1, u2}
    Burnt = Burnt
    Reward = Reward
    NoActor = NoActor
    Deleted = Deleted
    Unresolved = Unresolved
    NoMessage = NoMessage
    BaseFee = 2
    Messages <- MCMessages
    Charges = {1, 9}
    UserActors <- MCUserActors
    MaxMessages = 2
SYMMETRY Permuted
SPECIFICATION Spec
INVARIANTS
    NoReplay
    SettlementSound
    InclusionCovered
    PremiumShownIsPaid
PROPERTY FundsConserved
