SPECIFICATION Spec
CONSTANTS
    Users = {u1, u2}
    A = A
    B = B
    C = C
    D = D
    E = E
    F = F
    Texts = {A, B, C, D, E, F}
    Cooked <- MCCooked
    Damaged = {1}
    Raw = {}
    Malformed = {E}
    Size <- MCSize
    Hash <- MCHash
    TierCount = 2
    TierSlots <- MCTierSlots
    TierBytes <- MCTierBytes
    TierInitial <- MCInitial
    PinLimit = 4
    MaxGeneration = 1
    MaxBase = 7
    CellCount = 8
    MaxNames = 6
    TextCapacity = 7
    Queries <- MCQueries
    Nobody = Nobody
    NoSlot = NoSlot
    Direct = Direct
    Garbage = Garbage
SYMMETRY Symmetry
INVARIANTS
    LeasesKeepTheirText
    ResidentsAreFound
    AtomsNameOneText
    PublishedNamesAreFound
