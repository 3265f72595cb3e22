SPECIFICATION LiveMCSpec
CONSTANTS
    Rings <- MCRings
    Capacity = 2
    Width = 4
    Producers = 2
    Budgets = {1, 2}
    Quanta = {2}
CHECK_DEADLOCK FALSE
PROPERTIES
    ImplementsChannel
    ProducersAreServed
