SPECIFICATION Spec
CONSTANTS
    Clients = {b, c}
    Null = Null
    Events = 3
INVARIANTS
    NoBadCall
