SPECIFICATION Spec
CONSTANTS
    Ids = {a}
    High = {a}
    Posts = {p, q}
    Decisions = {"approved", "rejected"}
    MaxAttrs = 1
    MaxRestarts = 1
SYMMETRY PostSymmetry
INVARIANTS
    BlockingActsOnce
    AsyncReminderOnce
PROPERTIES
    ImplementsGate
