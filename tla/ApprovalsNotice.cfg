SPECIFICATION Spec
CONSTANTS
    Ids = {a}
    High = {}
    Posts = {p}
    Decisions = {"approved"}
    MaxAttrs = 1
    MaxRestarts = 0
INVARIANTS
    NotTakenIsTrue
