SPECIFICATION Spec
SYMMETRY Symmetry
CONSTANTS
    c1 = c1
    c2 = c2
    c3 = c3
    c4 = c4
    m1 = m1
    m2 = m2
    Children = {c1, c2, c3, c4}
    Messages = {m1}
    MaxRetries = 3
    MaxTasksPerChild = 3
    Faults = {}
INVARIANT
    NothingGivenUp
