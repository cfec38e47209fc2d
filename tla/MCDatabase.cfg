SPECIFICATION DatabaseSpec
CONSTANTS
    p1 = p1
    p2 = p2
    m1 = m1
    m2 = m2
    key1 = key1
    key2 = key2
    key3 = key3
    v1 = v1
    v2 = v2
    Processes = {p1, p2}
    Magazines = {m1, m2}
    Keys = {key1, key2, key3}
    FirstKey = key1
    Values = {v1, v2}
    look = look
    probe1 = probe1
    probe2 = probe2
    set1 = set1
    set2 = set2
    Units <- MCUnits
    KindOf <- MCKindOf
    Want <- MCWant
    Capacity = 2
    Absent = Absent
    Nobody = Nobody
INVARIANTS
    TypeOK
    ReadsBack
    UnitsTypeOK
    SetTakesEffect
PROPERTY EveryUnitEnds
