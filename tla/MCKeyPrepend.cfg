SPECIFICATION PrependSpec
CONSTANTS
    p1 = p1
    p2 = p2
    m1 = m1
    m2 = m2
    k1 = k1
    k2 = k2
    k3 = k3
    v1 = v1
    v2 = v2
    Processes = {p1, p2}
    Magazines = {m1, m2}
    Keys = {k1, k2, k3}
    FirstKey = k1
    Values = {v1, v2}
INVARIANT NoDowntime
