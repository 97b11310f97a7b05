CONSTANTS
    t1 = t1
    t2 = t2
    t3 = t3
    c1 = c1
    c2 = c2
    Roles = {"api", "worker"}
    Tasks = {t1, t2, t3}
    Signals = {c1, c2}
SPECIFICATION FairSpec
INVARIANTS
    TypeOK
    NoWorkIsCutOff
PROPERTY StopsWhenTold
