SPECIFICATION QSpec
CONSTANTS
    Ids = {m1, m2}
    Hashes = {h1, h2}
    Writers = {w1}
    Seeds = {m1}
    NoHash = NoHash
    NoId = NoId
    Conflicts = {c1, c2}
    Clients = {r1, r2}
    NoConflict = NoConflict
SYMMETRY Symmetry
VIEW View
CONSTRAINT LoadBound
INVARIANTS OpenConflictUnique LoserGoneUnlessRaced
PROPERTIES ArbitrationKeepsSurvivor
