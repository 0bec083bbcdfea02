SPECIFICATION QSpec
CONSTANTS
    Ids = {m1, m2, m3}
    Hashes = {h1, h2}
    Writers = {w1, w2}
    Seeds = {m1}
    NoHash = NoHash
    NoId = NoId
    Conflicts = {c1}
    Clients = {r1}
    NoConflict = NoConflict
SYMMETRY Symmetry
VIEW View
CONSTRAINT LoadBound
INVARIANTS ResolvedMeansLoserGone
