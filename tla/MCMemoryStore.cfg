SPECIFICATION Spec
CONSTANTS
    Ids = {m1, m2, m3}
    Hashes = {h1, h2}
    Writers = {w1, w2}
    Seeds = {m1}
    NoHash = NoHash
    NoId = NoId
SYMMETRY Symmetry
INVARIANTS LiveHashUnique GatedContentHeld
PROPERTY GateForgetsOnlyByDeleteOrStaleMerge
