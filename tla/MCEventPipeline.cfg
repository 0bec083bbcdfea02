SPECIFICATION Spec
CONSTANTS
    Deliveries = {d1, d2}
    Manual = {u1}
    Keys = {k1}
    NoKey = NoKey
    IntakeCap = 1
    EventCap = 1
    ScenarioCap = 1
    Window = 2
    DraftWindow = 3
    Verdicts <- MCVerdicts
    NotifyAt = 2
    DraftAt = 1
SYMMETRY Symmetry
INVARIANTS SlotsAccounted CooldownBacked ReceivedInHand 
PROPERTY OncePerWindow
