SPECIFICATION Spec
CONSTANTS
    c1 = c1
    p1 = p1
    p2 = p2
    Nobody = Nobody
    Units = {c1, p1, p2}
    Threatable = {c1}
    Controlled = {p1, p2}
    WithAI = {c1, p1, p2}
    Evading = {c1, p2}
    Vanishing = {p1}
    Friends = {}
    Reactions <- HelpAndEvade
    ReactsInEndCombat = FALSE
    MaxReactions = 3
    Leaving = {p1}
    Failing = {c1}
    Hiding = {p2}
    PvPTimeout = 2
INVARIANTS
    TypeOK
    ReferencesAgree
    ThreatImpliesCombat
    NothingDangles
    VictimAvailable
    RemovedIsClean
