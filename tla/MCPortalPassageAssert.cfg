\* The assertion in Touch that a portal without a passage owns nothing.
CONSTANTS
    Portals = {p1, p2, p3}
    Groups = {g1}
    Spots = {s1}
    NoPortal = NoPortal
    Nowhere = Nowhere
    NoEntity = NoEntity
    player = player
    box = box
    lid = lid
    Entities <- OneEach
    Players <- ThePlayers
    Props <- JustBox
    Child <- NoFamily
    MaxClones = 8
    OpenUnplaced = FALSE
SPECIFICATION PassageSpec
SYMMETRY Symmetry
INVARIANTS
    UnlinkedOwnsNothing
CHECK_DEADLOCK FALSE
