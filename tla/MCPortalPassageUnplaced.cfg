\* Portals that are open before NewLocation has placed them.
CONSTANTS
    Portals = {p1, p2}
    Groups = {g1}
    Spots = {s1}
    NoPortal = NoPortal
    Nowhere = Nowhere
    NoEntity = NoEntity
    player = player
    box = box
    lid = lid
    Entities <- OneEach
    Players <- ThePlayers
    Props <- JustBox
    Child <- NoFamily
    MaxClones = 8
    OpenUnplaced = TRUE
SPECIFICATION PassageSpec
SYMMETRY Symmetry
INVARIANTS
    PlacedBeforeUse
CHECK_DEADLOCK FALSE
