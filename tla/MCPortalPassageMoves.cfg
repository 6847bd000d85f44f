\* Two portals that move between two places, and a box with a lid parented
\* to it, which may be on the other side; the lid and the player may be
\* refused a clone.
CONSTANTS
    Portals = {p1, p2}
    Groups = {g1}
    Spots = {s1, s2}
    NoPortal = NoPortal
    Nowhere = Nowhere
    NoEntity = NoEntity
    player = player
    box = box
    lid = lid
    Entities <- WithLid
    Players <- ThePlayers
    Props <- JustBox
    Child <- LidOnBox
    MaxClones = 8
    OpenUnplaced = FALSE
SPECIFICATION PassageSpec
SYMMETRY Symmetry
INVARIANTS
    ClonesMirror
    SimulatorInPlace
CHECK_DEADLOCK FALSE
