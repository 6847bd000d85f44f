\* Three portals at one place, and a box with a lid parented to it; one shadow
\* clone at most, so that the limit is hit and left again; nothing else
\* stands in a clone's way.
CONSTANTS
    Portals = {p1, p2, p3}
    Groups = {g1}
    Spots = {s1}
    NoPortal = NoPortal
    Nowhere = Nowhere
    NoEntity = NoEntity
    player = player
    box = box
    lid = lid
    Entities <- WithLid
    Players <- ThePlayers
    Props <- WithLid
    Child <- LidOnBox
    MaxClones = 1
    OpenUnplaced = FALSE
SPECIFICATION PassageSpec
SYMMETRY Symmetry
INVARIANTS
    OneOwner
    AttachmentAgrees
    PassageTypeOK
    CountAgrees
    NoStrayClone
    EnvironmentIsOwner
    OwnersAreOpen
PROPERTIES
    OnlyDestructionLeavesOwned
CHECK_DEADLOCK FALSE
