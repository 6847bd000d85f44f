\* Two groups, one portal each, a gun that changes hands, a volume, and a spot
\* where no portal fits.
CONSTANTS
    a = a
    c = c
    g0 = g0
    g1 = g1
    left = left
    middle = middle
    right = right
    volume = volume
    NoGun = NoGun
    NoGroup = NoGroup
    Closed = Closed
    Portals = {a, c}
    Guns = {gun}
    Groups = {g0, g1}
    Spots = {left, middle, right}
    Volumes = {volume}
    GroupOf <- OneEach
    DefaultGroup = g0
    Fits <- LeftHalf
    Adjacent <- Neighbours
    Core <- HoldsLeftEnd
    Reach <- ReachesMiddle
    BumpSteps = 4
    GunsChange = TRUE
SPECIFICATION GunSpec
INVARIANTS
    GunTypeOK
    NoneInVolume
    StandsOnSurface
PROPERTIES
    OnlyForeignShotsOverlap
CHECK_DEADLOCK FALSE
