\* A gun that is picked up or removed while a shot is in flight.
CONSTANTS
    a = a
    c = c
    g0 = g0
    g1 = g1
    left = left
    middle = middle
    right = right
    volume = volume
    NoGun = NoGun
    NoGroup = NoGroup
    Closed = Closed
    Portals = {a, c}
    Guns = {gun}
    Groups = {g0, g1}
    Spots = {left, middle, right}
    Volumes = {volume}
    GroupOf <- OneEach
    DefaultGroup = g0
    Fits <- LeftHalf
    Adjacent <- Neighbours
    Core <- HoldsLeftEnd
    Reach <- ReachesMiddle
    BumpSteps = 4
    GunsChange = TRUE
SPECIFICATION GunSpec
INVARIANTS
    NoOverlap
CHECK_DEADLOCK FALSE
