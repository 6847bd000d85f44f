\* Two liquid portals, a player and a box.
CONSTANTS
    Liquids = {l1, l2}
    NoLiquid = NoLiquid
    player = player
    box = box
    Entities <- Both
    Players <- ThePlayers
    Removed = Removed
    MaxFill = 1
SPECIFICATION LiquidSpec
INVARIANTS
    LiquidTypeOK
    LinksAreMutual
    SentOnce
PROPERTIES
    OnlyDestructionLeavesMatrix
    CoveredGoAtOnce
    OnlyTeleportForgets
    FillEnds
CHECK_DEADLOCK FALSE
