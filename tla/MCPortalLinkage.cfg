CONSTANTS
    Portals = {p1, p2, p3}
    Groups = {g1, g2}
    Spots = {s1, s2}
    NoPortal = NoPortal
SPECIFICATION Spec
SYMMETRY Symmetry
INVARIANTS
    TypeOK
    LinkSymmetric
    LinkedAreActive
    SimulatorAgrees
    OppositeColours
    MatrixFresh
PROPERTIES
    OnlyDestructionStrands
    PassageKept
    PairingSpec
CHECK_DEADLOCK FALSE
