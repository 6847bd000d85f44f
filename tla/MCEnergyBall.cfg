\* A launcher with one ball that expires, and two inputs to balls.
CONSTANTS
    BallCount = 1
    BallLifetime = 3
    MinLifeAfterPortal = 2
    RespawnTime = 0
    DefaultRespawn = 1
    RemoveDelay = 2
    MaxInputs = 2
    MaxOff = 2
SPECIFICATION BallSpec
INVARIANTS
    BallTypeOK
PROPERTIES
    BallsConserved
    BallComesBack
    FadedBallDies
CHECK_DEADLOCK FALSE
