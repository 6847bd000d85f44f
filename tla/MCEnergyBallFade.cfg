\* A launcher with one ball that does not expire, and one input to balls.
CONSTANTS
    BallCount = 1
    BallLifetime <- Infinite
    MinLifeAfterPortal = 2
    RespawnTime = 0
    DefaultRespawn = 1
    RemoveDelay = 2
    MaxInputs = 1
    MaxOff = 2
SPECIFICATION BallSpec
PROPERTIES
    FadedBallDies
CHECK_DEADLOCK FALSE
