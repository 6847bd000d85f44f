\* One turret, whose searches, thrashings and countdowns last one think.
CONSTANT Wait = 1
SPECIFICATION TurretSpec
INVARIANTS
    TurretTypeOK
PROPERTIES
    OnlyFireBulletRouses
    OnlyPickupOrBulletInterrupts
    OnlyLateEnableHangs
    ComesToRest
CHECK_DEADLOCK FALSE
