-------------------------- MODULE FloorTurretProofs --------------------------
(* What TLAPS proves of FloorTurret, for every bound on its waits: the three  *)
(* properties of which steps rouse, interrupt or hang a turret, which are of  *)
(* steps from any state and need no invariant, and its type invariant.        *)
EXTENDS FloorTurret, TLAPS

USE DEF vars, switches, clocks, body

-----------------------------------------------------------------------------
(* A turret that is off or dead *)

\* No think rouses it.
LEMMA ThinkQuiet ==
    ASSUME QuietWhenOff, NEW settled \in BOOLEAN, Think(settled)
    PROVE  QuietWhenOff'
<1>. USE DEF QuietWhenOff, Hunting
<1>1. CASE Interrupted
  BY <1>1 DEF Interrupted, TipOver
<1>2. CASE AutoSearchThink \/ SearchThink
  BY <1>2 DEF AutoSearchThink, SearchThink, Runs
<1>3. CASE Deploy(settled)
  BY <1>3 DEF Deploy, Runs
<1>4. CASE ActiveThink \/ SuppressThink
  BY <1>4 DEF ActiveThink, SuppressThink, Runs
<1>5. CASE Retire(settled)
  BY <1>5 DEF Retire, Runs
<1>6. CASE TippedThink(settled)
  BY <1>6 DEF TippedThink, ReturnToLife, Expires
<1>7. CASE HeldThink \/ IdleThink
  BY <1>7 DEF HeldThink, IdleThink
<1>8. CASE SelfDestructThink \/ BreakThink
  BY <1>8 DEF SelfDestructThink, BreakThink
<1>. QED
  BY <1>1, <1>2, <1>3, <1>4, <1>5, <1>6, <1>7, <1>8 DEF Think

\* Only the input FireBullet rouses a turret that is off or dead
\* (OnlyFireBulletRouses): being quiet is kept by every other step.
THEOREM TurretSpecOnlyFireBulletRouses == TurretSpec => OnlyFireBulletRouses
<1>1. [Next]_vars => [QuietWhenOff /\ ~QuietWhenOff' => FireBullet]_vars
  <2>. SUFFICES ASSUME Next, QuietWhenOff, ~FireBullet PROVE QuietWhenOff'
    OBVIOUS
  <2>. USE DEF QuietWhenOff, Hunting
  <2>1. CASE Enable \/ Disable \/ SetAmmo
    BY <2>1 DEF Enable, Disable, SetAmmo
  <2>2. CASE InputSelfDestruct
    BY <2>2 DEF InputSelfDestruct
  <2>3. CASE OnPhysGunPickup \/ OnPhysGunDrop \/ OnTakeDamage
    BY <2>3 DEF OnPhysGunPickup, OnPhysGunDrop, OnTakeDamage
  <2>4. CASE Dissolved \/ Turned \/ Sighted
    BY <2>4 DEF Dissolved, Turned, Sighted
  <2>. QED
    BY <2>1, <2>2, <2>3, <2>4, ThinkQuiet DEF Next
<1>. QED
  BY <1>1, PTL DEF TurretSpec, OnlyFireBulletRouses

-----------------------------------------------------------------------------
(* A turret that is to blow up *)

\* No think interrupts the countdown: those that could are not the turret's.
LEMMA ThinkCounts ==
    ASSUME Counting, NEW settled \in BOOLEAN, Think(settled)
    PROVE  Counting'
<1>. USE DEF Counting
<1>1. CASE SelfDestructThink \/ BreakThink
  BY <1>1 DEF SelfDestructThink, BreakThink
<1>2. CASE ~(SelfDestructThink \/ BreakThink)
  <2>1. exists /\ ~destructing /\ destructing' = destructing
    BY <1>2 DEF Think, Interrupted, AutoSearchThink, Deploy, SearchThink, ActiveThink,
                SuppressThink, Retire, TippedThink, HeldThink, IdleThink, Runs
  <2>. QED
    BY <2>1
<1>. QED
  BY <1>1, <1>2

\* Only a pickup or the input FireBullet interrupts the countdown
\* (OnlyPickupOrBulletInterrupts).
THEOREM TurretSpecOnlyPickupOrBulletInterrupts ==
    TurretSpec => OnlyPickupOrBulletInterrupts
<1>1. [Next]_vars => [Counting /\ ~Counting' => OnPhysGunPickup \/ FireBullet]_vars
  <2>. SUFFICES ASSUME Next, Counting, ~OnPhysGunPickup, ~FireBullet PROVE Counting'
    OBVIOUS
  <2>. USE DEF Counting
  <2>1. CASE Enable \/ Disable \/ SetAmmo
    BY <2>1 DEF Enable, Disable, SetAmmo
  <2>2. CASE InputSelfDestruct
    BY <2>2 DEF InputSelfDestruct
  <2>3. CASE OnPhysGunDrop \/ OnTakeDamage
    BY <2>3 DEF OnPhysGunDrop, OnTakeDamage
  <2>4. CASE Dissolved \/ Turned \/ Sighted
    BY <2>4 DEF Dissolved, Turned, Sighted
  <2>. QED
    BY <2>1, <2>2, <2>3, <2>4, ThinkCounts DEF Next
<1>. QED
  BY <1>1, PTL DEF TurretSpec, OnlyPickupOrBulletInterrupts

-----------------------------------------------------------------------------
(* A turret that is on *)

\* Every think of a turret that is on asks for the next one.
LEMMA ThinkAwake ==
    ASSUME Awake, NEW settled \in BOOLEAN, Think(settled)
    PROVE  Awake'
<1>. USE DEF Awake
<1>1. CASE Interrupted
  BY <1>1 DEF Interrupted, TipOver
<1>2. CASE AutoSearchThink \/ SearchThink
  BY <1>2 DEF AutoSearchThink, SearchThink, Runs
<1>3. CASE Deploy(settled)
  BY <1>3 DEF Deploy, Runs
<1>4. CASE ActiveThink \/ SuppressThink
  BY <1>4 DEF ActiveThink, SuppressThink, Runs
<1>5. CASE Retire(settled)
  BY <1>5 DEF Retire, Runs
<1>6. CASE TippedThink(settled)
  <2>1. CASE ReturnToLife
    BY <1>6, <2>1 DEF TippedThink, ReturnToLife
  <2>2. ASSUME NEW faced, NEW finished, Expires(faced, finished) PROVE Awake'
    BY <1>6, <2>2 DEF TippedThink, Expires
  <2>. QED
    BY <1>6, <2>1, <2>2 DEF TippedThink
<1>7. CASE HeldThink \/ IdleThink
  BY <1>7 DEF HeldThink, IdleThink
<1>8. CASE SelfDestructThink \/ BreakThink
  BY <1>8 DEF SelfDestructThink, BreakThink
<1>. QED
  BY <1>1, <1>2, <1>3, <1>4, <1>5, <1>6, <1>7, <1>8 DEF Think

\* A turret that is on is left without a think only if it was enabled while it
\* lay on its side (OnlyLateEnableHangs).
THEOREM TurretSpecOnlyLateEnableHangs == TurretSpec => OnlyLateEnableHangs
<1>1. [Next]_vars => [Awake /\ ~Awake' => Enable /\ onSide /\ ~enabled]_vars
  <2>. SUFFICES ASSUME Next, Awake, ~(Enable /\ onSide /\ ~enabled) PROVE Awake'
    OBVIOUS
  <2>. USE DEF Awake
  <2>1. CASE Enable
    BY <2>1 DEF Enable
  <2>2. CASE Disable \/ SetAmmo
    BY <2>2 DEF Disable, SetAmmo
  <2>3. CASE InputSelfDestruct
    BY <2>3 DEF InputSelfDestruct
  <2>4. CASE FireBullet
    BY <2>4 DEF FireBullet
  <2>5. CASE OnPhysGunPickup \/ OnPhysGunDrop \/ OnTakeDamage
    BY <2>5 DEF OnPhysGunPickup, OnPhysGunDrop, OnTakeDamage
  <2>6. CASE Dissolved \/ Turned \/ Sighted
    BY <2>6 DEF Dissolved, Turned, Sighted
  <2>. QED
    BY <2>1, <2>2, <2>3, <2>4, <2>5, <2>6, ThinkAwake DEF Next
<1>. QED
  BY <1>1, PTL DEF TurretSpec, OnlyLateEnableHangs

-----------------------------------------------------------------------------
(* Types. A think is one transition out of twelve functions, and no two parts *)
(* of TurretTypeOK need the same of it, so each is kept on its own.            *)

\* The function to run and the activity are among those of the code.
NamesOK == think \in Functions /\ activity \in Activities

\* The fields that are bool in the code are.
FlagsOK ==
    /\ scheduled \in BOOLEAN /\ enabled \in BOOLEAN /\ autoStart \in BOOLEAN
    /\ dryFlag \in BOOLEAN /\ active \in BOOLEAN /\ alive \in BOOLEAN
    /\ destructing \in BOOLEAN /\ enemy \in BOOLEAN /\ held \in BOOLEAN
    /\ onSide \in BOOLEAN /\ seen \in BOOLEAN /\ exists \in BOOLEAN

\* No wait is longer than the longest one nor runs below zero.
ClocksOK == patience \in 0..Wait /\ thrash \in 0..Wait /\ countdown \in 0..Wait

\* A turret that plays its opening is noted as active.
OpenOK == activity = "Open" => active

\* The four parts together are the type invariant the runs check.
LEMMA TypeParts == TurretTypeOK <=> NamesOK /\ FlagsOK /\ ClocksOK /\ OpenOK
BY Zenon DEF TurretTypeOK, NamesOK, FlagsOK, ClocksOK, OpenOK

\* A turret comes into the world with all four.
LEMMA InitTypes == Init => NamesOK /\ FlagsOK /\ ClocksOK /\ OpenOK
<1>1. Init => NamesOK /\ OpenOK
  BY DEF Init, NamesOK, OpenOK, Functions, Activities
<1>2. Init => FlagsOK
  BY Zenon DEF Init, FlagsOK
<1>3. Init => ClocksOK
  BY WaitAssumption DEF Init, ClocksOK
<1>. QED
  BY <1>1, <1>2, <1>3

\* No step leaves the code's functions and activities.
LEMMA NamesKept == NamesOK /\ [Next]_vars => NamesOK'
<1>1. ASSUME NamesOK, NEW settled \in BOOLEAN, Think(settled)
      PROVE  NamesOK'
  BY <1>1 DEF NamesOK, Functions, Activities, Think, Interrupted, TipOver,
       AutoSearchThink, Deploy, SearchThink, ActiveThink, SuppressThink, Retire,
       TippedThink, ReturnToLife, Expires, HeldThink, IdleThink,
       SelfDestructThink, BreakThink
<1>2. ASSUME NamesOK, Next, ~\E settled \in BOOLEAN : Think(settled)
      PROVE  NamesOK'
  BY <1>2 DEF NamesOK, Functions, Activities, Next, Enable, Disable, SetAmmo,
       InputSelfDestruct, FireBullet, OnPhysGunPickup, OnPhysGunDrop,
       OnTakeDamage, Dissolved, Turned, Sighted
<1>3. ASSUME NamesOK, UNCHANGED vars
      PROVE  NamesOK'
  BY <1>3 DEF NamesOK
<1>. QED
  BY <1>1, <1>2, <1>3

\* No step leaves a flag without a value.
LEMMA FlagsKept == FlagsOK /\ [Next]_vars => FlagsOK'
<1>1. ASSUME FlagsOK, NEW settled \in BOOLEAN, Think(settled)
      PROVE  FlagsOK'
  <2>1. CASE Interrupted
    BY <1>1, <2>1, Zenon DEF FlagsOK, Interrupted, TipOver
  <2>2. CASE AutoSearchThink \/ SearchThink
    BY <1>1, <2>2, Zenon DEF FlagsOK, AutoSearchThink, SearchThink, Acquires, Runs
  <2>3. CASE Deploy(settled) \/ Retire(settled)
    BY <1>1, <2>3, Zenon DEF FlagsOK, Deploy, Retire, Runs
  <2>4. CASE ActiveThink \/ SuppressThink
    BY <1>1, <2>4, Zenon DEF FlagsOK, ActiveThink, SuppressThink, Runs
  <2>5. CASE TippedThink(settled)
    <3>1. CASE ReturnToLife
      BY <1>1, <2>5, <3>1, Zenon DEF FlagsOK, TippedThink, ReturnToLife
    <3>2. ASSUME NEW faced \in BOOLEAN, NEW finished \in BOOLEAN, Expires(faced, finished)
          PROVE  FlagsOK'
      BY <1>1, <2>5, <3>2, Zenon DEF FlagsOK, TippedThink, Expires
    <3> QED BY <1>1, <2>5, <3>1, <3>2 DEF TippedThink
  <2>6. CASE HeldThink \/ IdleThink
    BY <1>1, <2>6, Zenon DEF FlagsOK, HeldThink, IdleThink
  <2>7. CASE SelfDestructThink \/ BreakThink
    BY <1>1, <2>7, Zenon DEF FlagsOK, SelfDestructThink, BreakThink
  <2>. QED
    BY <1>1, <2>1, <2>2, <2>3, <2>4, <2>5, <2>6, <2>7 DEF Think
<1>2. ASSUME FlagsOK, Next, ~\E settled \in BOOLEAN : Think(settled)
      PROVE  FlagsOK'
  <2>1. CASE Enable \/ Disable \/ SetAmmo
    <3>1. Enable => FlagsOK'
      BY <1>2, ZenonT(30) DEF FlagsOK, Enable
    <3>2. Disable => FlagsOK'
      BY <1>2, ZenonT(30) DEF FlagsOK, Disable
    <3>3. SetAmmo => FlagsOK'
      BY <1>2, ZenonT(30) DEF FlagsOK, SetAmmo
    <3>. QED
      BY <2>1, <3>1, <3>2, <3>3
  <2>2. CASE InputSelfDestruct \/ FireBullet
    <3>1. InputSelfDestruct => FlagsOK'
      BY <1>2, ZenonT(30) DEF FlagsOK, InputSelfDestruct
    <3>2. FireBullet => FlagsOK'
      BY <1>2, ZenonT(30) DEF FlagsOK, FireBullet
    <3>. QED
      BY <2>2, <3>1, <3>2
  <2>3. CASE OnPhysGunPickup \/ OnPhysGunDrop
    <3>1. OnPhysGunPickup => FlagsOK'
      BY <1>2, ZenonT(30) DEF FlagsOK, OnPhysGunPickup
    <3>2. OnPhysGunDrop => FlagsOK'
      BY <1>2, ZenonT(30) DEF FlagsOK, OnPhysGunDrop
    <3>. QED
      BY <2>3, <3>1, <3>2
  <2>4. CASE OnTakeDamage \/ Dissolved
    <3>1. OnTakeDamage => FlagsOK'
      BY <1>2, ZenonT(30) DEF FlagsOK, OnTakeDamage
    <3>2. Dissolved => FlagsOK'
      BY <1>2, ZenonT(30) DEF FlagsOK, Dissolved
    <3>. QED
      BY <2>4, <3>1, <3>2
  <2>5. CASE Turned \/ Sighted
    <3>1. (~onSide) \in BOOLEAN /\ (~seen) \in BOOLEAN
      OBVIOUS
    <3>2. CASE Turned
      BY <1>2, <3>1, <3>2, Zenon DEF FlagsOK, Turned
    <3>3. CASE Sighted
      BY <1>2, <3>1, <3>3, Zenon DEF FlagsOK, Sighted
    <3>. QED
      BY <2>5, <3>2, <3>3
  <2>. QED
    BY <1>2, <2>1, <2>2, <2>3, <2>4, <2>5 DEF Next
<1>3. ASSUME FlagsOK, UNCHANGED vars
      PROVE  FlagsOK'
  BY <1>3, Zenon DEF FlagsOK
<1>. QED
  BY <1>1, <1>2, <1>3

\* A wait is started at most at its longest, and counted down while it lasts.
LEMMA ClocksKept == ClocksOK /\ [Next]_vars => ClocksOK'
<1>1. ASSUME ClocksOK, NEW settled \in BOOLEAN, Think(settled)
      PROVE  ClocksOK'
  BY <1>1, WaitAssumption DEF ClocksOK, Think, Interrupted, TipOver,
       AutoSearchThink, Deploy, SearchThink, ActiveThink, SuppressThink, Retire,
       TippedThink, ReturnToLife, Expires, HeldThink, IdleThink,
       SelfDestructThink, BreakThink
<1>2. ASSUME ClocksOK, Next, ~\E settled \in BOOLEAN : Think(settled)
      PROVE  ClocksOK'
  BY <1>2, WaitAssumption DEF ClocksOK, Next, Enable, Disable, SetAmmo,
       InputSelfDestruct, FireBullet, OnPhysGunPickup, OnPhysGunDrop,
       OnTakeDamage, Dissolved, Turned, Sighted
<1>3. ASSUME ClocksOK, UNCHANGED vars
      PROVE  ClocksOK'
  BY <1>3 DEF ClocksOK
<1>. QED
  BY <1>1, <1>2, <1>3

\* No step opens a turret, or closes m_bActive on one that opens.
LEMMA OpenKept == OpenOK /\ [Next]_vars => OpenOK'
<1>1. ASSUME OpenOK, NEW settled \in BOOLEAN, Think(settled)
      PROVE  OpenOK'
  BY <1>1 DEF OpenOK, Runs, Think, Interrupted, TipOver,
       AutoSearchThink, Deploy, SearchThink, ActiveThink, SuppressThink, Retire,
       TippedThink, ReturnToLife, Expires, HeldThink, IdleThink,
       SelfDestructThink, BreakThink
<1>2. ASSUME OpenOK, Next, ~\E settled \in BOOLEAN : Think(settled)
      PROVE  OpenOK'
  BY <1>2 DEF OpenOK, Next, Enable, Disable, SetAmmo,
       InputSelfDestruct, FireBullet, OnPhysGunPickup, OnPhysGunDrop,
       OnTakeDamage, Dissolved, Turned, Sighted
<1>3. ASSUME OpenOK, UNCHANGED vars
      PROVE  OpenOK'
  BY <1>3 DEF OpenOK
<1>. QED
  BY <1>1, <1>2, <1>3

\* The turret's fields keep their types, and one that plays its opening is
\* noted as active (TurretTypeOK): m_bActive, by which the self-destruction tells
\* whether the turret must be deployed first, is never behind the animation.
THEOREM TurretSpecTypeOK == TurretSpec => []TurretTypeOK
<1>1. Init => TurretTypeOK
  BY TypeParts, InitTypes
<1>2. TurretTypeOK /\ [Next]_vars => TurretTypeOK'
  <2>1. NamesOK' /\ FlagsOK' /\ ClocksOK' /\ OpenOK' => TurretTypeOK'
    BY Zenon DEF TurretTypeOK, NamesOK, FlagsOK, ClocksOK, OpenOK
  <2>. QED
    BY <2>1, TypeParts, NamesKept, FlagsKept, ClocksKept, OpenKept
<1>. QED
  BY <1>1, <1>2, PTL DEF TurretSpec
=============================================================================
