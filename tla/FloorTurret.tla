---------------------------- MODULE FloorTurret ----------------------------
(* The floor turret (CNPC_Portal_FloorTurret, game/server/portal/             *)
(* npc_portal_turret_floor.cpp, with its base CNPC_FloorTurret, game/server/  *)
(* hl2/npc_turret_floor.cpp): a state machine whose state is the function     *)
(* that was last given to SetThink. A think is called once when it is due; it *)
(* has to ask for the next one (SetNextThink), and inputs, players and        *)
(* physics change the function and the flags between two calls.               *)
(*                                                                            *)
(* What the turret sees and how it lies are open. Times are counted in the    *)
(* thinks that compare them, and may run out sooner.                          *)
EXTENDS Naturals

CONSTANT Wait \* bound: thinks a search, a thrashing or a countdown has at most

ASSUME WaitAssumption == Wait \in Nat \ {0}

VARIABLES
    think,       \* m_pfnThink
    scheduled,   \* whether m_nNextThinkTick is set
    enabled,     \* m_bEnabled
    autoStart,   \* m_bAutoStart
    dryFlag,     \* the spawnflag SF_FLOOR_TURRET_OUT_OF_AMMO
    active,      \* m_bActive
    alive,       \* m_lifeState = LIFE_ALIVE
    destructing, \* m_bSelfDestructing
    enemy,       \* whether GetEnemy() is somebody
    activity,    \* GetActivity(), as far as it is asked for
    patience,    \* thinks until curtime exceeds m_flLastSight
    thrash,      \* thinks until curtime reaches m_flThrashTime
    countdown,   \* thinks until SELF_DESTRUCT_DURATION is over
    held,        \* carried by a player: m_bCarriedByPlayer, FVPHYSICS_PLAYER_HELD
    onSide,      \* OnSide()
    seen,        \* whether BestEnemy, or the objects sensed, would be an enemy
    exists

switches == <<enabled, autoStart, dryFlag>>
clocks == <<patience, thrash, countdown>>
body == <<held, onSide, seen, exists>>
vars == <<think, scheduled, switches, active, alive, destructing, enemy, activity,
          clocks, body>>

Functions == {"AutoSearch", "Deploy", "Search", "Active", "Suppress", "Retire", "Tipped",
              "Held", "Inactive", "Disabled", "SelfDestruct", "Break", "None"}
Activities == {"Open", "Close", "ClosedIdle", "Other"}

\* Spawn. The spawnflag for autostart is forced; a turret on its side starts
\* disabled, whatever its flags.
Init ==
    /\ enabled \in BOOLEAN /\ autoStart = TRUE /\ dryFlag \in BOOLEAN
    /\ onSide \in BOOLEAN
    /\ think = IF enabled /\ ~onSide THEN "AutoSearch" ELSE "Disabled"
    /\ scheduled = TRUE
    /\ active = FALSE /\ alive = TRUE /\ destructing = FALSE /\ enemy = FALSE
    /\ activity = "Other"
    /\ patience = 0 /\ thrash = 0 /\ countdown = 0
    /\ held = FALSE /\ seen = FALSE /\ exists = TRUE

-----------------------------------------------------------------------------
(* Thinks. PhysicsRunSpecificThink clears the next think before it calls the  *)
(* function, so one that does not ask for another is not called again.        *)

\* PreThink tells the function that the turret lies on its side.
Tips == onSide /\ ~held

\* The end of PreThink: the turret thrashes, or, out of ammo, is to be
\* inactive, for which no think is asked.
TipOver ==
    /\ alive' = FALSE
    /\ IF dryFlag THEN /\ think' = "Inactive" /\ scheduled' = FALSE
                       /\ UNCHANGED thrash
       ELSE think' = "Tipped" /\ scheduled' = TRUE /\ thrash' = Wait

\* A function that begins with PreThink is called.
Runs(t) == exists /\ think = t /\ scheduled /\ ~Tips

Interrupted ==
    /\ exists /\ scheduled /\ Tips
    /\ think \in {"AutoSearch", "Deploy", "Search", "Active", "Suppress", "Retire"}
    /\ TipOver
    /\ UNCHANGED <<switches, active, destructing, enemy, activity, patience, countdown, body>>

\* Keeps an enemy that is alive; else HackFindEnemy takes what is seen.
Acquires == IF seen THEN {TRUE} ELSE {enemy, FALSE}

AutoSearchThink ==
    /\ Runs("AutoSearch")
    /\ enemy' \in Acquires
    /\ think' = IF enemy' THEN "Deploy" ELSE "AutoSearch"
    /\ UNCHANGED <<scheduled, switches, active, alive, destructing, activity, clocks, body>>

\* Mutant: the turret is not noted as active.
DeployUnnoted(settled) ==
    /\ Runs("Deploy")
    /\ IF activity # "Open" THEN activity' = "Open" /\ think' = "Deploy"
       ELSE IF settled THEN activity' = "Other" /\ think' = "Search"
       ELSE UNCHANGED <<activity, think>>
    /\ patience' = Wait
    /\ UNCHANGED <<active, scheduled, switches, alive, destructing, enemy, thrash, countdown, body>>

Deploy(settled) ==
    /\ Runs("Deploy")
    /\ IF activity # "Open"
       THEN active' = TRUE /\ activity' = "Open" /\ think' = "Deploy"
       ELSE /\ UNCHANGED active
            /\ IF settled THEN activity' = "Other" /\ think' = "Search"
               ELSE UNCHANGED <<activity, think>>
    /\ patience' = Wait
    /\ UNCHANGED <<scheduled, switches, alive, destructing, enemy, thrash, countdown, body>>

\* Mutant: the turret searches anew at each think.
SearchAnew ==
    /\ Runs("Search")
    /\ activity' = "Other"
    /\ enemy' \in Acquires
    /\ \/ enemy' /\ think' = "Active" /\ patience' = 0
       \/ ~enemy' /\ patience = 0 /\ think' = "Retire" /\ patience' = 0
       \/ ~enemy' /\ patience' = Wait /\ UNCHANGED think
    /\ UNCHANGED <<scheduled, switches, active, alive, destructing, thrash, countdown, body>>

SearchThink ==
    /\ Runs("Search")
    /\ activity' = "Other"
    /\ enemy' \in Acquires
    /\ \/ enemy' /\ think' = "Active" /\ patience' = 0
       \/ ~enemy' /\ think' = "Retire" /\ patience' = 0
       \/ ~enemy' /\ patience > 0 /\ patience' = patience - 1 /\ UNCHANGED think
    /\ UNCHANGED <<scheduled, switches, active, alive, destructing, thrash, countdown, body>>

\* HackFindEnemy at each think. An enemy out of the view cone is searched for;
\* one that is hidden is still fired at, where it was; else the turret fires,
\* if it points at the enemy and may.
ActiveThink ==
    /\ Runs("Active")
    /\ \/ /\ think' = "Search" /\ enemy' = FALSE /\ patience' = Wait
          /\ UNCHANGED activity
       \/ /\ active /\ seen
          /\ think' = "Suppress" /\ enemy' = FALSE /\ patience' = Wait
          /\ UNCHANGED activity
       \/ /\ active /\ seen
          /\ enemy' = TRUE /\ activity' \in {activity, "Other"}
          /\ UNCHANGED <<think, patience>>
    /\ UNCHANGED <<scheduled, switches, active, alive, destructing, thrash, countdown, body>>

\* The condition is as it stands: without an enemy the turret is active again.
SuppressThink ==
    /\ Runs("Suppress")
    /\ \/ ~seen /\ think' = "Active" /\ enemy' = FALSE /\ UNCHANGED <<activity, patience>>
       \/ /\ seen
          /\ think' = "Search" /\ enemy' = FALSE /\ patience' = Wait
          /\ UNCHANGED activity
       \/ /\ seen /\ patience > 0
          /\ patience' = patience - 1 /\ enemy' = TRUE
          /\ activity' \in {activity, "Other"}
          /\ UNCHANGED think
    /\ UNCHANGED <<scheduled, switches, active, alive, destructing, thrash, countdown, body>>

\* Mutant: a turret that has retired always searches again.
RetireToSearch(settled) ==
    /\ Runs("Retire")
    /\ IF activity = "Close" /\ settled
       THEN /\ active' = FALSE /\ activity' = "ClosedIdle" /\ patience' = 0
            /\ think' = "AutoSearch"
       ELSE /\ activity' \in IF activity = "Close" THEN {activity}
                             ELSE IF settled THEN {"Close"} ELSE {"Other"}
            /\ UNCHANGED <<active, patience, think>>
    /\ UNCHANGED <<scheduled, switches, alive, destructing, enemy, thrash, countdown, body>>

\* The turret turns to the front, closes, and searches again if it may.
Retire(settled) ==
    /\ Runs("Retire")
    /\ IF activity = "Close" /\ settled
       THEN /\ active' = FALSE /\ activity' = "ClosedIdle" /\ patience' = 0
            /\ think' = IF autoStart THEN "AutoSearch" ELSE "Disabled"
       ELSE /\ activity' = IF activity = "Close" THEN activity
                           ELSE IF settled THEN "Close" ELSE "Other"
            /\ UNCHANGED <<active, patience, think>>
    /\ UNCHANGED <<scheduled, switches, alive, destructing, enemy, thrash, countdown, body>>

\* Set upright while it thrashes or closes. Enable, which it calls, does
\* nothing for a turret that is to blow up.
ReturnToLife ==
    /\ alive' = TRUE /\ thrash' = 0
    /\ IF destructing THEN UNCHANGED <<enabled, autoStart, think>>
       ELSE enabled' = TRUE /\ autoStart' = TRUE /\ think' = "Deploy"
    /\ UNCHANGED <<dryFlag, active, activity, patience>>

\* It thrashes, turns to the front, closes (Event_Killed), and when it has
\* closed is inactive; or opens once more if it does not face the front then.
Expires(faced, finished) ==
    /\ \/ /\ thrash > 0 /\ thrash' = thrash - 1
          /\ activity' \in {activity, "Other"}
          /\ UNCHANGED <<think, active, alive, patience>>
       \/ /\ activity # "Close"
          /\ activity' = IF faced THEN "Close" ELSE "Other"
          /\ alive' = (alive /\ ~faced)
          /\ UNCHANGED <<think, active, patience, thrash>>
       \/ /\ activity = "Close" /\ finished
          /\ active' = FALSE /\ activity' = "ClosedIdle" /\ patience' = 0
          /\ think' = IF faced THEN "Inactive" ELSE "Tipped"
          /\ UNCHANGED <<alive, thrash>>
       \/ /\ activity = "Close" /\ ~finished
          /\ UNCHANGED <<think, active, alive, activity, patience, thrash>>
    /\ UNCHANGED switches

\* Upright is not enough: it must also stand on something.  Ground, barrel and
\* animation are each on their own unless all has settled.
TippedThink(settled) ==
    /\ exists /\ think = "Tipped" /\ scheduled
    /\ enemy' = FALSE
    /\ \E grounded, faced, finished \in {settled, TRUE} :
          \/ ~onSide /\ grounded /\ ReturnToLife
          \/ (onSide \/ ~grounded) /\ Expires(faced, finished)
    /\ UNCHANGED <<scheduled, destructing, countdown, body>>

HeldThink ==
    /\ exists /\ think = "Held" /\ scheduled
    /\ enemy' = FALSE
    /\ think' = IF held THEN "Held" ELSE IF alive THEN "Active" ELSE "Inactive"
    /\ activity' \in {activity, "Other"}
    /\ UNCHANGED <<scheduled, switches, active, alive, destructing, clocks, body>>

\* InactiveThink does nothing but ask for the next one ("Never return to
\* life!"); nor does DisabledThink, until the turret lies on its side. A think
\* without a function is due once.
IdleThink ==
    /\ exists /\ scheduled
    /\ \/ think = "Disabled" /\ onSide /\ think' = "None" /\ UNCHANGED scheduled
       \/ think = "None" /\ scheduled' = FALSE /\ UNCHANGED think
    /\ UNCHANGED <<switches, active, alive, destructing, enemy, activity, clocks, body>>

\* Mutant: the countdown lets PreThink tip the turret over.
SelfDestructTipping ==
    /\ exists /\ think = "SelfDestruct" /\ scheduled
    /\ \/ Tips /\ TipOver /\ UNCHANGED countdown
       \/ /\ ~Tips /\ countdown > 0 /\ countdown' = countdown - 1
          /\ UNCHANGED <<think, scheduled, alive, thrash>>
       \/ /\ ~Tips /\ countdown = 0 /\ think' = "Break"
          /\ UNCHANGED <<countdown, scheduled, alive, thrash>>
    /\ UNCHANGED <<switches, active, destructing, enemy, activity, patience, body>>

SelfDestructThink ==
    /\ exists /\ think = "SelfDestruct" /\ scheduled
    /\ \/ countdown > 0 /\ countdown' = countdown - 1 /\ UNCHANGED think
       \/ countdown = 0 /\ think' = "Break" /\ UNCHANGED countdown
    /\ UNCHANGED <<scheduled, switches, active, alive, destructing, enemy, activity,
                   patience, thrash, body>>

BreakThink ==
    /\ exists /\ think = "Break" /\ scheduled
    /\ exists' = FALSE
    /\ UNCHANGED <<think, scheduled, switches, active, alive, destructing, enemy, activity,
                   clocks, held, onSide, seen>>

\* A think; settled, if the barrel has come to its goal, the animation to its
\* end and the turret to the ground.
Think(settled) ==
    \/ Interrupted
    \/ AutoSearchThink \/ Deploy(settled) \/ SearchThink
    \/ ActiveThink \/ SuppressThink \/ Retire(settled)
    \/ TippedThink(settled) \/ HeldThink \/ IdleThink
    \/ SelfDestructThink \/ BreakThink

-----------------------------------------------------------------------------
(* The map's inputs *)

\* Mutant: its ability to open by itself is not given back.
EnableOnce ==
    /\ exists /\ ~destructing
    /\ enabled' = TRUE
    /\ IF onSide \/ ~alive THEN UNCHANGED <<think, scheduled>>
       ELSE think' = "Deploy" /\ scheduled' = TRUE
    /\ UNCHANGED <<autoStart, dryFlag, active, alive, destructing, enemy, activity, clocks, body>>

\* Enable, and Toggle of a turret that is off. The turret is enabled even if
\* it cannot be deployed.
Enable ==
    /\ exists /\ ~destructing
    /\ enabled' = TRUE
    /\ IF onSide \/ ~alive THEN UNCHANGED <<autoStart, think, scheduled>>
       ELSE autoStart' = TRUE /\ think' = "Deploy" /\ scheduled' = TRUE
    /\ UNCHANGED <<dryFlag, active, alive, destructing, enemy, activity, clocks, body>>

\* Disable, and Toggle of a turret that is on. Disabled twice, it does not
\* finish retiring.
Disable ==
    /\ exists /\ ~destructing /\ ~onSide /\ alive
    /\ IF enabled
       THEN /\ enabled' = FALSE /\ autoStart' = FALSE /\ enemy' = FALSE
            /\ think' = "Retire" /\ scheduled' = TRUE
       ELSE think' = "Disabled" /\ UNCHANGED <<enabled, autoStart, enemy, scheduled>>
    /\ UNCHANGED <<dryFlag, active, alive, destructing, activity, clocks, body>>

\* DepleteAmmo and RestoreAmmo.
SetAmmo ==
    /\ exists
    /\ dryFlag' = ~dryFlag
    /\ UNCHANGED <<think, scheduled, enabled, autoStart, active, alive, destructing, enemy,
                   activity, clocks, body>>

\* A turret that is not active is deployed on the spot: PreThink may find it
\* on its side.
InputSelfDestruct ==
    /\ exists
    /\ \/ active /\ UNCHANGED <<active, alive, activity, patience, thrash>>
       \/ /\ ~active /\ Tips
          /\ alive' = FALSE /\ thrash' = IF dryFlag THEN thrash ELSE Wait
          /\ UNCHANGED <<active, activity, patience>>
       \/ /\ ~active /\ ~Tips
          /\ active' = TRUE /\ activity' = "Open" /\ patience' = Wait
          /\ UNCHANGED <<alive, thrash>>
    /\ destructing' = TRUE /\ countdown' = Wait
    /\ think' = "SelfDestruct" /\ scheduled' = TRUE
    /\ UNCHANGED <<switches, enemy, body>>

\* The target named is found, and m_flShotTime has passed. Nothing is asked of
\* the turret, and no think is asked for.
FireBullet ==
    /\ exists
    /\ think' = "Suppress" /\ activity' \in {activity, "Other"}
    /\ UNCHANGED <<scheduled, switches, active, alive, destructing, enemy, clocks, body>>

-----------------------------------------------------------------------------
(* Players and physics *)

OnPhysGunPickup ==
    /\ exists /\ ~held
    /\ held' = TRUE
    /\ IF alive /\ enabled THEN active' = TRUE /\ think' = "Held"
       ELSE UNCHANGED <<active, think>>
    /\ UNCHANGED <<scheduled, switches, alive, destructing, enemy, activity, clocks, onSide, seen, exists>>

OnPhysGunDrop ==
    /\ exists /\ held
    /\ held' = FALSE
    /\ UNCHANGED <<think, scheduled, switches, active, alive, destructing, enemy, activity,
                   clocks, onSide, seen, exists>>

\* Something knocks it over, or sets it upright.
Turned ==
    /\ exists
    /\ onSide' = ~onSide
    /\ UNCHANGED <<think, scheduled, switches, active, alive, destructing, enemy, activity,
                   clocks, held, seen, exists>>

\* Somebody comes into the turret's sight, or leaves it.
Sighted ==
    /\ exists
    /\ seen' = ~seen
    /\ UNCHANGED <<think, scheduled, switches, active, alive, destructing, enemy, activity,
                   clocks, held, onSide, exists>>

\* A closed turret that is hit looks around.
OnTakeDamage ==
    /\ exists
    /\ patience' = Wait
    /\ think' = IF alive /\ enabled /\ autoStart /\ activity = "ClosedIdle" /\ ~destructing
                THEN "Deploy" ELSE think
    /\ UNCHANGED <<scheduled, switches, active, alive, destructing, enemy, activity, thrash,
                   countdown, body>>

\* A cleanser takes the turret and leaves a prop that dissolves in its place.
Dissolved ==
    /\ exists
    /\ exists' = FALSE /\ held' = FALSE
    /\ UNCHANGED <<think, scheduled, switches, active, alive, destructing, enemy, activity,
                   clocks, onSide, seen>>

Next ==
    \/ \E settled \in BOOLEAN : Think(settled)
    \/ Enable \/ Disable \/ SetAmmo \/ InputSelfDestruct \/ FireBullet
    \/ OnPhysGunPickup \/ OnPhysGunDrop \/ OnTakeDamage \/ Dissolved
    \/ Turned \/ Sighted

\* Thinks that are due are called, and a barrel that turns to its goal, or an
\* animation, comes to its end, whatever the turret is doing.
Fairness ==
    \A a \in Activities :
        SF_vars(activity = a /\ Think(TRUE))

TurretSpec == Init /\ [][Next]_vars /\ Fairness

-----------------------------------------------------------------------------
(* Properties *)

\* Types, and what the self-destruction relies on when it deploys a turret that
\* is not active: it is not opening yet.
TurretTypeOK ==
    /\ think \in Functions /\ activity \in Activities
    /\ scheduled \in BOOLEAN /\ enabled \in BOOLEAN /\ autoStart \in BOOLEAN
    /\ dryFlag \in BOOLEAN /\ active \in BOOLEAN /\ alive \in BOOLEAN
    /\ destructing \in BOOLEAN /\ enemy \in BOOLEAN /\ held \in BOOLEAN
    /\ onSide \in BOOLEAN /\ seen \in BOOLEAN /\ exists \in BOOLEAN
    /\ patience \in 0..Wait /\ thrash \in 0..Wait /\ countdown \in 0..Wait
    /\ activity = "Open" => active

Hunting == {"AutoSearch", "Deploy", "Search", "Active", "Suppress", "Held"}

\* A turret that is off looks for nobody, nor will when it has retired; nor
\* does a dead one, which does not even retire.
QuietWhenOff ==
    /\ ~enabled => think \notin Hunting /\ (think = "Retire" => ~autoStart)
    /\ ~alive => think \notin Hunting \cup {"Retire"}

\* Whatever is done to a turret that is off or dead, only the input FireBullet
\* rouses it: with it a turret that started inactive is even back at searching
\* when it retires, since Spawn has forced its autostart.
OnlyFireBulletRouses == [][QuietWhenOff /\ ~QuietWhenOff' => FireBullet]_vars

Counting == destructing /\ exists => think \in {"SelfDestruct", "Break"} /\ scheduled

\* "We're gonna blow up, so don't interrupt us": only a player who picks the
\* turret up, and the input FireBullet, interrupt its countdown; nothing takes
\* it up again.
OnlyPickupOrBulletInterrupts ==
    [][Counting /\ ~Counting' => OnPhysGunPickup \/ FireBullet]_vars

Awake ==
    enabled /\ alive /\ ~destructing /\ exists =>
        autoStart /\ scheduled /\ think \notin {"Disabled", "None"}

\* A turret that is on and alive always has its next think. The only way to
\* one that has none is to enable a turret that was tipped over while it was
\* off: Enable only sets the flag, and nobody looks at it when it stands again
\* ("Always allow us to come back to life, even if not right now").
OnlyLateEnableHangs ==
    [][Awake /\ ~Awake' => Enable /\ onSide /\ ~enabled]_vars

\* Nothing more to do, or nothing to do it with; or a turret that was to blow
\* up, was interrupted, fell over and was set upright, which Enable refuses.
AtRest ==
    \/ ~exists \/ ~scheduled
    \/ think \in {"AutoSearch", "Disabled", "Inactive"}
    \/ think = "Held" /\ held
    \/ think = "Tipped" /\ destructing /\ ~onSide

\* A turret that sees nobody and is left alone comes to rest: it retires, lies
\* still, or blows up. So the suppressing and searching it does go round end.
ComesToRest ==
    <>[]~seen /\ <>[][\E settled \in BOOLEAN : Think(settled)]_vars => <>[]AtRest
=============================================================================
