----------------------------- MODULE EnergyBall -----------------------------
(* A launcher of energy balls (CEnergyBallLauncher, a CFuncCombineBallSpawner) *)
(* and the balls it has launched (CPropEnergyBall, a CPropCombineBall).        *)
(*                                                                             *)
(* A launcher that has started never launches by itself again: a ball that is  *)
(* lost leaves a time in m_BallRespawnTime, and BallThink turns it into a new   *)
(* ball. So every way to lose a ball must leave exactly one such time.         *)
(*                                                                             *)
(* A unit of time is the interval between two thinks of the launcher. Times    *)
(* are kept as the time that is left; those of m_BallRespawnTime do not run     *)
(* down while the launcher is off, when the code takes curtime off them.       *)
EXTENDS Integers, Sequences, FiniteSets

CONSTANTS
    BallCount,          \* m_nBallCount, balls the launcher starts with
    BallLifetime,       \* m_fBallLifetime, negative for a ball that does not expire
    MinLifeAfterPortal, \* m_fMinLifeAfterPortal
    RespawnTime,        \* m_flBallRespawnTime, negative for no respawn
    DefaultRespawn,     \* the respawn time that stands for a keyvalue of 0
    RemoveDelay,        \* what an exploded ball waits for its trails
    MaxInputs,          \* bound: inputs the map sends to balls, or for a ball
    MaxOff              \* bound: times off longer than this are not told apart

ASSUME BallAssumption ==
    /\ {BallLifetime, RespawnTime} \subseteq Int
    /\ {BallCount, MinLifeAfterPortal, MaxInputs, MaxOff} \subseteq Nat
    /\ {DefaultRespawn, RemoveDelay} \subseteq Nat \ {0}

VARIABLES
    balls,     \* the balls that exist
    waits,     \* m_BallRespawnTime
    enabled,   \* m_bEnabled
    off,       \* time since m_flDisableTime; 0 while the launcher is on
    think,     \* the launcher's think: "none", "set" for the next tick, or "due"
    inputs     \* inputs sent so far

vars == <<balls, waits, enabled, off, think, inputs>>

\* GetNextThink of a context that is not pending.
Never == -1

(* life: ExplodeTimerContext. remove: RemoveContext. spent: the ball has        *)
(* exploded (MOVETYPE_NONE). solid: it is touched. faded: DieThink is set.      *)
(* gone: it is in the delete list.                                             *)
NewBall == [life |-> IF BallLifetime >= 0 THEN BallLifetime ELSE Never,
            remove |-> Never, spent |-> FALSE, solid |-> TRUE,
            faded |-> FALSE, gone |-> FALSE]

Init ==
    /\ balls = <<>>
    /\ waits = [i \in 1..BallCount |-> 0]
    /\ enabled \in BOOLEAN
    /\ off = 0
    /\ think = IF enabled THEN "set" ELSE "none"
    /\ inputs = 0

RespawnDelay == IF RespawnTime = 0 THEN DefaultRespawn ELSE RespawnTime

\* What is left of the list s when only the places of K are kept, in their order.
Picked(s, K) ==
    LET place(n) == CHOOSE i \in K : Cardinality({j \in K : j <= i}) = n
    IN  [n \in 1..Cardinality(K) |-> s[place(n)]]

\* m_BallRespawnTime after RespawnBallPostExplosion: what m_flDisableTime takes
\* off curtime is the time the launcher has been off.
RespawnBallPostExplosion ==
    IF RespawnTime < 0 THEN waits ELSE Append(waits, RespawnDelay + off)

\* A ball that is seen and moves.
Flying(b) == ~b.spent /\ ~b.gone

\* The ball turns itself off and waits for its removal.
Exploded(b) == [b EXCEPT !.spent = TRUE, !.solid = FALSE, !.remove = RemoveDelay]

-----------------------------------------------------------------------------
(* The thinks of a ball.                                                       *)

Thinks(i) == i \in DOMAIN balls /\ ~balls[i].gone

\* The timer of its life runs out. Unlike DoExplosion, which it overrides, the
\* function does not ask whether the ball has exploded before.
ExplodeThink(i) ==
    /\ Thinks(i)
    /\ balls[i].life = 0
    /\ balls' = [balls EXCEPT ![i] = [Exploded(@) EXCEPT !.life = Never]]
    /\ waits' = RespawnBallPostExplosion
    /\ UNCHANGED <<enabled, off, think, inputs>>

\* Contexts run in the order in which they were set, so the life comes first.
SUB_Remove(i) ==
    /\ Thinks(i)
    /\ balls[i].remove = 0 /\ balls[i].life # 0
    /\ balls' = [balls EXCEPT ![i].remove = Never, ![i].gone = TRUE]
    /\ UNCHANGED <<waits, enabled, off, think, inputs>>

(* CPropEnergyBall::Think overrides the base class's, which would call the      *)
(* function given to SetThink: it keeps up the ball's speed and changes nothing *)
(* here, and DieThink is never called.                                         *)

-----------------------------------------------------------------------------
(* Touches.                                                                    *)

\* Mutant: the minimum is added to the life.
TeleportAdding(i) ==
    /\ Thinks(i) /\ balls[i].solid
    /\ balls[i].life # Never
    /\ balls' = [balls EXCEPT ![i].life = @ + MinLifeAfterPortal]
    /\ UNCHANGED <<waits, enabled, off, think, inputs>>

\* A ball that goes through a portal has a minimum of life left afterwards.
Teleport(i) ==
    /\ Thinks(i) /\ balls[i].solid
    /\ balls[i].life # Never
    /\ balls' = [balls EXCEPT ![i].life =
                    IF @ > MinLifeAfterPortal THEN @ ELSE MinLifeAfterPortal]
    /\ UNCHANGED <<waits, enabled, off, think, inputs>>

\* A ball that hits a player explodes in its next think.
HitPlayer(i) ==
    /\ Thinks(i) /\ balls[i].solid
    /\ balls' = [balls EXCEPT ![i].life = 0]
    /\ UNCHANGED <<waits, enabled, off, think, inputs>>

-----------------------------------------------------------------------------
(* Inputs of the map. A ball that is to be deleted has no name any more, but   *)
(* inputs by class name, or to the !activator, reach it until the delete list  *)
(* is run.                                                                     *)

SendInput == inputs < MaxInputs /\ inputs' = inputs + 1

\* InputKill and InputSocketed. UTIL_Remove of a ball that is gone does nothing,
\* but the launcher is told again.
InputKill(i) ==
    /\ i \in DOMAIN balls /\ SendInput
    /\ balls' = [balls EXCEPT ![i].gone = TRUE]
    /\ waits' = RespawnBallPostExplosion
    /\ UNCHANGED <<enabled, off, think>>

\* Mutant: a ball that has exploded does so again.
ExplodeTwice(i) ==
    /\ i \in DOMAIN balls /\ SendInput
    /\ balls' = [balls EXCEPT ![i] = Exploded(@)]
    /\ waits' = RespawnBallPostExplosion
    /\ UNCHANGED <<enabled, off, think>>

\* DoExplosion leaves the timer of the ball's life as it is.
InputExplode(i) ==
    /\ i \in DOMAIN balls /\ SendInput
    /\ ~balls[i].spent
    /\ balls' = [balls EXCEPT ![i] = Exploded(@)]
    /\ waits' = RespawnBallPostExplosion
    /\ UNCHANGED <<enabled, off, think>>

\* Mutant: a ball that fades can still be touched.
FadeSolid(i) ==
    /\ i \in DOMAIN balls /\ SendInput
    /\ balls' = [balls EXCEPT ![i].faded = TRUE]
    /\ UNCHANGED <<waits, enabled, off, think>>

\* FadeOut.
InputFadeAndRespawn(i) ==
    /\ i \in DOMAIN balls /\ SendInput
    /\ balls' = [balls EXCEPT ![i].solid = FALSE, ![i].faded = TRUE]
    /\ UNCHANGED <<waits, enabled, off, think>>

\* The only launch that is not the return of a ball.
InputLaunchBall ==
    /\ SendInput
    /\ balls' = Append(balls, NewBall)
    /\ UNCHANGED <<waits, enabled, off, think>>

\* Mutant: the think is not scheduled again.
EnableWithoutThink ==
    /\ ~enabled
    /\ enabled' = TRUE /\ off' = 0
    /\ UNCHANGED <<balls, waits, think, inputs>>

InputEnable ==
    /\ ~enabled
    /\ enabled' = TRUE /\ off' = 0 /\ think' = "set"
    /\ UNCHANGED <<balls, waits, inputs>>

InputDisable ==
    /\ enabled
    /\ enabled' = FALSE /\ off' = 0 /\ think' = "none"
    /\ UNCHANGED <<balls, waits, inputs>>

-----------------------------------------------------------------------------
(* The launcher's think, and the passing of time.                              *)

\* Every time that has passed becomes a ball. FastRemove also changes the order
\* of those that are left, which nothing depends on.
BallThink ==
    /\ think = "due"
    /\ LET passed == {i \in DOMAIN waits : waits[i] < 0}
       IN /\ balls' = balls \o [i \in 1..Cardinality(passed) |-> NewBall]
          /\ waits' = Picked(waits, DOMAIN waits \ passed)
    /\ think' = "set"
    /\ UNCHANGED <<enabled, off, inputs>>

\* The engine's CleanupDeleteList, at the end of each frame.
CleanupDeleteList ==
    /\ \E i \in DOMAIN balls : balls[i].gone
    /\ balls' = Picked(balls, {i \in DOMAIN balls : ~balls[i].gone})
    /\ UNCHANGED <<waits, enabled, off, think, inputs>>

Sooner(t) == IF t = Never THEN Never ELSE t - 1

\* Time passes when no think is left to run. A time that has passed is kept as
\* -1, however long ago it was.
Tick ==
    /\ think # "due"
    /\ \A i \in DOMAIN balls : ~balls[i].gone /\ balls[i].life # 0 /\ balls[i].remove # 0
    /\ balls' = [i \in DOMAIN balls |->
                    [balls[i] EXCEPT !.life = Sooner(@), !.remove = Sooner(@)]]
    /\ waits' = IF enabled THEN [i \in DOMAIN waits |-> Sooner(waits[i])] ELSE waits
    /\ off' = IF enabled \/ off = MaxOff THEN off ELSE off + 1
    /\ think' = IF think = "set" THEN "due" ELSE "none"
    /\ UNCHANGED <<enabled, inputs>>

BallStep(i) ==
    \/ ExplodeThink(i) \/ SUB_Remove(i)
    \/ Teleport(i) \/ HitPlayer(i)
    \/ InputKill(i) \/ InputExplode(i) \/ InputFadeAndRespawn(i)

Next ==
    \/ \E i \in DOMAIN balls : BallStep(i)
    \/ InputLaunchBall \/ InputEnable \/ InputDisable
    \/ BallThink \/ CleanupDeleteList \/ Tick

(* The server runs frame after frame, and in each the thinks that are due. What *)
(* players and maps do is not fair. Time needs strong fairness: thinks become   *)
(* due again and again, and each frame still comes to its end.                 *)
Fairness ==
    /\ SF_vars(Tick)
    /\ WF_vars(BallThink)
    /\ WF_vars(CleanupDeleteList)
    /\ WF_vars(\E i \in DOMAIN balls : ExplodeThink(i) \/ SUB_Remove(i))

BallSpec == Init /\ [][Next]_vars /\ Fairness

-----------------------------------------------------------------------------
(* Properties.                                                                 *)

FlyingBalls == {i \in DOMAIN balls : Flying(balls[i])}
InPlay == Len(waits) + Cardinality(FlyingBalls)

BallType ==
    [life : Never..(IF BallLifetime > MinLifeAfterPortal THEN BallLifetime
                                                         ELSE MinLifeAfterPortal),
     remove : Never..RemoveDelay,
     spent : BOOLEAN, solid : BOOLEAN, faded : BOOLEAN, gone : BOOLEAN]

\* Types and ranges: a life never exceeds the longer of the two keyvalues of the
\* launcher, a time to wait never the respawn time and the time the launcher was
\* off (NotifySystemEvent, RespawnBallPostExplosion).
BallTypeOK ==
    /\ balls \in Seq(BallType)
    /\ waits \in Seq(Never..(IF RespawnTime < 0 THEN 0 ELSE RespawnDelay + MaxOff))
    /\ enabled \in BOOLEAN
    /\ off \in 0..MaxOff
    /\ think \in {"none", "set", "due"}
    /\ inputs \in 0..MaxInputs

\* The launcher hears of a ball that has been lost before: its timer runs out
\* after the input Explode, or it is killed once more.
LostAgain ==
    \E i \in DOMAIN balls :
        /\ ~Flying(balls[i])
        /\ ExplodeThink(i) \/ InputKill(i) \/ (InputExplode(i) /\ balls[i].gone)

\* A launcher that respawns has as many balls, flying or waiting, as it has been
\* told to launch, whatever order balls explode, hit players, are killed and
\* removed in, and the launcher is switched in. The number grows only by the
\* input LaunchBall and by a ball that was lost twice; DoExplosion's guard
\* ("don't do this twice") is what keeps the input Explode from doing that.
BallsConserved ==
    [][\/ InPlay' = InPlay
       \/ InPlay' = InPlay + 1 /\ (InputLaunchBall \/ LostAgain)]_vars

\* A launcher that stays on always gets its ball back (BallThink, and every way
\* in which a ball ends).
BallComesBack == <>[]enabled => []<>(\E i \in DOMAIN balls : Flying(balls[i]))

\* The comment of DieThink, "Let the spawner know we died so it does it's thing":
\* a ball that has been told to fade and respawn is gone at last.
FadedBallDies ==
    (\E i \in DOMAIN balls : balls[i].faded) ~> (\A i \in DOMAIN balls : ~balls[i].faded)
=============================================================================
