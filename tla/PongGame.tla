---------------------------- MODULE PongGame ----------------------------
(***************************************************************************)
(* The game: a ball that is reflected by the walls, the player's bat on    *)
(* the left and the computer's on the right.  Lengths are in hundredths,   *)
(* so the numbers of the code are integers, and additions are exact.       *)
(***************************************************************************)
EXTENDS Application, Integers

CONSTANTS
    Speed,         \* 6: SpeedX and SpeedY of the constructor
    Top,           \* 375: where top and bottom reflect
    Side,          \* 410: where left and right reflect
    BatStep,       \* 12: how far a key moves the bat
    Reach,         \* 90: how far from the bat's middle it still meets the ball
    SurelyMissed   \* 100: the distance that every build takes for a miss

ASSUME SpeedAssumption == Speed \in Nat \ {0}
ASSUME CourtAssumption == Top \in Nat /\ Side \in Nat /\ Speed <= 2 * Top /\ Speed <= 2 * Side
ASSUME BatAssumption == BatStep \in Nat /\ Reach \in Nat /\ SurelyMissed \in Nat

VARIABLES
    SpeedX, SpeedY, BallPosX, BallPosY, BatPosY, GameOver,
    batRight      \* how far the transform BatRight has been moved up

ball == <<SpeedX, SpeedY, BallPosX, BallPosY, batRight>>
vars == <<appVars, ball, BatPosY, GameOver>>

Abs(d) == IF d < 0 THEN -d ELSE d

Init ==
    /\ Constructed
    /\ SpeedX = Speed /\ SpeedY = Speed
    /\ BallPosX = 0 /\ BallPosY = 0
    /\ BatPosY = 0
    /\ GameOver = FALSE
    /\ batRight = 0

\* The speed after the two tests against a pair of walls.
\* Mutants: one of them is missing; the ball stops.
Reflected_OneWall(pos, speed, wall) == IF pos > wall THEN -speed ELSE speed
Reflected_Stopped(pos, speed, wall) ==
    IF pos > wall \/ pos < -wall THEN 0 ELSE speed
Reflected(pos, speed, wall) ==
    IF pos > wall \/ pos < -wall THEN -speed ELSE speed

\* abs is that of int or of float, and a float next to Reach is on either
\* side of it: in between the game may be over or go on.
Lost(atLeft, distance) ==
    IF ~atLeft \/ distance < Reach THEN {FALSE}
    ELSE IF distance >= SurelyMissed THEN {TRUE} ELSE BOOLEAN

\* The computer's bat moves before the ball is reflected.  Mutant: after.
ComputerMoves_Late == SpeedY'
ComputerMoves == SpeedY

Update ==
    \/ /\ GameOver
       /\ UNCHANGED <<ball, GameOver>>
    \/ /\ ~GameOver
       /\ BallPosX' = BallPosX + SpeedX
       /\ BallPosY' = BallPosY + SpeedY
       /\ SpeedY' = Reflected(BallPosY', SpeedY, Top)
       /\ batRight' = batRight + ComputerMoves
       /\ SpeedX' = Reflected(BallPosX', SpeedX, Side)
       /\ GameOver' \in Lost(BallPosX' < -Side, Abs(BatPosY - BallPosY'))

\* Mutant: the bat is not held.
Held_Not(pos) == TRUE
Held(pos) == pos < Top

HandleKeys(k) ==
    BatPosY' = IF k = "W" /\ ~GameOver /\ Held(BatPosY) THEN BatPosY + BatStep
               ELSE IF k = "S" /\ ~GameOver /\ Held(-BatPosY) THEN BatPosY - BatStep
               ELSE BatPosY

Frame == ShowFrame /\ Update /\ UNCHANGED BatPosY

KeyPressed(k) ==
    /\ HandleKeysSimple(k)
    /\ IF Exits(k) THEN UNCHANGED BatPosY ELSE HandleKeys(k)
    /\ UNCHANGED <<ball, GameOver>>

Next ==
    \/ Frame
    \/ \E k \in Keys : KeyPressed(k)
    \/ /\ Start \/ TimerS \/ SkipFrame \/ ResizeS \/ CloseWindow
       /\ UNCHANGED <<ball, BatPosY, GameOver>>

Spec == Init /\ [][Next]_vars

\* GLUT delivers a timer that is armed and a redisplay that was posted.
FairSpec ==
    /\ Spec
    /\ WF_vars(Start /\ UNCHANGED <<ball, BatPosY, GameOver>>)
    /\ WF_vars(TimerS /\ UNCHANGED <<ball, BatPosY, GameOver>>)
    /\ WF_vars(Frame)
-----------------------------------------------------------------------------
TypeOK ==
    /\ AppTypeOK
    /\ SpeedX \in {Speed, -Speed} /\ SpeedY \in {Speed, -Speed}
    /\ BallPosX \in Int /\ BallPosY \in Int
    /\ BatPosY \in Int /\ batRight \in Int
    /\ GameOver \in BOOLEAN

\* Reflection keeps the ball in the court for ever: it never turns twice in
\* a wall and escapes.
BallStaysInCourt ==
    /\ BallPosX \in (-(Side + Speed))..(Side + Speed)
    /\ BallPosY \in (-(Top + Speed))..(Top + Speed)

\* The keys cannot move the bat out of the court.
BatStaysInCourt == BatPosY \in (-(Top + BatStep))..(Top + BatStep)

\* "Unbeatable Computer": whatever the ball does, the bat on the right is at
\* its height in every frame.
ComputerIsUnbeatable == batRight = BallPosY

\* The ball comes back to the player until the game is lost.
BallComesBack == StaysOpenUnpaused => <>GameOver \/ []<>(BallPosX < -Side)
==========================================================================
