-------------------------- MODULE PongGameProofs --------------------------
(***************************************************************************)
(* PongGame for a court, a speed, a bat and a bound on counting of any     *)
(* size, as long as the ball cannot jump from one wall to the other.       *)
(*                                                                         *)
(* BallStaysInCourt is not inductive: a ball behind a wall has to be on    *)
(* its way back, or the next step would take it further out.  Heading adds *)
(* that, for each of the two directions.                                   *)
(***************************************************************************)
EXTENDS PongGame, ApplicationProofs

\* Inside the court, or one step outside it and coming back.
Heading(pos, speed, wall) ==
    /\ pos \in (-(wall + Speed))..(wall + Speed)
    /\ pos > wall => speed = -Speed
    /\ pos < -wall => speed = Speed

IInv ==
    /\ TypeOK
    /\ Heading(BallPosX, SpeedX, Side)
    /\ Heading(BallPosY, SpeedY, Top)
    /\ BatStaysInCourt
    /\ ComputerIsUnbeatable

\* One step and its reflection, for any pair of walls.
LEMMA Reflection ==
    ASSUME NEW pos \in Int, NEW speed \in {Speed, -Speed},
           NEW wall \in Nat, Speed <= 2 * wall,
           Heading(pos, speed, wall)
    PROVE  /\ pos + speed \in Int
           /\ Reflected(pos + speed, speed, wall) \in {Speed, -Speed}
           /\ Heading(pos + speed, Reflected(pos + speed, speed, wall), wall)
    BY SpeedAssumption DEF Heading, Reflected

\* The invariant holds when the game begins.
LEMMA Initial == Init => IInv
<1> SUFFICES ASSUME Init PROVE IInv
    OBVIOUS
<1>1. AppTypeOK
    BY FrameworkStarts DEF Init
<1>2. TypeOK
    <2>1. /\ SpeedX \in {Speed, -Speed} /\ SpeedY \in {Speed, -Speed}
          /\ BallPosX \in Int /\ BallPosY \in Int
          /\ BatPosY \in Int /\ batRight \in Int
        BY SpeedAssumption DEF Init
    <2>2. GameOver \in BOOLEAN
        BY Zenon DEF Init
    <2> QED
        BY Zenon, <1>1, <2>1, <2>2 DEF TypeOK
<1>3. Heading(BallPosX, SpeedX, Side) /\ Heading(BallPosY, SpeedY, Top)
    BY SpeedAssumption, CourtAssumption DEF Init, Heading
<1>4. BatStaysInCourt /\ ComputerIsUnbeatable
    BY CourtAssumption, BatAssumption DEF Init, BatStaysInCourt, ComputerIsUnbeatable
<1> QED
    BY <1>2, <1>3, <1>4 DEF IInv

\* A frame keeps it.
LEMMA FrameKeeps == IInv /\ Frame => IInv'
<1> SUFFICES ASSUME IInv, Frame PROVE IInv'
    OBVIOUS
<1>1. AppTypeOK'
    BY FrameworkTypes DEF IInv, TypeOK, Frame, FrameworkStep
<1>2. CASE GameOver
    BY <1>1, <1>2 DEF IInv, TypeOK, Frame, Update, ball, Heading, BatStaysInCourt,
        ComputerIsUnbeatable
<1>3. CASE ~GameOver
    <2>1. /\ BallPosX' = BallPosX + SpeedX
          /\ BallPosY' = BallPosY + SpeedY
          /\ SpeedY' = Reflected(BallPosY', SpeedY, Top)
          /\ batRight' = batRight + SpeedY
          /\ SpeedX' = Reflected(BallPosX', SpeedX, Side)
          /\ GameOver' \in BOOLEAN
          /\ BatPosY' = BatPosY
        BY <1>3 DEF Frame, Update, ComputerMoves, Lost
    <2>2. BallPosX' \in Int /\ SpeedX' \in {Speed, -Speed}
          /\ Heading(BallPosX', SpeedX', Side)
        BY <2>1, Reflection, CourtAssumption DEF IInv, TypeOK
    <2>3. BallPosY' \in Int /\ SpeedY' \in {Speed, -Speed}
          /\ Heading(BallPosY', SpeedY', Top)
        BY <2>1, Reflection, CourtAssumption DEF IInv, TypeOK
    <2>4. batRight' \in Int /\ batRight' = BallPosY'
        BY <2>1, <2>3 DEF IInv, TypeOK, ComputerIsUnbeatable
    <2> QED
        BY <1>1, <2>1, <2>2, <2>3, <2>4
        DEF IInv, TypeOK, Heading, BatStaysInCourt, ComputerIsUnbeatable
<1> QED
    BY <1>2, <1>3

\* A key keeps it.
LEMMA KeyKeeps == ASSUME NEW k \in Keys PROVE IInv /\ KeyPressed(k) => IInv'
<1> SUFFICES ASSUME IInv, KeyPressed(k) PROVE IInv'
    OBVIOUS
<1>1. AppTypeOK'
    BY FrameworkTypes DEF IInv, TypeOK, KeyPressed, FrameworkStep
<1>2. UNCHANGED ball /\ UNCHANGED GameOver
    BY DEF KeyPressed
<1>3. BatPosY' \in Int /\ BatPosY' \in (-(Top + BatStep))..(Top + BatStep)
    BY CourtAssumption, BatAssumption
    DEF IInv, TypeOK, BatStaysInCourt, KeyPressed, HandleKeys, Held
<1> QED
    BY <1>1, <1>2, <1>3
    DEF ball, IInv, TypeOK, Heading, BatStaysInCourt, ComputerIsUnbeatable

\* Every step keeps it.
LEMMA Inductive == IInv /\ [Next]_vars => IInv'
<1> SUFFICES ASSUME IInv, [Next]_vars PROVE IInv'
    OBVIOUS
<1>1. CASE Frame
    BY <1>1, FrameKeeps
<1>2. ASSUME NEW k \in Keys, KeyPressed(k) PROVE IInv'
    BY <1>2, KeyKeeps
<1>3. CASE (Start \/ TimerS \/ SkipFrame \/ ResizeS \/ CloseWindow)
           /\ UNCHANGED <<ball, BatPosY, GameOver>>
    <2>1. AppTypeOK'
        BY <1>3, FrameworkTypes DEF IInv, TypeOK, FrameworkStep
    <2> QED
        BY <1>3, <2>1 DEF ball, IInv, TypeOK, Heading, BatStaysInCourt, ComputerIsUnbeatable
<1>4. CASE UNCHANGED vars
    BY <1>4 DEF vars, appVars, ball, IInv, TypeOK, AppTypeOK, Heading, BatStaysInCourt,
        ComputerIsUnbeatable
<1> QED
    BY <1>1, <1>2, <1>3, <1>4 DEF Next

\* The state of the game is well typed; both speeds keep their size.
THEOREM TypeCorrect == Spec => []TypeOK
<1>1. IInv => TypeOK
    BY DEF IInv
<1> QED
    BY <1>1, Initial, Inductive, PTL DEF Spec

\* What the invariant says of the court.
LEMMA Consequences == IInv => BallStaysInCourt /\ BatStaysInCourt /\ ComputerIsUnbeatable
    BY DEF IInv, Heading, BallStaysInCourt

\* The ball never leaves the court by more than one step: what the two tests
\* of each direction in Update have to achieve.
THEOREM BallNeverEscapes == Spec => []BallStaysInCourt
    BY Initial, Inductive, Consequences, PTL DEF Spec

\* The keys W and S keep the bat in the court.
THEOREM BatNeverEscapes == Spec => []BatStaysInCourt
    BY Initial, Inductive, Consequences, PTL DEF Spec

\* Nobody can win: the computer's bat is always where the ball is.
THEOREM ComputerNeverMisses == Spec => []ComputerIsUnbeatable
    BY Initial, Inductive, Consequences, PTL DEF Spec
===========================================================================
