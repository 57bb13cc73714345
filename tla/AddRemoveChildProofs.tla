----------------------- MODULE AddRemoveChildProofs -----------------------
(***************************************************************************)
(* AddRemoveChild for any number of cubes and any period.  ShowsTheCubes   *)
(* is inductive together with the types; the point is RemoveCube, where    *)
(* the first child of that name has to be the one added last.  The number  *)
(* of updates gone by decides the rest, by the arithmetic below.           *)
(***************************************************************************)
EXTENDS AddRemoveChild, ApplicationProofs, SequenceTheorems

IInv ==
    /\ TypeOK
    /\ phase = "constructed" => list = <<GlobalLight>>
    /\ ShowsTheCubes

\* The children when there are n cubes.
Shown(n) == <<GlobalLight>> \o [i \in 1..n |-> Cube(i - 1)]

\* The light stands for 0 and the cubes for 1, 2, ...: child i is number i-1.
LEMMA ShownIs ==
    ASSUME NEW n \in Nat
    PROVE  /\ Shown(n) = [i \in 1..(n+1) |-> i - 1]
           /\ Shown(n) \in Seq(Nat)
<1> DEFINE cubes == [i \in 1..n |-> Cube(i - 1)]
<1>1. cubes \in Seq(Nat) /\ Len(cubes) = n
    BY DEF Cube
<1>2. \A i \in 1..n : cubes[i] = i
    BY DEF Cube
<1>3. <<GlobalLight>> \in Seq(Nat) /\ Len(<<GlobalLight>>) = 1 /\ <<GlobalLight>>[1] = 0
    BY DEF GlobalLight
<1> HIDE DEF cubes
<1>4. <<GlobalLight>> \o cubes \in Seq(Nat) /\ Len(<<GlobalLight>> \o cubes) = n + 1
    BY <1>1, <1>3
<1>5. \A i \in 1..(n+1) : (<<GlobalLight>> \o cubes)[i] = i - 1
    BY <1>1, <1>2, <1>3
<1>6. <<GlobalLight>> \o cubes = [i \in 1..(n+1) |-> i - 1]
    <2> DEFINE all == [i \in 1..(n+1) |-> i - 1]
    <2>1. all \in Seq(Nat) /\ Len(all) = n + 1 /\ \A i \in 1..(n+1) : all[i] = i - 1
        OBVIOUS
    <2> HIDE DEF all
    <2> QED
        BY <2>1, <1>4, <1>5, SeqEqual DEF all
<1> QED
    BY <1>4, <1>6 DEF Shown, cubes

\* Adding a cube, and taking away the one that was added last.
LEMMA Added ==
    ASSUME NEW n \in Nat
    PROVE  Append(Shown(n), Cube(n)) = Shown(n + 1)
<1>1. /\ Shown(n) \in Seq(Nat) /\ Len(Shown(n)) = n + 1
      /\ Shown(n + 1) \in Seq(Nat) /\ Len(Shown(n + 1)) = n + 2
      /\ \A i \in 1..(n+1) : Shown(n)[i] = i - 1
      /\ \A i \in 1..(n+2) : Shown(n + 1)[i] = i - 1
    BY ShownIs, n + 1 \in Nat
<1>2. Cube(n) \in Nat /\ Cube(n) = n + 1
    BY DEF Cube
<1>3. /\ Append(Shown(n), Cube(n)) \in Seq(Nat)
      /\ Len(Append(Shown(n), Cube(n))) = n + 2
      /\ \A i \in 1..(n+2) : Append(Shown(n), Cube(n))[i] = i - 1
    BY <1>1, <1>2
<1> QED
    BY <1>1, <1>3, SeqEqual

\* Removal by the name of the cube added last takes away just that cube.
LEMMA TakenAway ==
    ASSUME NEW n \in Nat \ {0}
    PROVE  RemoveFirst(Shown(n), Cube(n - 1)) = Shown(n - 1)
<1> DEFINE s == Shown(n)
           I == {i \in 1..Len(s) : s[i] = Cube(n - 1)}
<1>1. s = [i \in 1..(n+1) |-> i - 1] /\ s \in Seq(Nat) /\ Len(s) = n + 1
    BY ShownIs
<1>2. Cube(n - 1) = n
    BY DEF Cube
<1>3. I = {n + 1}
    BY <1>1, <1>2
<1>4. SelectInSeq(s, LAMBDA v : v = Cube(n - 1)) = n + 1
    <2>1. Min(I) = n + 1
        BY <1>3 DEF Min
    <2> QED
        BY <1>3, <2>1 DEF SelectInSeq
<1>5. RemoveFirst(s, Cube(n - 1)) = RemoveAt(s, n + 1)
    <2>1. \E i \in 1..Len(s) : s[i] = Cube(n - 1)
        BY <1>3
    <2> QED
        BY <2>1, <1>4 DEF RemoveFirst
<1>6. RemoveAt(s, n + 1) = [i \in 1..n |-> i - 1]
    <2>1. SubSeq(s, 1, n) = [i \in 1..n |-> i - 1]
        BY <1>1
    <2>2. SubSeq(s, n + 2, n + 1) = <<>>
        BY <1>1
    <2>3. [i \in 1..n |-> i - 1] \in Seq(Int)
        OBVIOUS
    <2> QED
        BY <1>1, <2>1, <2>2, <2>3 DEF RemoveAt
<1> QED
    BY <1>5, <1>6, ShownIs, n - 1 \in Nat

\* The invariant holds when the application begins to run.
LEMMA Initial == Init => IInv
<1> SUFFICES ASSUME Init PROVE IInv
    OBVIOUS
<1>1. AppTypeOK /\ phase = "constructed"
    BY FrameworkStarts DEF Init, Constructed
<1>2. list \in Seq(Nat) /\ list = <<GlobalLight>>
    BY DEF Init, GlobalLight
<1>3. ChildCount \in 0..Most
    BY DEF Init
<1>4. Increasing \in BOOLEAN
    BY Zenon DEF Init
<1>5. TypeOK
    BY Zenon, <1>1, <1>2, <1>3, <1>4 DEF TypeOK
<1> QED
    BY Zenon, <1>1, <1>2, <1>5 DEF IInv, ShowsTheCubes

\* One Update of the showcase.
LEMMA UpdateKeeps ==
    IInv /\ phase = "running" /\ Update =>
        /\ ChildCount' \in 0..Most /\ Increasing' \in BOOLEAN
        /\ list' = Shown(ChildCount')
<1> SUFFICES ASSUME IInv, phase = "running", Update
             PROVE  /\ ChildCount' \in 0..Most /\ Increasing' \in BOOLEAN
                    /\ list' = Shown(ChildCount')
    OBVIOUS
<1>1. ChildCount \in 0..Most /\ Increasing \in BOOLEAN /\ list = Shown(ChildCount)
    BY DEF IInv, TypeOK, ShowsTheCubes, Shown
<1>2. CASE AddCube
    <2>1. ChildCount \in Nat /\ ChildCount # Most
        BY <1>1, <1>2, MostAssumption DEF AddCube, AtTop
    <2>2. list' = Shown(ChildCount + 1)
        BY <1>1, <1>2, <2>1, Added DEF AddCube
    <2> QED
        BY <1>1, <1>2, <2>1, <2>2, MostAssumption DEF AddCube
<1>3. CASE RemoveCube
    BY <1>1, <1>3, TakenAway, MostAssumption DEF RemoveCube, Removed
<1>4. CASE Turn
    BY <1>1, <1>4 DEF Turn
<1>5. CASE UNCHANGED ownVars
    BY <1>1, <1>5 DEF ownVars
<1> QED
    BY <1>2, <1>3, <1>4, <1>5 DEF Update

\* Every frame and every key keeps the invariant.
LEMMA Inductive == IInv /\ [Next]_vars => IInv'
<1> SUFFICES ASSUME IInv, [Next]_vars PROVE IInv'
    OBVIOUS
<1>1. AppTypeOK'
    <2>1. [FrameworkStep]_appVars
        BY DEF Next, vars, StartShowcase, Frame, FrameworkStep
    <2> QED
        BY <2>1, FrameworkTypes DEF IInv, TypeOK
<1>2. CASE StartShowcase
    <2>1. phase' = "running" /\ ChildCount' = 0 /\ Increasing' = TRUE /\ list' = <<GlobalLight>>
        BY <1>2 DEF StartShowcase, Start, IInv
    <2>2. list' \in Seq(Nat) /\ list' = Shown(0)
        BY <2>1, ShownIs DEF Shown, GlobalLight
    <2> QED
        BY <1>1, <2>1, <2>2, MostAssumption DEF IInv, TypeOK, ShowsTheCubes, Shown
<1>3. CASE Frame
    <2>1. phase = "running" /\ phase' = "running"
        BY <1>3 DEF Frame, ShowFrame, Running
    <2>2. /\ ChildCount' \in 0..Most /\ Increasing' \in BOOLEAN
          /\ list' = Shown(ChildCount')
        BY <1>3, <2>1, UpdateKeeps DEF Frame
    <2>3. list' \in Seq(Nat)
        BY <2>2, ShownIs
    <2> QED
        BY <1>1, <2>1, <2>2, <2>3 DEF IInv, TypeOK, ShowsTheCubes, Shown
<1>4. CASE /\ \/ TimerS \/ SkipFrame \/ ResizeS \/ CloseWindow
              \/ \E k \in Keys : HandleKeysSimple(k)
           /\ UNCHANGED ownVars
    <2>1. phase # "constructed"
        BY <1>4 DEF TimerS, SkipFrame, ResizeS, CloseWindow, HandleKeysSimple, Running
    <2>2. phase' # "constructed"
        BY <1>4, <2>1 DEF TimerS, SkipFrame, ResizeS, CloseWindow, HandleKeysSimple, Running
    <2> QED
        BY <1>1, <1>4, <2>1, <2>2 DEF ownVars, IInv, TypeOK, ShowsTheCubes
<1>5. CASE UNCHANGED vars
    BY <1>1, <1>5 DEF vars, appVars, ownVars, IInv, TypeOK, ShowsTheCubes
<1> QED
    BY <1>2, <1>3, <1>4, <1>5 DEF Next

\* The state of the showcase is well typed: the counter never leaves 0..Most,
\* whatever keys come between the frames.
THEOREM TypeCorrect == Spec => []TypeOK
<1>1. IInv => TypeOK
    BY DEF IInv
<1> QED
    BY <1>1, Initial, Inductive, PTL DEF Spec

\* The root always has exactly the counted cubes for children, in order: every
\* RemoveChild by name in Update meets the cube added last.
THEOREM ExactlyTheCubes == Spec => []ShowsTheCubes
<1>1. IInv => ShowsTheCubes
    BY DEF IInv
<1> QED
    BY <1>1, Initial, Inductive, PTL DEF Spec

-----------------------------------------------------------------------------
\* Dividing: a number is a multiple and a rest, in one way only.
LEMMA Division ==
    ASSUME NEW d \in Nat \ {0}, NEW x \in Nat
    PROVE  \E q \in Nat, r \in 0..(d-1) : q = x \div d /\ r = x % d /\ x = d * q + r
<1>1. PICK q \in Int, r \in 0..(d-1) : q = x \div d /\ r = x % d /\ x = d * q + r
    BY Z3
<1>2. q < 0 => d * q <= -d
    BY Z3
<1>3. q \in Nat BY <1>1, <1>2, Z3
<1> QED BY <1>1, <1>3

\* The multiple and the rest are what the division gives back.
LEMMA Quotient ==
    ASSUME NEW d \in Nat \ {0}, NEW q \in Nat, NEW r \in 0..(d-1)
    PROVE  (d * q + r) \div d = q /\ (d * q + r) % d = r
<1>1. d * q \in Nat /\ d * q + r \in Nat OBVIOUS
<1>2. PICK p \in Nat, s \in 0..(d-1) :
        p = (d * q + r) \div d /\ s = (d * q + r) % d /\ d * q + r = d * p + s
    BY <1>1, Division
<1>3. p = q
    <2>1. p < q => d * p + d <= d * q BY Z3
    <2>2. q < p => d * q + d <= d * p BY Z3
    <2>3. d * p \in Nat OBVIOUS
    <2> QED BY <1>1, <1>2, <2>1, <2>2, <2>3
<1>4. s = r BY <1>1, <1>2, <1>3
<1> QED BY <1>2, <1>3, <1>4

\* The rounds there have been when n frames have been counted.
Rounds(n, d) == (n + d - 1) \div d

\* One frame more is one round more if the frame is a multiple of the period.
LEMMA NextRound ==
    ASSUME NEW d \in Nat \ {0}, NEW n \in Nat
    PROVE  /\ Rounds(n, d) \in Nat
           /\ Rounds(n + 1, d) = IF n % d = 0 THEN Rounds(n, d) + 1 ELSE Rounds(n, d)
<1>1. PICK q \in Nat, r \in 0..(d-1) : r = n % d /\ n = d * q + r
    BY Division
<1>2. d * q \in Nat /\ d * (q + 1) = d * q + d BY Z3
<1>3. CASE r = 0
    <2>1. n + d - 1 = d * q + (d - 1) /\ n + 1 + d - 1 = d * (q + 1) + 0 BY <1>1, <1>2, <1>3
    <2>2. Rounds(n, d) = q BY <2>1, Quotient, d - 1 \in 0..(d-1) DEF Rounds
    <2>3. Rounds(n + 1, d) = q + 1 BY <2>1, Quotient, q + 1 \in Nat, 0 \in 0..(d-1) DEF Rounds
    <2> QED BY <1>1, <1>3, <2>2, <2>3
<1>4. CASE r # 0
    <2>1. n + d - 1 = d * (q + 1) + (r - 1) /\ n + 1 + d - 1 = d * (q + 1) + r BY <1>1, <1>2, <1>4
    <2>2. Rounds(n, d) = q + 1 BY <2>1, <1>4, Quotient, q + 1 \in Nat, r - 1 \in 0..(d-1) DEF Rounds
    <2>3. Rounds(n + 1, d) = q + 1 BY <2>1, Quotient, q + 1 \in Nat DEF Rounds
    <2> QED BY <1>1, <1>4, <2>2, <2>3
<1> QED BY <1>3, <1>4

\* Counting modulo a number.
LEMMA NextStep ==
    ASSUME NEW c \in Nat \ {0}, NEW u \in Nat
    PROVE  (u + 1) % c = IF u % c = c - 1 THEN 0 ELSE (u % c) + 1
<1>1. PICK q \in Nat, r \in 0..(c-1) : r = u % c /\ u = c * q + r
    BY Division
<1>2. c * q \in Nat /\ c * (q + 1) = c * q + c BY Z3
<1>3. CASE r = c - 1
    <2>1. u + 1 = c * (q + 1) + 0 BY <1>1, <1>2, <1>3
    <2>2. (c * (q + 1) + 0) % c = 0 BY Quotient, q + 1 \in Nat, 0 \in 0..(c-1)
    <2>3. (u + 1) % c = 0 BY <2>1, <2>2
    <2> QED BY <1>1, <1>3, <2>3
<1>4. CASE r # c - 1
    <2>1. u + 1 = c * q + (r + 1) /\ r + 1 \in 0..(c-1) BY <1>1, <1>2, <1>4
    <2>2. (c * q + (r + 1)) % c = r + 1 BY <2>1, Quotient
    <2>3. (u + 1) % c = r + 1 BY <2>1, <2>2
    <2> QED BY <1>1, <1>4, <2>3
<1> QED BY <1>3, <1>4

\* The showcase in step s of its cycle: so many cubes, going up or down.
At(cubes, up, s) ==
    /\ cubes = IF s <= Most THEN s ELSE Cycle - 1 - s
    /\ up = (s <= Most)

\* An update takes it one step further.
LEMMA UpdateIsAStep ==
    ASSUME NEW u \in Nat, At(ChildCount, Increasing, u % Cycle),
           AddCube \/ RemoveCube \/ Turn
    PROVE  At(ChildCount', Increasing', (u + 1) % Cycle)
<1>1. Cycle \in Nat \ {0} /\ Cycle = 2 * Most + 2 /\ Most \in Nat \ {0}
    BY MostAssumption DEF Cycle
<1>2. PICK r \in 0..(Cycle-1), s \in 0..(Cycle-1) :
        /\ r = u % Cycle /\ s = (u + 1) % Cycle
        /\ s = IF r = Cycle - 1 THEN 0 ELSE r + 1
    <2>1. u % Cycle \in 0..(Cycle-1) BY <1>1, Division
    <2>2. (u + 1) % Cycle = IF u % Cycle = Cycle - 1 THEN 0 ELSE (u % Cycle) + 1
        BY <1>1, NextStep
    <2> QED BY <1>1, <2>1, <2>2
<1>3. /\ ChildCount = IF r <= Most THEN r ELSE Cycle - 1 - r
      /\ Increasing = (r <= Most)
    BY <1>2 DEF At
<1>5. /\ ChildCount' = IF s <= Most THEN s ELSE Cycle - 1 - s
      /\ Increasing' = (s <= Most)
    <2>1. CASE AddCube
        <3>1. r <= Most /\ r # Most /\ ChildCount' = r + 1 /\ Increasing' = Increasing
            BY <1>3, <2>1 DEF AddCube, AtTop
        <3>2. s = r + 1 /\ s <= Most BY <1>1, <1>2, <3>1
        <3> QED BY <1>3, <3>1, <3>2
    <2>2. CASE RemoveCube
        <3>1. /\ ~(r <= Most) /\ ChildCount = Cycle - 1 - r /\ ChildCount # 0
              /\ ChildCount' = ChildCount - 1 /\ Increasing' = Increasing
            BY <1>3, <2>2 DEF RemoveCube
        <3>2. s = r + 1 /\ ~(s <= Most) BY <1>1, <1>2, <3>1
        <3>3. ChildCount' = Cycle - 1 - s BY <1>1, <1>2, <3>1, <3>2
        <3> QED BY <1>3, <3>1, <3>2, <3>3
    <2>3. CASE Turn
        <3>1. Increasing' = ~Increasing /\ ChildCount' = ChildCount /\ Turns
            BY <2>3 DEF Turn
        <3>2. CASE r <= Most
            <4>1. r = Most /\ ChildCount' = Most BY <1>3, <3>1, <3>2 DEF Turns, AtTop
            <4>2. s = Most + 1 /\ ~(s <= Most) /\ Cycle - 1 - s = Most BY <1>1, <1>2, <4>1
            <4>3. ChildCount' = Cycle - 1 - s BY <4>1, <4>2
            <4>4. Increasing = TRUE BY <1>3, <3>2, Zenon
            <4>5. Increasing' = FALSE BY <3>1, <4>4, Zenon
            <4>6. (s <= Most) = FALSE BY <4>2
            <4>7. Increasing' = (s <= Most) BY <4>5, <4>6, Zenon
            <4> QED BY <4>2, <4>3, <4>7
        <3>3. CASE ~(r <= Most)
            <4>1. Cycle - 1 - r = 0 /\ ChildCount' = 0 BY <1>3, <3>1, <3>3 DEF Turns, AtTop
            <4>2. s = 0 /\ s <= Most BY <1>1, <1>2, <4>1
            <4>3. ChildCount' = s BY <4>1, <4>2
            <4>4. Increasing' = (s <= Most) BY <1>3, <3>1, <3>3, <4>2
            <4> QED BY <4>2, <4>3, <4>4
        <3> QED BY <3>2, <3>3
    <2>4. AddCube \/ RemoveCube \/ Turn OBVIOUS
    <2> QED BY <2>1, <2>2, <2>3, <2>4
<1> QED BY <1>2, <1>5 DEF At

\* A frame counter that has gone round is back at a multiple of the cycle.
LEMMA RoundTheCounter ==
    ASSUME FrameModulus % (Cycle * Every) = 0
    PROVE  Rounds(FrameModulus, Every) % Cycle = 0 /\ Rounds(0, Every) % Cycle = 0
<1>1. /\ Cycle \in Nat \ {0} /\ Every \in Nat \ {0} /\ FrameModulus \in Nat
      /\ Cycle * Every \in Nat \ {0}
    <2>1. Cycle \in Nat \ {0} /\ Every \in Nat \ {0} /\ FrameModulus \in Nat
        BY MostAssumption, EveryAssumption, FrameModulusAssumption DEF Cycle
    <2>2. \A a, b \in Nat \ {0} : a * b \in Nat \ {0} BY Z3
    <2> QED BY <2>1, <2>2
<1>2. PICK d \in Nat \ {0} : d = Cycle * Every BY <1>1
<1>3. PICK q \in Nat, r \in 0..(d - 1) : r = FrameModulus % d /\ FrameModulus = d * q + r
    BY <1>1, Division
<1>4. FrameModulus = Cycle * Every * q
    <2>1. r = 0 BY <1>2, <1>3
    <2>2. d * q + 0 = d * q BY <1>1
    <2> QED BY <1>2, <1>3, <2>1, <2>2
<1>5. Cycle * q \in Nat /\ Cycle * Every * q = Every * (Cycle * q)
    <2>1. \A a, b, c \in Nat : a * c \in Nat /\ a * b * c = b * (a * c) BY Z3
    <2> QED BY <1>1, <2>1
<1>6. PICK u \in Nat : u = Cycle * q BY <1>5
<1>7. Rounds(FrameModulus, Every) = u
    <2>1. FrameModulus + Every - 1 = Every * u + (Every - 1)
        BY <1>1, <1>4, <1>5, <1>6
    <2>2. (Every * u + (Every - 1)) \div Every = u
        BY <1>1, Quotient, Every - 1 \in 0..(Every-1)
    <2> QED BY <2>1, <2>2 DEF Rounds
<1>8. Rounds(0, Every) = 0
    <2>1. 0 + Every - 1 = Every * 0 + (Every - 1) BY <1>1
    <2>2. (Every * 0 + (Every - 1)) \div Every = 0
        BY <1>1, Quotient, Every - 1 \in 0..(Every-1)
    <2> QED BY <2>1, <2>2 DEF Rounds
<1>9. \A p \in Nat : (Cycle * p + 0) % Cycle = 0
    BY <1>1, Quotient, 0 \in 0..(Cycle-1)
<1>10. u % Cycle = 0
    <2>1. Cycle * q + 0 = u BY <1>5, <1>6
    <2> QED BY <1>3, <1>9, <2>1
<1>11. 0 % Cycle = 0
    <2>1. Cycle * 0 + 0 = 0 BY <1>1
    <2> QED BY <1>9, <2>1
<1> QED BY <1>7, <1>8, <1>10, <1>11

\* One frame that is shown, wherever the counter is.
LEMMA FrameIsInStep ==
    ASSUME FrameModulus % (Cycle * Every) = 0, FrameCounter \in 0..(FrameModulus-1),
           At(ChildCount, Increasing, Updates % Cycle), Frame
    PROVE  At(ChildCount', Increasing', Rounds(FrameCounter', Every) % Cycle)
<1>1. /\ FrameCounter \in Nat /\ FrameModulus \in Nat \ {0}
      /\ Every \in Nat \ {0} /\ FrameCounter < FrameModulus
    BY EveryAssumption, FrameModulusAssumption
<1>2. PICK u \in Nat : u = Rounds(FrameCounter, Every) BY <1>1, NextRound
<1>3. PICK w : w = Rounds(FrameCounter + 1, Every) OBVIOUS
<1>4. w = IF FrameCounter % Every = 0 THEN u + 1 ELSE u
    BY <1>1, <1>2, <1>3, NextRound
<1>5. Updates = u BY <1>2 DEF Updates, Rounds
<1>6. At(ChildCount', Increasing', w % Cycle)
    <2>1. CASE FrameCounter % Every = 0
        <3>1. AddCube \/ RemoveCube \/ Turn BY <2>1 DEF Frame, Update
        <3>2. At(ChildCount', Increasing', (u + 1) % Cycle)
            BY <1>5, <3>1, UpdateIsAStep
        <3> QED BY <1>4, <2>1, <3>2
    <2>2. CASE FrameCounter % Every # 0
        <3>1. ChildCount' = ChildCount /\ Increasing' = Increasing
            BY <2>2 DEF Frame, Update, ownVars
        <3> QED BY <1>4, <1>5, <2>2, <3>1
    <2> QED BY <2>1, <2>2
<1>7. FrameCounter' = (FrameCounter + 1) % FrameModulus BY DEF Frame, ShowFrame
<1>8. CASE FrameCounter + 1 < FrameModulus
    <2>1. FrameCounter' = FrameCounter + 1 BY <1>1, <1>7, <1>8
    <2> QED BY <1>3, <1>6, <2>1
<1>9. CASE FrameCounter + 1 = FrameModulus
    <2>1. FrameCounter' = 0 BY <1>1, <1>7, <1>9
    <2>2. w % Cycle = 0 /\ Rounds(FrameCounter', Every) % Cycle = 0
        BY <1>3, <1>9, <2>1, RoundTheCounter
    <2> QED BY <1>6, <2>2
<1> QED BY <1>1, <1>8, <1>9

\* The property, with what it needs of the time before Init.
StepInv ==
    /\ phase = "constructed" => FrameCounter = 0
    /\ phase # "constructed" => At(ChildCount, Increasing, Updates % Cycle)

\* No pause, change of size or key repeats an update or loses one, and each
\* turn takes one, for any number of cubes and any period whose cycle goes
\* evenly into the range of the frame counter: the number of frames shown
\* decides what the window shows, over every time the counter goes round.
THEOREM UpdatesKeepStep ==
    ASSUME FrameModulus % (Cycle * Every) = 0
    PROVE  Spec => []NoUpdateIsLostOrRepeated
<1>1. Init => StepInv
    BY DEF Init, Constructed, StepInv
<1>2. IInv /\ StepInv /\ [Next]_vars => StepInv'
    <2> SUFFICES ASSUME IInv, StepInv, [Next]_vars PROVE StepInv'
        OBVIOUS
    <2>1. CASE StartShowcase
        <3>1. /\ phase' = "running" /\ ChildCount' = 0 /\ Increasing' = TRUE
              /\ FrameCounter' = 0
            BY <2>1 DEF StartShowcase, Start, StepInv
        <3>2. Updates' % Cycle = 0
            <4>1. Rounds(FrameCounter', Every) % Cycle = 0 BY <3>1, RoundTheCounter
            <4> QED BY <4>1 DEF Updates, Rounds
        <3>3. At(ChildCount', Increasing', 0)
            <4>1. (0 <= Most) = TRUE /\ Most \in Nat BY MostAssumption
            <4>2. Increasing' = (0 <= Most) BY <3>1, <4>1
            <4> QED BY <3>1, <4>1, <4>2 DEF At
        <3>4. At(ChildCount', Increasing', (Updates % Cycle)')
            BY <3>2, <3>3 DEF Cycle
        <3> QED BY <3>1, <3>4 DEF StepInv, At, Cycle
    <2>2. CASE Frame
        <3>1. phase = "running" /\ phase' = "running"
            BY <2>2 DEF Frame, ShowFrame, Running
        <3>2. FrameCounter \in 0..(FrameModulus-1) BY DEF IInv, TypeOK, AppTypeOK
        <3>3. At(ChildCount', Increasing', Rounds(FrameCounter', Every) % Cycle)
            BY <2>2, <3>1, <3>2, FrameIsInStep DEF StepInv
        <3> QED BY <3>1, <3>3 DEF StepInv, At, Updates, Rounds, Cycle
    <2>3. CASE FrameCounter' = FrameCounter /\ UNCHANGED ownVars
                /\ ((phase = "constructed") = (phase' = "constructed"))
        BY <2>3 DEF StepInv, At, Updates, Cycle, ownVars
    <2>4. ASSUME \/ TimerS \/ SkipFrame \/ ResizeS \/ CloseWindow
                 \/ \E k \in Keys : HandleKeysSimple(k)
          PROVE  FrameCounter' = FrameCounter
                 /\ ((phase = "constructed") = (phase' = "constructed"))
        BY <2>4 DEF TimerS, SkipFrame, CountedOfSkipped, ResizeS, CloseWindow,
             HandleKeysSimple, Running
    <2>5. CASE UNCHANGED vars
        BY <2>3, <2>5 DEF vars, appVars
    <2> QED BY <2>1, <2>2, <2>3, <2>4, <2>5 DEF Next
<1>3. StepInv => NoUpdateIsLostOrRepeated
    BY DEF StepInv, NoUpdateIsLostOrRepeated, At
<1> QED
    BY <1>1, <1>2, <1>3, Initial, Inductive, PTL DEF Spec
===========================================================================
