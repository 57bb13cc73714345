-------------------------- MODULE AddRemoveChild --------------------------
(***************************************************************************)
(* The showcase that adds cubes to the root node up to Most of them and    *)
(* takes them away again, one every Every frames, for ever.                *)
(***************************************************************************)
EXTENDS Application, Integers, Sequences, SequencesExt

CONSTANTS
    Most,    \* 10 in the code
    Every    \* 10 in the code

ASSUME MostAssumption == Most \in Nat \ {0}
ASSUME EveryAssumption == Every \in Nat \ {0}

VARIABLES
    ChildCount,
    Increasing,
    list         \* the names of the children of RootNode

ownVars == <<ChildCount, Increasing, list>>
vars == <<appVars, ownVars>>

\* The names: the light SimpleApplication adds, and "Cube" with a number.
GlobalLight == 0
Cube(i) == i + 1

\* ChildCount and Increasing have no values before Init gives them some.
Init ==
    /\ Constructed
    /\ list = <<GlobalLight>>
    /\ ChildCount \in 0..Most
    /\ Increasing \in BOOLEAN

StartShowcase ==
    /\ Start
    /\ ChildCount' = 0
    /\ Increasing' = TRUE
    /\ UNCHANGED list

\* Mutant: one cube more.
AtTop_OneLate == ChildCount = Most + 1
AtTop == ChildCount = Most

AddCube ==
    /\ Increasing /\ ~AtTop
    /\ list' = Append(list, Cube(ChildCount))
    /\ ChildCount' = ChildCount + 1
    /\ UNCHANGED Increasing

\* ChildCount is counted down before the name is made.  Mutant: after.
Removed_After == Cube(ChildCount)
Removed == Cube(ChildCount - 1)

RemoveCube ==
    /\ ~Increasing /\ ChildCount # 0
    /\ list' = RemoveFirst(list, Removed)
    /\ ChildCount' = ChildCount - 1
    /\ UNCHANGED Increasing

\* At either end a round is spent on turning.  Mutant: no turn at the top.
Turns_AtBottom == ChildCount = 0 /\ ~Increasing
Turns == \/ Increasing /\ AtTop
         \/ ~Increasing /\ ChildCount = 0

Turn ==
    /\ Turns
    /\ Increasing' = ~Increasing
    /\ UNCHANGED <<ChildCount, list>>

Update ==
    IF FrameCounter % Every = 0 THEN AddCube \/ RemoveCube \/ Turn
    ELSE UNCHANGED ownVars

Frame == ShowFrame /\ Update

Next ==
    \/ StartShowcase
    \/ Frame
    \/ /\ \/ TimerS \/ SkipFrame \/ ResizeS \/ CloseWindow
          \/ \E k \in Keys : HandleKeysSimple(k)
       /\ UNCHANGED ownVars

Spec == Init /\ [][Next]_vars

\* GLUT delivers a timer that is armed and a redisplay that was posted.
FairSpec ==
    /\ Spec
    /\ WF_vars(StartShowcase)
    /\ WF_vars(TimerS /\ UNCHANGED ownVars)
    /\ WF_vars(Frame)
    /\ WF_vars(SkipFrame /\ UNCHANGED ownVars)
-----------------------------------------------------------------------------
TypeOK ==
    /\ AppTypeOK
    /\ ChildCount \in 0..Most
    /\ Increasing \in BOOLEAN
    /\ list \in Seq(Nat)

\* The children of the root are the light and the cubes counted, in order and
\* once each, however often the showcase has turned: Update always removes
\* the cube it added last.
ShowsTheCubes ==
    phase # "constructed" =>
        list = <<GlobalLight>> \o [i \in 1..ChildCount |-> Cube(i - 1)]

\* The updates there have been, one for each multiple of Every that the frame
\* counter has passed.  Up and down again takes 2 * Most + 2 of them.
Cycle == 2 * Most + 2
Updates == (FrameCounter + Every - 1) \div Every

\* What the window shows is decided by the number of frames it has shown:
\* pauses, changes of size and keys between any two frames neither repeat an
\* update nor lose one, and each turn takes an update of its own.  (For a
\* FrameModulus that is a multiple of Cycle * Every.)
NoUpdateIsLostOrRepeated ==
    phase # "constructed" =>
        LET step == Updates % Cycle
        IN  /\ ChildCount = IF step <= Most THEN step ELSE Cycle - 1 - step
            /\ Increasing = (step <= Most)

\* The showcase never gets stuck at an end.
CubesComeAndGo ==
    StaysOpenUnpaused => []<>(ChildCount = Most) /\ []<>(ChildCount = 0)
===========================================================================
