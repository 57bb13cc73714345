--------------------------- MODULE Application ---------------------------
(***************************************************************************)
(* The application framework: BaseApplication and SimpleApplication under  *)
(* the main loop of GLUT.  The module has the state of the framework and   *)
(* one action per callback GLUT makes; an application adds what its        *)
(* lifecycle methods Init, Update and HandleKeys do to state of its own.   *)
(*                                                                         *)
(* GLUT is external: a timer fires once for each time it is armed, a       *)
(* redisplay that was posted leads to the display callback, keys and       *)
(* changes of size come at any time, the window can be closed, and the     *)
(* callbacks never overlap.                                                *)
(***************************************************************************)
EXTENDS Naturals

CONSTANTS
    Linux,         \* which branch of the #ifs is compiled
    FrameModulus   \* FrameCounter is kept modulo this number

ASSUME LinuxAssumption == Linux \in BOOLEAN
ASSUME FrameModulusAssumption == FrameModulus \in Nat \ {0}

VARIABLES
    phase,         \* constructed, running, shutDown (by Shutdown), exited (by exit)
    timer,         \* is the timer armed?
    redisplay,     \* was a redisplay posted?
    PauseFlag,
    PrintTime,
    FrameCounter

appVars == <<phase, timer, redisplay, PauseFlag, PrintTime, FrameCounter>>

Keys == {"Esc", "P", "T", "W", "S", "other"}

Running == phase = "running"

\* The constructors arm the timer; creating the window posts a redisplay.
Constructed ==
    /\ phase = "constructed"
    /\ timer = TRUE
    /\ redisplay = TRUE
    /\ PauseFlag = FALSE /\ PrintTime = FALSE
    /\ FrameCounter = 0

\* Start: the application's Init, then the main loop.
Start ==
    /\ phase = "constructed"
    /\ phase' = "running"
    /\ UNCHANGED <<timer, redisplay, PauseFlag, PrintTime, FrameCounter>>

\* TimerS arms the next timer itself.  Mutant: it does not.
Rearmed_Never == FALSE
Rearmed == TRUE

TimerS ==
    /\ Running /\ timer
    /\ timer' = Rearmed
    /\ redisplay' = TRUE
    /\ UNCHANGED <<phase, PauseFlag, PrintTime, FrameCounter>>

\* RenderBase returns at once while paused.
Shows == ~PauseFlag

ShowFrame ==
    /\ Running /\ redisplay /\ Shows
    /\ redisplay' = FALSE
    /\ FrameCounter' = (FrameCounter + 1) % FrameModulus
    /\ UNCHANGED <<phase, timer, PauseFlag, PrintTime>>

\* It returns before it counts the frame.  Mutant: it counts first.
CountedOfSkipped_One == (FrameCounter + 1) % FrameModulus
CountedOfSkipped == FrameCounter

SkipFrame ==
    /\ Running /\ redisplay /\ ~Shows
    /\ redisplay' = FALSE
    /\ FrameCounter' = CountedOfSkipped
    /\ UNCHANGED <<phase, timer, PauseFlag, PrintTime>>

ResizeS ==
    /\ Running
    /\ redisplay' = TRUE
    /\ UNCHANGED <<phase, timer, PauseFlag, PrintTime, FrameCounter>>

\* Esc calls exit, except where the branch for Linux merely declares
\* glutLeaveMainLoop instead of calling it.
Exits(k) == k = "Esc" /\ ~Linux

\* HandleKeysSimple, reached through the listener for all keys; unless it
\* exits, the application's HandleKeys follows.
HandleKeysSimple(k) ==
    /\ Running
    /\ phase' = IF Exits(k) THEN "exited" ELSE phase
    /\ PauseFlag' = IF k = "P" THEN ~PauseFlag ELSE PauseFlag
    /\ PrintTime' = IF k = "T" THEN ~PrintTime ELSE PrintTime
    /\ UNCHANGED <<timer, redisplay, FrameCounter>>

\* The window is closed: on Linux the main loop returns and Shutdown runs.
CloseWindow ==
    /\ Running
    /\ phase' = IF Linux THEN "shutDown" ELSE "exited"
    /\ UNCHANGED <<timer, redisplay, PauseFlag, PrintTime, FrameCounter>>
-----------------------------------------------------------------------------
AppTypeOK ==
    /\ phase \in {"constructed", "running", "shutDown", "exited"}
    /\ timer \in BOOLEAN /\ redisplay \in BOOLEAN
    /\ PauseFlag \in BOOLEAN /\ PrintTime \in BOOLEAN
    /\ FrameCounter \in 0..(FrameModulus-1)

\* The application is open, and is not going to be paused any more.
StaysOpenUnpaused == <>[](Running /\ ~PauseFlag)

\* The frames go on: whatever keys and changes of size come, and however
\* often it was paused, an application that is no longer paused shows frame
\* after frame, because TimerS and RenderBase keep each other going.
FramesGoOn == StaysOpenUnpaused => []<><<TRUE>>_FrameCounter
==========================================================================
