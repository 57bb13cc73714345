------------------------ MODULE ApplicationProofs ------------------------
(* What holds of the framework's own state in every application: the       *)
(* lemmas the proofs about the showcases share.                            *)
EXTENDS Application, Integers, TLAPS

\* What the constructors leave is well typed.
LEMMA FrameworkStarts == Constructed => AppTypeOK
<1> SUFFICES ASSUME Constructed PROVE AppTypeOK
    OBVIOUS
<1>1. FrameCounter \in 0..(FrameModulus-1)
    BY FrameModulusAssumption DEF Constructed
<1>2. timer \in BOOLEAN /\ redisplay \in BOOLEAN
      /\ PauseFlag \in BOOLEAN /\ PrintTime \in BOOLEAN
    BY Zenon DEF Constructed
<1>3. phase \in {"constructed", "running", "shutDown", "exited"}
    BY DEF Constructed
<1> QED
    BY Zenon, <1>1, <1>2, <1>3 DEF AppTypeOK

\* Every callback.
FrameworkStep ==
    \/ Start \/ TimerS \/ SkipFrame \/ ResizeS \/ CloseWindow
    \/ ShowFrame \/ \E k \in Keys : HandleKeysSimple(k)

\* Whatever the framework does keeps it so.
LEMMA FrameworkTypes == AppTypeOK /\ [FrameworkStep]_appVars => AppTypeOK'
<1> SUFFICES ASSUME AppTypeOK, [FrameworkStep]_appVars PROVE AppTypeOK'
    OBVIOUS
<1> USE DEF AppTypeOK
<1>1. CASE Start \/ TimerS \/ SkipFrame \/ ResizeS \/ CloseWindow
    BY <1>1 DEF Start, TimerS, SkipFrame, CountedOfSkipped, ResizeS, CloseWindow,
             Rearmed
<1>2. CASE ShowFrame
    <2>1. (FrameCounter + 1) % FrameModulus \in 0..(FrameModulus-1)
        BY FrameModulusAssumption
    <2> QED
        BY <1>2, <2>1 DEF ShowFrame
<1>3. ASSUME NEW k \in Keys, HandleKeysSimple(k) PROVE AppTypeOK'
    BY <1>3 DEF HandleKeysSimple
<1>4. CASE UNCHANGED appVars
    BY <1>4 DEF appVars
<1> QED
    BY <1>1, <1>2, <1>3, <1>4 DEF FrameworkStep
==========================================================================
