--------------------------- MODULE MatrixStack ---------------------------
(***************************************************************************)
(* GLMatrixStack: a stack is a non-empty sequence of matrices whose last   *)
(* element is the current one, pStack[stackPointer], so stackPointer is    *)
(* Len - 1.  A matrix is the sequence of the factors it is the product of, *)
(* each named by the node it comes from; the identity is <<>>.  Two        *)
(* products are told apart whenever their factors are.                     *)
(***************************************************************************)
EXTENDS Naturals, Sequences, SequencesExt

CONSTANT StackDepth   \* stackDepth: 64 unless the constructor is told more

ASSUME StackDepthAssumption == StackDepth \in Nat \ {0}

Identity == <<>>

FreshStack == <<Identity>>

\* The guard compares the pointer before the increment, so the last push it
\* lets through writes one element behind the array.
PushMatrix(s) == IF Len(s) - 1 < StackDepth THEN Append(s, Last(s)) ELSE s

\* Underflow leaves the stack and sets an error that nobody reads.
\* Mutant: the bottom matrix is taken to be at 1.
PopMatrix_Above1(s) == IF Len(s) - 1 > 1 THEN Front(s) ELSE s
PopMatrix(s) == IF Len(s) - 1 > 0 THEN Front(s) ELSE s

LoadMatrix(s, m) == [s EXCEPT ![Len(s)] = m]

MultMatrix(s, f) == [s EXCEPT ![Len(s)] = Append(@, f)]

\* The stack pointer is inside the array of StackDepth matrices.
InsideArray(s) == Len(s) <= StackDepth
==========================================================================
