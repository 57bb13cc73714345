------------------------ MODULE RenderStateProofs ------------------------
(***************************************************************************)
(* RenderState for any number of State objects, capabilities and           *)
(* materials, whether or not the program avoids the broken part of Merge.  *)
(*                                                                         *)
(* IInv is inductive: NeverBoth needs the types, and nothing more, because *)
(* every list is changed together with its opposite.                       *)
(***************************************************************************)
EXTENDS RenderState, TLAPS

IInv == TypeOK /\ NeverBoth

\* Every step keeps the invariant.
LEMMA Inductive == IInv /\ [Next]_vars => IInv'
<1> SUFFICES ASSUME IInv, [Next]_vars PROVE IInv'
    OBVIOUS
<1> USE DEF IInv, TypeOK, NeverBoth, lists
<1>1. ASSUME NEW s \in States, NEW c \in Capabilities, Enable(s, c) PROVE IInv'
    BY <1>1 DEF Enable, DisablesAfterEnable
<1>2. ASSUME NEW s \in States, NEW c \in Capabilities, Disable(s, c) PROVE IInv'
    BY <1>2 DEF Disable, Allocated
<1>3. ASSUME NEW s \in States, NEW m \in Materials, SetMaterial(s, m) PROVE IInv'
    BY <1>3 DEF SetMaterial
<1>4. ASSUME NEW s \in States, NEW t \in States, Merge(s, t) PROVE IInv'
    BY <1>4 DEF Merge, MergeInto
<1>5. ASSUME NEW s \in States, NEW t \in States, Assign(s, t) PROVE IInv'
    BY <1>5 DEF Assign, MergeInto
<1>6. ASSUME NEW s \in States, NEW t \in States, CopyConstruct(s, t) PROVE IInv'
    BY <1>6 DEF CopyConstruct
<1>7. ASSUME NEW s \in States, AssignSelf(s) PROVE IInv'
    BY <1>7 DEF AssignSelf
<1>8. ASSUME NEW s \in States, Apply(s) PROVE IInv'
    BY <1>8 DEF Apply, Applied
<1>9. CASE UNCHANGED vars
    BY <1>9 DEF vars
<1> QED
    BY <1>1, <1>2, <1>3, <1>4, <1>5, <1>6, <1>7, <1>8, <1>9 DEF Next

\* The invariant holds at the start.
LEMMA Initial == Init => IInv
    BY DEF Init, IInv, TypeOK, NeverBoth

\* The members of every State stay well formed; a list of disables that is
\* not allocated is empty.
THEOREM TypeCorrect == Spec => []TypeOK
<1>1. IInv => TypeOK
    BY DEF IInv
<1> QED
    BY <1>1, Initial, Inductive, PTL DEF Spec

\* The last Enable or Disable of a capability decides: no State asks for and
\* refuses the same one.
THEOREM LastCallDecides == Spec => []NeverBoth
<1>1. IInv => NeverBoth
    BY DEF IInv
<1> QED
    BY <1>1, Initial, Inductive, PTL DEF Spec

\* Apply enables first and disables second, against its comments; since no
\* capability is in both lists the pipeline ends as the comments say.
THEOREM OrderOfApplyIsImmaterial == Spec => AppliesAsDocumented
<1> DEFINE Documented ==
        \A s \in States : Apply(s) => gl' = (gl \ disables[s]) \cup enables[s]
<1>1. IInv /\ [Next]_vars => [Documented]_vars
    BY DEF IInv, NeverBoth, Apply, Applied
<1> QED
    BY <1>1, Initial, Inductive, PTL DEF Spec, AppliesAsDocumented
==========================================================================
