--------------------------- MODULE RenderState ---------------------------
(***************************************************************************)
(* State and OpenGLState: sets of OpenGL capabilities to switch on and to  *)
(* switch off, changed by Enable, Disable, Merge, assignment and copying,  *)
(* and applied to the pipeline by Apply.                                   *)
(*                                                                         *)
(* The lists are allocated on first use.  A missing list of enables        *)
(* behaves like an empty one everywhere; a missing list of disables does   *)
(* not, since Merge walks it without asking, so hasDisables remembers it.  *)
(* broken becomes TRUE when the program follows a null, freed or           *)
(* uninitialised pointer; nothing is claimed of it after that.             *)
(***************************************************************************)
EXTENDS Naturals, FiniteSets

CONSTANTS
    States,         \* the State objects of a program
    Capabilities,   \* GL_LIGHTING, GL_LIGHT0, ...
    Materials,
    Null,           \* the null pointer
    EnablesOnly     \* does the program merge only states without disables?

ASSUME NullAssumption == Null \notin Materials
ASSUME EnablesOnlyAssumption == EnablesOnly \in BOOLEAN

VARIABLES
    enables,      \* what _enables holds
    disables,     \* what _disables holds
    hasDisables,  \* is _disables allocated?
    material,     \* the value of *_material, or Null
    gl,           \* the capabilities OpenGL has switched on (external)
    broken

lists == <<enables, disables, hasDisables>>
vars == <<lists, material, gl, broken>>

Init ==
    /\ enables = [s \in States |-> {}]
    /\ disables = [s \in States |-> {}]
    /\ hasDisables = [s \in States |-> FALSE]
    /\ material = [s \in States |-> Null]
    /\ gl \in SUBSET Capabilities
    /\ broken = FALSE

\* What Enable leaves in the list of disables: the capability is erased.
\* Mutant: it stays.
DisablesAfterEnable_Kept(old, c) == old
DisablesAfterEnable(old, c) == old \ {c}

Enable(s, c) ==
    /\ ~broken
    /\ disables' = [disables EXCEPT ![s] = DisablesAfterEnable(@, c)]
    /\ enables' = [enables EXCEPT ![s] = @ \cup {c}]
    /\ UNCHANGED <<hasDisables, material, gl, broken>>

\* Disable allocates the list it inserts into.  Mutant: it does not.
Allocated_Not(before) == before
Allocated(before) == TRUE

Disable(s, c) ==
    /\ ~broken
    /\ enables' = [enables EXCEPT ![s] = @ \ {c}]
    /\ disables' = [disables EXCEPT ![s] = @ \cup {c}]
    /\ hasDisables' = [hasDisables EXCEPT ![s] = Allocated(@)]
    /\ UNCHANGED <<material, gl, broken>>

SetMaterial(s, m) ==
    /\ ~broken
    /\ material' = [material EXCEPT ![s] = m]
    /\ UNCHANGED <<lists, gl, broken>>

\* EnablesOnly keeps away from what Merge gets wrong.
MayMerge(t) == EnablesOnly => ~hasDisables[t]

\* The loop over the enables of t is a loop of Enable.  The one over the
\* disables walks the own list of s: it follows a null pointer if there is
\* none, and otherwise disables what s disables already.  A material of its
\* own is freed before it is copied.
MergeInto(s, t, ownEnables, ownDisables) ==
    LET on  == ownEnables \cup enables[t]
        off == ownDisables \ enables[t]
        nullWalk == hasDisables[t] /\ ~hasDisables[s]
        freed == s = t /\ material[t] # Null
    IN  /\ enables' = [enables EXCEPT ![s] = IF hasDisables[t] THEN on \ off ELSE on]
        /\ disables' = [disables EXCEPT ![s] = off]
        /\ broken' = (nullWalk \/ freed)
        /\ material' = IF material[t] = Null \/ broken' THEN material
                       ELSE [material EXCEPT ![s] = material[t]]
        /\ UNCHANGED <<hasDisables, gl>>

Merge(s, t) ==
    /\ ~broken
    /\ MayMerge(t)
    /\ MergeInto(s, t, enables[s], disables[s])

\* operator=: the own lists are emptied first, also those of t when t is s.
Assign(s, t) ==
    /\ ~broken
    /\ s # t
    /\ MayMerge(t)
    /\ MergeInto(s, t, {}, {})

AssignSelf(s) ==
    /\ ~broken
    /\ MayMerge(s)
    /\ enables' = [enables EXCEPT ![s] = {}]
    /\ disables' = [disables EXCEPT ![s] = {}]
    /\ broken' = (material[s] # Null)
    /\ UNCHANGED <<hasDisables, material, gl>>

\* The copy constructor merges into members it has not initialised: memory
\* that happens to be zero is an empty State, anything else is followed.  s
\* is the object the copy is made in; what was there is gone.
CopyConstruct(s, t) ==
    /\ ~broken
    /\ s # t
    /\ MayMerge(t)
    /\ enables' = [enables EXCEPT ![s] = enables[t]]
    /\ disables' = [disables EXCEPT ![s] = {}]
    /\ hasDisables' = [hasDisables EXCEPT ![s] = FALSE]
    /\ material' = [material EXCEPT ![s] = material[t]]
    /\ broken' \in {hasDisables[t], TRUE}
    /\ UNCHANGED gl

\* The switches Apply sets, in its order: glEnable, then glDisable.
\* Mutant: the disables are forgotten.
Applied_EnablesOnly(s) == gl \cup enables[s]
Applied(s) == (gl \cup enables[s]) \ disables[s]

Apply(s) ==
    /\ ~broken
    /\ gl' = Applied(s)
    /\ UNCHANGED <<lists, material, broken>>

Next ==
    \/ \E s \in States, c \in Capabilities : Enable(s, c) \/ Disable(s, c)
    \/ \E s \in States, m \in Materials : SetMaterial(s, m)
    \/ \E s, t \in States : Merge(s, t) \/ Assign(s, t) \/ CopyConstruct(s, t)
    \/ \E s \in States : AssignSelf(s) \/ Apply(s)

Spec == Init /\ [][Next]_vars
-----------------------------------------------------------------------------
\* What is not allocated holds nothing.
TypeOK ==
    /\ enables \in [States -> SUBSET Capabilities]
    /\ disables \in [States -> SUBSET Capabilities]
    /\ hasDisables \in [States -> BOOLEAN]
    /\ \A s \in States : ~hasDisables[s] => disables[s] = {}
    /\ material \in [States -> Materials \cup {Null}]
    /\ gl \subseteq Capabilities
    /\ broken \in BOOLEAN

\* No capability is asked for and refused at once, however Enable, Disable
\* and Merge follow each other: the last call for it decides.
NeverBoth == \A s \in States : enables[s] \cap disables[s] = {}

\* OpenGLState.cpp:7 and 15 say that Apply disables first and then enables; the
\* code has it the other way round.  The outcome is nevertheless the one
\* of the comments.
AppliesAsDocumented ==
    [][\A s \in States : Apply(s) => gl' = (gl \ disables[s]) \cup enables[s]]_vars

\* State.cpp:71: "We take all enables and disables and put them in our
\* lists", and what the argument says overwrites.
MergeTakesDisables ==
    [][\A s, t \in States : Merge(s, t) =>
         /\ disables'[s] = (disables[s] \ enables[t]) \cup disables[t]
         /\ enables'[s] = (enables[s] \ disables[t]) \cup enables[t]]_vars
==========================================================================
