---------------------------- MODULE ChildList ----------------------------
(***************************************************************************)
(* The part of std::list<Node*> that CompositeNode relies on: the          *)
(* operation list::remove, which drops every occurrence of a pointer and   *)
(* keeps the order of the others.  (push_back is Append.)                  *)
(***************************************************************************)
EXTENDS Naturals, Sequences, FiniteSets

\* The positions of s that survive list::remove(x).
KeptPositions(s, x) == {i \in DOMAIN s : s[i] # x}

\* An enumeration of the finite set of positions P in increasing order.
Increasing(f, P) ==
    /\ f \in [1..Cardinality(P) -> P]
    /\ \A j, k \in 1..Cardinality(P) : j < k => f[j] < f[k]

\* list::remove(x) on the list s.
Without(s, x) ==
    LET kept == KeptPositions(s, x)
        at   == CHOOSE f \in [1..Cardinality(kept) -> kept] : Increasing(f, kept)
    IN  [k \in 1..Cardinality(kept) |-> s[at[k]]]

\* No pointer occurs twice in s.
NoDuplicates(s) == \A i, j \in DOMAIN s : s[i] = s[j] => i = j
==========================================================================
