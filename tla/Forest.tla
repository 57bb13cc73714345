------------------------------ MODULE Forest ------------------------------
(***************************************************************************)
(* What the scene graph promises: an ordered forest.  A node is planted    *)
(* as a tree of its own, a tree is grafted below a node of another tree,   *)
(* and a subtree is pruned as a whole, in one step, leaving every other    *)
(* node and the order of its children as they were.                        *)
(***************************************************************************)
EXTENDS Naturals, Sequences, FiniteSets, ChildList

CONSTANTS Nodes
VARIABLES nodes,     \* the nodes of the forest
          kids       \* the ordered children of each of them

Occurs(s, n) == \E i \in DOMAIN s : s[i] = n

IsRoot(n) == \A m \in nodes : ~Occurs(kids[m], n)

\* n and everything below it: the least set with n in it that has, with
\* every node, the children of that node.
Subtree(n) ==
    LET all == nodes
        list == kids
        downward == {S \in SUBSET all :
                       n \in S /\ \A a \in S, m \in all : Occurs(list[a], m) => m \in S}
    IN  {m \in all : \A S \in downward : m \in S}

Init == nodes = {} /\ kids = [n \in {} |-> <<>>]

Plant(n) ==
    /\ n \notin nodes
    /\ nodes' = nodes \cup {n}
    /\ kids' = [m \in nodes' |-> IF m = n THEN <<>> ELSE kids[m]]

Graft(p, n) ==
    /\ p \in nodes /\ n \in nodes
    /\ IsRoot(n)
    /\ p \notin Subtree(n)
    /\ kids' = [kids EXCEPT ![p] = Append(@, n)]
    /\ UNCHANGED nodes

Prune(n) ==
    /\ n \in nodes
    /\ nodes' = nodes \ Subtree(n)
    /\ kids' = [m \in nodes' |-> Without(kids[m], n)]

Next == \/ \E n \in Nodes : Plant(n) \/ Prune(n)
        \/ \E p, n \in Nodes : Graft(p, n)

Spec == Init /\ [][Next]_<<nodes, kids>>
===========================================================================
