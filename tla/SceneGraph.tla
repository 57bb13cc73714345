---------------------------- MODULE SceneGraph ----------------------------
(***************************************************************************)
(* Ownership of the nodes of the scene graph: Node.cpp, CompositeNode.hpp. *)
(*                                                                         *)
(* Every concrete node class (Group, Transform, Camera, Light, Geometry)   *)
(* derives from CompositeNode, so every node is an address in Nodes with a *)
(* name, a parent pointer and a list of children.  A parent owns the nodes *)
(* of its list: ~CompositeNode deletes them, and RemoveChild deletes what  *)
(* it removes.  The recursive destructor is modelled call by call: dtor is *)
(* the stack of its running activations, and the client runs only while    *)
(* that stack is empty (the program is single threaded).  An address can   *)
(* be handed out again by new after delete.                                *)
(*                                                                         *)
(* broken becomes TRUE when the program would dereference or delete a node *)
(* that is already destroyed or being destroyed; nothing is claimed of the *)
(* program after that, so no action is enabled.                            *)
(***************************************************************************)
EXTENDS Naturals, Sequences, FiniteSets, ChildList

CONSTANTS
    Nodes,          \* the addresses of nodes
    Names,          \* the node names
    Null,           \* the null pointer
    CarefulClient,  \* does the client add only roots, and delete only roots?
    MaxChildren     \* bound on the length of a list of children

\* A program has finitely many addresses.
ASSUME NodesAssumption == IsFiniteSet(Nodes)
ASSUME NullAssumption == Null \notin Nodes
ASSUME NamesAssumption == Names # {}
ASSUME CarefulClientAssumption == CarefulClient \in BOOLEAN
ASSUME MaxChildrenAssumption == MaxChildren \in Nat

VARIABLES
    alive,      \* the addresses at which a node lives
    name,       \* _name
    parent,     \* _parent
    children,   \* _children
    dtor,       \* the running calls of ~CompositeNode, the outermost first
    broken      \* undefined behaviour has occurred

vars == <<alive, name, parent, children, dtor, broken>>

\* One activation of ~CompositeNode: whose, and the child its loop is at.
Frame == [node : Nodes, next : Nat \ {0}]

\* What the name of an address without a node is taken to be.
Blank == CHOOSE nm \in Names : TRUE

Idle == dtor = <<>> /\ ~broken

Occurs(s, n) == \E i \in DOMAIN s : s[i] = n

\* n and the nodes on its chain of parent pointers: the least set with n in
\* it that has, with every living node, the parent of that node.
Ancestry(n) ==
    LET upward == {S \in SUBSET Nodes :
                     n \in S /\ \A m \in S \cap alive : parent[m] \in S \cup {Null}}
    IN  {m \in Nodes : \A S \in upward : m \in S}

(***************************************************************************)
(* An assumption about the client, which CompositeNode does not check.     *)
(* The applications of the repository add a node that they have just made, *)
(* or the root of a tree they have just built, to a node that is not below *)
(* it, and never call SetParent; the trees end with the application's      *)
(* RootNode.  A careful client keeps to that; any other may close a ring.  *)
(***************************************************************************)
MayAdd(p, n) == CarefulClient => parent[n] = Null /\ n \notin Ancestry(p)
MayDelete(n) == CarefulClient => parent[n] = Null

Init ==
    /\ alive = {}
    /\ name = [n \in Nodes |-> Blank]
    /\ parent = [n \in Nodes |-> Null]
    /\ children = [n \in Nodes |-> <<>>]
    /\ dtor = <<>>
    /\ broken = FALSE

\* new: the constructor with a name.  The one without gives some name too: it
\* means to number the nodes, but moves a pointer along the literal "Node".
NewNode(n, nm) ==
    /\ Idle
    /\ n \notin alive
    /\ alive' = alive \cup {n}
    /\ name' = [name EXCEPT ![n] = nm]
    /\ parent' = [parent EXCEPT ![n] = Null]
    /\ children' = [children EXCEPT ![n] = <<>>]
    /\ UNCHANGED <<dtor, broken>>

SetName(n, nm) ==
    /\ Idle
    /\ n \in alive
    /\ name' = [name EXCEPT ![n] = nm]
    /\ UNCHANGED <<alive, parent, children, dtor, broken>>

\* The setter assigns and touches no list of children.
\* Mutant: AddChild forgets to call it.
SetParentTo_Forgotten(n, p) == UNCHANGED parent
SetParentTo(n, p) == parent' = [parent EXCEPT ![n] = p]

\* It is public, though no application calls it.
SetParent(n, p) ==
    /\ Idle
    /\ ~CarefulClient
    /\ n \in alive
    /\ p \in alive \cup {Null}
    /\ SetParentTo(n, p)
    /\ UNCHANGED <<alive, name, children, dtor, broken>>

\* An earlier parent is only warned about.
AddChild(p, n) ==
    /\ Idle
    /\ p \in alive /\ n \in alive
    /\ MayAdd(p, n)
    /\ Len(children[p]) < MaxChildren
    /\ SetParentTo(n, p)
    /\ children' = [children EXCEPT ![p] = Append(@, n)]
    /\ UNCHANGED <<alive, name, dtor, broken>>

\* ~CompositeNode is entered with its loop at the first child.
\* Mutants: the loop starts before the first child, or at the second.
Entered_BeforeFirst(n) == [node |-> n, next |-> 0]
Entered_AtSecond(n) == [node |-> n, next |-> 2]
Entered(n) == [node |-> n, next |-> 1]

\* it != _children.end() is false.  Mutant: the loop stops one early.
LoopOver_OneEarly(f) == f.next >= Len(children[f.node])
LoopOver(f) == f.next > Len(children[f.node])

\* it++.  Mutant: the loop does not move on.
Advanced_Stays(f) == f
Advanced(f) == [f EXCEPT !.next = @ + 1]

\* delete n, from a program whose running destructors are calls: enter its
\* destructor, unless there is no such object any more.
Delete(n, calls) ==
    IF n \in alive /\ \A k \in DOMAIN calls : calls[k].node # n
    THEN dtor' = Append(calls, Entered(n)) /\ UNCHANGED broken
    ELSE broken' = TRUE /\ UNCHANGED dtor

\* The tail both RemoveChild share: remove the pointer from the list, which it
\* need not be in, and delete the node if the list is shorter than before.
\* Mutant: the node is deleted but stays listed.
RemoveAndDelete_KeepsListed(p, n) ==
    Delete(n, dtor) /\ UNCHANGED <<alive, name, parent, children>>
RemoveAndDelete(p, n) ==
    LET left == Without(children[p], n) IN
    /\ children' = [children EXCEPT ![p] = left]
    /\ IF Len(left) < Len(children[p]) THEN Delete(n, dtor) ELSE UNCHANGED <<dtor, broken>>
    /\ UNCHANGED <<alive, name, parent>>

RemoveChild(p, n) ==
    /\ Idle
    /\ p \in alive
    /\ RemoveAndDelete(p, n)

ChildrenNamed(p, nm) == {i \in DOMAIN children[p] : name[children[p][i]] = nm}

FirstNamed(p, nm) ==
    children[p][CHOOSE i \in ChildrenNamed(p, nm) : \A j \in ChildrenNamed(p, nm) : i <= j]

\* What the search by name ends with: the first child of that name, or the
\* null pointer it began with.  Mutant: the last child it has looked at.
SearchedChild_LastSeen(p, nm) ==
    CASE ChildrenNamed(p, nm) # {} -> FirstNamed(p, nm)
      [] children[p] = <<>>        -> Null
      [] OTHER                     -> children[p][Len(children[p])]
SearchedChild(p, nm) == IF ChildrenNamed(p, nm) = {} THEN Null ELSE FirstNamed(p, nm)

\* The search stops at the first child of that name; reading the name of a
\* destroyed child is undefined.  The code goes on if nothing was found.
RemoveChildByName(p, nm) ==
    /\ Idle
    /\ p \in alive
    /\ LET read == {i \in DOMAIN children[p] : \A j \in ChildrenNamed(p, nm) : i <= j}
       IN  \/ /\ \E i \in read : children[p][i] \notin alive
              /\ broken' = TRUE
              /\ UNCHANGED <<alive, name, parent, children, dtor>>
           \/ /\ \A i \in read : children[p][i] \in alive
              /\ RemoveAndDelete(p, SearchedChild(p, nm))

\* The first child whose subtree answers.  Mutant: the last.
FirstOf_Last(found) == CHOOSE i \in found : \A j \in found : i >= j
FirstOf(found) == CHOOSE i \in found : \A j \in found : i <= j

\* What GetByName returns at m if its calls on the children return below: the
\* node itself, or what the first child that finds one has found.
FoundAt(below, m, nm) ==
    LET found == {i \in DOMAIN children[m] : below[children[m][i]] # Null}
    IN  CASE name[m] = nm -> m
          [] name[m] # nm /\ found = {} -> Null
          [] OTHER -> below[children[m][FirstOf(found)]]

\* GetByName changes nothing.  No path is longer than there are nodes.
GetByName(n, nm) ==
    LET find[k \in 0..Cardinality(Nodes)] ==
            [m \in Nodes |->
                FoundAt(IF k = 0 THEN [c \in Nodes |-> Null] ELSE find[k-1], m, nm)]
    IN  find[Cardinality(Nodes)][n]

\* The client deletes a tree it holds.
DeleteTree(n) ==
    /\ Idle
    /\ n \in alive
    /\ MayDelete(n)
    /\ Delete(n, dtor)
    /\ UNCHANGED <<alive, name, parent, children>>

\* The running call of ~CompositeNode.
Top == dtor[Len(dtor)]

\* Its loop deletes the next child.
DeleteNextChild ==
    /\ dtor # <<>> /\ ~broken
    /\ ~LoopOver(Top)
    /\ Delete(children[Top.node][Top.next], [dtor EXCEPT ![Len(dtor)] = Advanced(@)])
    /\ UNCHANGED <<alive, name, parent, children>>

\* The loop is over: the list, the name and the memory go.
FinishDestructor ==
    /\ dtor # <<>> /\ ~broken
    /\ LoopOver(Top)
    /\ alive' = alive \ {Top.node}
    /\ name' = [name EXCEPT ![Top.node] = Blank]
    /\ parent' = [parent EXCEPT ![Top.node] = Null]
    /\ children' = [children EXCEPT ![Top.node] = <<>>]
    /\ dtor' = SubSeq(dtor, 1, Len(dtor) - 1)
    /\ UNCHANGED broken

Destructor == DeleteNextChild \/ FinishDestructor

ClientCall ==
    \/ \E n \in Nodes, nm \in Names : \/ NewNode(n, nm)
                                      \/ SetName(n, nm)
                                      \/ RemoveChildByName(n, nm)
    \/ \E n \in Nodes : DeleteTree(n)
    \/ \E n \in Nodes, p \in Nodes \cup {Null} : SetParent(n, p)
    \/ \E p, n \in Nodes : AddChild(p, n) \/ RemoveChild(p, n)

Next == ClientCall \/ Destructor

Spec == Init /\ [][Next]_vars

\* A destructor that has been entered runs on: it is a synchronous call.
FairSpec == Spec /\ WF_vars(Destructor)
-----------------------------------------------------------------------------
TypeOK ==
    /\ alive \subseteq Nodes
    /\ name \in [Nodes -> Names]
    /\ parent \in [Nodes -> Nodes \cup {Null}]
    /\ children \in [Nodes -> Seq(Nodes)]
    /\ dtor \in Seq(Frame)
    /\ broken \in BOOLEAN

\* No node is deleted twice and no destroyed node is used: the destructors
\* of CompositeNode.hpp:15 and the two RemoveChild never reach a dead child.
NoUndefinedBehaviour == ~broken

\* The loop of p's destructor, if it runs, has not yet reached position i.
Pending(p, i) == \A k \in DOMAIN dtor : dtor[k].node = p => i >= dtor[k].next

\* A listed child that no destructor has reached lives and points back.
ListedChildPointsBack ==
    \A p \in alive : \A i \in DOMAIN children[p] :
        Pending(p, i) => children[p][i] \in alive /\ parent[children[p][i]] = p

ListedOnce == \A p \in alive : NoDuplicates(children[p])

\* A parent pointer leads to a living node that lists the child; only the
\* node whose deletion is under way has left the list already.
ParentListsChild ==
    \A n \in alive :
        parent[n] # Null /\ (dtor # <<>> => n # dtor[1].node)
            => parent[n] \in alive /\ Occurs(children[parent[n]], n)

\* AddChild, RemoveChild and the destructor keep _parent and _children in
\* agreement: each node is in the list of its parent, once, and in no other.
LinksConsistent == ListedChildPointsBack /\ ListedOnce /\ ParentListsChild

\* m comes before n when a tree is walked from its root, children in order.
Precedes(m, n) ==
    \/ m # n /\ m \in Ancestry(n)
    \/ \E p \in alive : \E i, j \in DOMAIN children[p] :
          i < j /\ children[p][i] \in Ancestry(m) /\ children[p][j] \in Ancestry(n)

\* Looking down the lists of children, GetByName finds a node exactly if one
\* of that name has n above it by parent pointers, a living one and the first,
\* after whatever additions, renamings and removals.
LookupFindsTheFirst ==
    Idle => \A n \in alive, nm \in Names :
        LET found == GetByName(n, nm)
            named == {m \in alive : n \in Ancestry(m) /\ name[m] = nm}
        IN  IF named = {} THEN found = Null
            ELSE found \in named /\ \A m \in named \ {found} : Precedes(found, m)

\* Whatever the client does, a node goes only after every child of its list:
\* the loop of ~CompositeNode skips none, so nothing of a subtree leaks.
ChildrenDieFirst ==
    [][\A n \in alive \ alive' : \A i \in DOMAIN children[n] :
         children[n][i] \notin alive']_vars

\* A deletion is carried through: the destructor returns to the client.
DeletionEnds == dtor # <<>> ~> dtor = <<>>

\* Nodes that no deletion under way is going to destroy.
Kept == {n \in alive : dtor = <<>> \/ dtor[1].node \notin Ancestry(n)}

F == INSTANCE Forest WITH nodes <- Kept, kids <- [n \in Kept |-> children[n]]

\* The graph implements an ordered forest in which a removal takes the whole
\* subtree and nothing else: no node leaks, none outside the subtree dies.
ImplementsForest == F!Spec

\* RemoveChild by name takes the first child of that name with all that is
\* below it, and if no child has it "nothing at all happens"
\* (CompositeNode.hpp:55), though the code goes on with a null pointer.
OnlyTheNamedGoes ==
    [][\A p \in alive, nm \in Names : RemoveChildByName(p, nm) =>
         \/ ChildrenNamed(p, nm) = {} /\ UNCHANGED vars
         \/ \E i \in ChildrenNamed(p, nm) :
               /\ \A j \in ChildrenNamed(p, nm) : i <= j
               /\ Kept' = {m \in alive : children[p][i] \notin Ancestry(m)}]_vars
-----------------------------------------------------------------------------
(***************************************************************************)
(* What a comment says and a client may therefore rely on.                 *)
(***************************************************************************)

\* CompositeNode.hpp:26: "the node will always just be at the place where
\* it was added the last", so no two lists hold it.
AtOnePlaceOnly ==
    \A p, q \in alive : \A n \in Nodes :
        Occurs(children[p], n) /\ Occurs(children[q], n) => p = q
=============================================================================
