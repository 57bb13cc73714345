------------------------- MODULE SceneGraphProofs -------------------------
(***************************************************************************)
(* For any number of nodes and lists of any length.                        *)
(*                                                                         *)
(* Any client: the calls of the destructor nest (CallsNest), and what one  *)
(* has passed of its list is gone (PassedChildrenAreGone), so a node goes  *)
(* after its children.                                                     *)
(*                                                                         *)
(* A careful client never makes the graph delete a node twice or use a     *)
(* destroyed one, keeps parent pointers and lists of children in agreement *)
(* (IInv).  That AddChild closes no ring is assumed of it (MayAdd); that   *)
(* nothing else does is a lemma (AcyclicPreserved).  From these two,       *)
(* GraphInv, follows that GetByName finds the first node of a name, that   *)
(* RemoveChild by name takes that of the list, and that every step is one  *)
(* of the abstract Forest or none.                                         *)
(*                                                                         *)
(* What is above a node is the least set closed under the parent pointers  *)
(* (Chain); a fact about it is proved by giving a set that is so closed.   *)
(***************************************************************************)
EXTENDS SceneGraph, ChildListProofs, SequenceTheorems, TLAPS

\* The running destructors: each was called by the one below it, for the
\* child just before that one's position, and they are all different.
CallsNest ==
    /\ \A k \in DOMAIN dtor : dtor[k].node \in alive
    /\ \A j, k \in DOMAIN dtor : dtor[j].node = dtor[k].node => j = k
    /\ \A k \in DOMAIN dtor : k > 1 =>
         LET caller == dtor[k-1] IN
         /\ caller.next - 1 \in DOMAIN children[caller.node]
         /\ children[caller.node][caller.next - 1] = dtor[k].node

\* The caller is also the parent, so the calls go down the tree.
CalledByParent ==
    \A k \in DOMAIN dtor : k > 1 => parent[dtor[k].node] = dtor[k-1].node

\* The node whose deletion the client asked for is in no list.
DoomedIsUnlisted ==
    dtor # <<>> => \A p \in alive : ~Occurs(children[p], dtor[1].node)

\* A child the loop has passed is gone, but for the one being destroyed.
PassedChildrenAreGone ==
    \A k \in DOMAIN dtor : \A i \in DOMAIN children[dtor[k].node] :
        i < dtor[k].next => \/ children[dtor[k].node][i] \notin alive
                            \/ k < Len(dtor) /\ i = dtor[k].next - 1

\* What holds whatever the client has done to the links.
AnyInv == TypeOK /\ CallsNest /\ PassedChildrenAreGone

\* What holds with a careful client.
IInv ==
    /\ AnyInv
    /\ NoUndefinedBehaviour
    /\ LinksConsistent
    /\ CalledByParent
    /\ DoomedIsUnlisted
-----------------------------------------------------------------------------
\* The name a node gets if it is given none.
LEMMA BlankIsAName == Blank \in Names
BY NamesAssumption DEF Blank

\* Deleting keeps the stack of destructors well formed.
LEMMA DeleteType ==
    ASSUME TypeOK, NEW n \in Nodes, NEW calls \in Seq(Frame), Delete(n, calls)
    PROVE  dtor' \in Seq(Frame) /\ broken' \in BOOLEAN
<1>1. CASE dtor' = Append(calls, Entered(n)) /\ UNCHANGED broken
    <2>1. Entered(n) \in Frame BY DEF Entered, Frame
    <2> QED BY <1>1, <2>1 DEF TypeOK
<1>2. CASE broken' = TRUE /\ UNCHANGED dtor
    BY <1>2 DEF TypeOK
<1> QED BY <1>1, <1>2 DEF Delete

\* The top frame of the stack, and what its loop looks at.
LEMMA TopType ==
    ASSUME TypeOK, dtor # <<>>
    PROVE  /\ Len(dtor) \in DOMAIN dtor /\ Len(dtor) \in Nat
           /\ Top \in Frame
           /\ ~LoopOver(Top) => /\ Top.next \in DOMAIN children[Top.node]
                                /\ children[Top.node][Top.next] \in Nodes
           /\ [dtor EXCEPT ![Len(dtor)] = Advanced(@)] \in Seq(Frame)
<1>1. Len(dtor) \in DOMAIN dtor /\ Len(dtor) \in Nat /\ Top \in Frame
    BY DEF TypeOK, Top
<1>2. Top.node \in Nodes /\ Top.next \in Nat \ {0}
    BY <1>1 DEF Frame
<1>3. children[Top.node] \in Seq(Nodes)
    BY <1>2 DEF TypeOK
<1>4. ASSUME ~LoopOver(Top)
      PROVE  /\ Top.next \in DOMAIN children[Top.node]
             /\ children[Top.node][Top.next] \in Nodes
    BY <1>2, <1>3, <1>4 DEF LoopOver
<1>5. [dtor EXCEPT ![Len(dtor)] = Advanced(@)] \in Seq(Frame)
    <2>1. Advanced(dtor[Len(dtor)]) \in Frame BY <1>1 DEF Top, Advanced, Frame
    <2> QED BY <1>1, <2>1 DEF TypeOK
<1> QED BY <1>1, <1>4, <1>5

\* A child taken from the list of p, and its destructor entered.
TakesChild(p, n) ==
    /\ children' = [children EXCEPT ![p] = Without(@, n)]
    /\ Delete(n, dtor)
    /\ UNCHANGED <<alive, name, parent>>

\* The list is shorter exactly if the pointer was in it: otherwise removing
\* it changes nothing, be it a stranger's or null.
LEMMA RemovalCases ==
    ASSUME TypeOK, NEW p \in Nodes, NEW n, RemoveAndDelete(p, n)
    PROVE  \/ n \in Nodes /\ Occurs(children[p], n) /\ TakesChild(p, n)
           \/ ~Occurs(children[p], n) /\ UNCHANGED vars
<1>1. children[p] \in Seq(Nodes) /\ children \in [Nodes -> Seq(Nodes)] BY DEF TypeOK
<1>2. CASE Occurs(children[p], n)
    <2>1. n \in Nodes /\ Len(Without(children[p], n)) < Len(children[p])
        BY <1>1, <1>2, WithoutShrinks DEF Occurs
    <2> QED BY <1>2, <2>1 DEF RemoveAndDelete, TakesChild
<1>3. CASE ~Occurs(children[p], n)
    <2>1. Without(children[p], n) = children[p] BY <1>1, <1>3, WithoutAbsent DEF Occurs
    <2>2. ~(Len(children[p]) < Len(children[p])) BY <1>1
    <2>3. UNCHANGED <<alive, name, parent, dtor, broken>> BY <2>1, <2>2 DEF RemoveAndDelete
    <2>4. children' = children BY <1>1, <2>1 DEF RemoveAndDelete
    <2> QED BY <1>3, <2>3, <2>4 DEF vars
<1> QED BY <1>2, <1>3

\* What the search by name ends with: the first child of the name, which is in
\* the list, or the null pointer, which is in none.
LEMMA SearchFinds ==
    ASSUME TypeOK, NEW p \in Nodes, NEW nm
    PROVE  \/ ChildrenNamed(p, nm) = {} /\ ~Occurs(children[p], SearchedChild(p, nm))
           \/ \E i \in ChildrenNamed(p, nm) :
                 /\ SearchedChild(p, nm) = children[p][i]
                 /\ \A j \in ChildrenNamed(p, nm) : i <= j
<1>1. children[p] \in Seq(Nodes) BY DEF TypeOK
<1>2. CASE ChildrenNamed(p, nm) = {}
    BY <1>1, <1>2, NullAssumption DEF SearchedChild, Occurs
<1>3. CASE ChildrenNamed(p, nm) # {}
    <2>1. ChildrenNamed(p, nm) \in SUBSET Nat BY <1>1 DEF ChildrenNamed
    <2>2. \E i \in ChildrenNamed(p, nm) : \A j \in ChildrenNamed(p, nm) : i <= j
        BY <1>3, <2>1, LeastNatural
    <2> QED BY <1>3, <2>2 DEF SearchedChild, FirstNamed
<1> QED BY <1>2, <1>3

\* RemoveChild by name meets a dead child, takes a child, or does nothing.
LEMMA NamedRemovalCases ==
    ASSUME TypeOK, NEW p \in Nodes, NEW nm, RemoveChildByName(p, nm)
    PROVE  \/ /\ \E i \in DOMAIN children[p] : children[p][i] \notin alive
              /\ broken' = TRUE
              /\ UNCHANGED <<alive, name, parent, children, dtor>>
           \/ ChildrenNamed(p, nm) = {} /\ UNCHANGED vars
           \/ \E i \in ChildrenNamed(p, nm) :
                 /\ \A j \in ChildrenNamed(p, nm) : i <= j
                 /\ i \in DOMAIN children[p] /\ children[p][i] \in Nodes
                 /\ Occurs(children[p], children[p][i]) /\ TakesChild(p, children[p][i])
<1>1. CASE RemoveAndDelete(p, SearchedChild(p, nm))
    <2>1. CASE ChildrenNamed(p, nm) = {} /\ ~Occurs(children[p], SearchedChild(p, nm))
        BY <1>1, <2>1, RemovalCases
    <2>2. ASSUME NEW i \in ChildrenNamed(p, nm), SearchedChild(p, nm) = children[p][i],
                 \A j \in ChildrenNamed(p, nm) : i <= j
          PROVE  /\ i \in DOMAIN children[p] /\ children[p][i] \in Nodes
                 /\ Occurs(children[p], children[p][i]) /\ TakesChild(p, children[p][i])
        <3>1. i \in DOMAIN children[p] BY DEF ChildrenNamed
        <3>2. Occurs(children[p], children[p][i]) BY <3>1 DEF Occurs
        <3> QED BY <1>1, <2>2, <3>1, <3>2, RemovalCases
    <2> QED BY <2>1, <2>2, SearchFinds
<1>2. CASE ~RemoveAndDelete(p, SearchedChild(p, nm))
    BY <1>2 DEF RemoveChildByName
<1> QED BY <1>1, <1>2

\* Every step keeps the variables in their types.
LEMMA TypePreserved == TypeOK /\ [Next]_vars => TypeOK'
<1> SUFFICES ASSUME TypeOK, [Next]_vars PROVE TypeOK'
    OBVIOUS
<1>1. CASE UNCHANGED vars BY <1>1 DEF TypeOK, vars
<1>2. ASSUME NEW n \in Nodes, NEW nm \in Names, NewNode(n, nm) PROVE TypeOK'
    BY <1>2 DEF TypeOK, NewNode
<1>3. ASSUME NEW n \in Nodes, NEW nm \in Names, SetName(n, nm) PROVE TypeOK'
    BY <1>3 DEF TypeOK, SetName
<1>4. ASSUME NEW p \in Nodes, NEW n \in Nodes, TakesChild(p, n) PROVE TypeOK'
    <2>1. Without(children[p], n) \in Seq(Nodes)
        BY WithoutProperties DEF TypeOK
    <2>2. dtor' \in Seq(Frame) /\ broken' \in BOOLEAN
        BY <1>4, DeleteType DEF TakesChild, TypeOK
    <2> QED BY <1>4, <2>1, <2>2 DEF TypeOK, TakesChild
<1>5. ASSUME NEW p \in Nodes, NEW nm \in Names, RemoveChildByName(p, nm) PROVE TypeOK'
    <2>1. CASE broken' = TRUE /\ UNCHANGED <<alive, name, parent, children, dtor>>
        BY <2>1 DEF TypeOK
    <2> QED BY <1>1, <1>4, <1>5, <2>1, NamedRemovalCases
<1>6. ASSUME NEW n \in Nodes, DeleteTree(n) PROVE TypeOK'
    <2>1. dtor' \in Seq(Frame) /\ broken' \in BOOLEAN
        BY <1>6, DeleteType DEF DeleteTree, TypeOK
    <2> QED BY <1>6, <2>1 DEF TypeOK, DeleteTree
<1>7. ASSUME NEW n \in Nodes, NEW p \in Nodes \cup {Null}, SetParent(n, p) PROVE TypeOK'
    BY <1>7 DEF TypeOK, SetParent, SetParentTo
<1>8. ASSUME NEW p \in Nodes, NEW n \in Nodes, AddChild(p, n) PROVE TypeOK'
    BY <1>8 DEF TypeOK, AddChild, SetParentTo
<1>9. ASSUME NEW p \in Nodes, NEW n \in Nodes, RemoveChild(p, n) PROVE TypeOK'
    BY <1>1, <1>4, <1>9, RemovalCases DEF RemoveChild
<1>10. ASSUME DeleteNextChild PROVE TypeOK'
    <2>1. dtor # <<>> /\ ~LoopOver(Top) BY <1>10 DEF DeleteNextChild
    <2>2. dtor' \in Seq(Frame) /\ broken' \in BOOLEAN
        BY <1>10, <2>1, TopType, DeleteType DEF DeleteNextChild
    <2> QED BY <1>10, <2>2 DEF TypeOK, DeleteNextChild
<1>11. ASSUME FinishDestructor PROVE TypeOK'
    <2>1. Top \in Frame /\ Len(dtor) \in Nat /\ Len(dtor) \in DOMAIN dtor
        BY <1>11, TopType DEF FinishDestructor
    <2>2. Top.node \in Nodes BY <2>1 DEF Frame
    <2>3. SubSeq(dtor, 1, Len(dtor) - 1) \in Seq(Frame)
        BY <2>1, SubSeqProperties DEF TypeOK
    <2> QED BY <1>11, <2>2, <2>3, BlankIsAName DEF TypeOK, FinishDestructor
<1>12. CASE ClientCall
    BY <1>12, <1>2, <1>3, <1>5, <1>6, <1>7, <1>8, <1>9 DEF ClientCall
<1>13. CASE Destructor BY <1>13, <1>10, <1>11 DEF Destructor
<1> QED BY <1>1, <1>12, <1>13 DEF Next

\* The empty graph has its types.
LEMMA InitType == Init => TypeOK
<1>1. <<>> \in Seq(Nodes) /\ <<>> \in Seq(Frame) OBVIOUS
<1> QED BY <1>1, BlankIsAName DEF Init, TypeOK

\* The state keeps its types whatever the client does.
THEOREM TypeCorrect == Spec => []TypeOK
BY InitType, TypePreserved, PTL DEF Spec
-----------------------------------------------------------------------------
\* Replacing the last element of a sequence and appending one more.
LEMMA ReplaceLastAndAppend ==
    ASSUME NEW S, NEW s \in Seq(S), s # <<>>, NEW x \in S, NEW y \in S, NEW t,
           t = Append([s EXCEPT ![Len(s)] = x], y)
    PROVE  /\ DOMAIN t = 1..(Len(s) + 1) /\ Len(t) = Len(s) + 1 /\ t # <<>>
           /\ t[Len(s) + 1] = y /\ t[Len(s)] = x
           /\ \A k \in 1..Len(s) : k # Len(s) => t[k] = s[k]
<1> DEFINE u == [s EXCEPT ![Len(s)] = x]
<1>1. Len(s) \in 1..Len(s) /\ Len(s) \in Nat BY EmptySeq
<1>2. /\ u \in Seq(S) /\ Len(u) = Len(s)
      /\ \A j \in 1..Len(s) : u[j] = IF j = Len(s) THEN x ELSE s[j]
    BY <1>1, ExceptSeq
<1> HIDE DEF u
<1>3. t = Append(u, y) BY DEF u
<1>4. /\ t \in Seq(S) /\ t # <<>> /\ Len(t) = Len(u) + 1 /\ t[Len(u) + 1] = y
      /\ \A k \in 1..Len(u) : t[k] = u[k]
    BY <1>2, <1>3, AppendProperties
<1>5. DOMAIN t = 1..Len(t) BY <1>4, LenProperties
<1> QED BY <1>1, <1>2, <1>4, <1>5

\* Entering a destructor, the first or the next one, keeps the calls nested:
\* Delete refuses a node whose destructor is running.
LEMMA DeleteKeepsAnyInv ==
    ASSUME AnyInv, NEW n \in Nodes, TypeOK', UNCHANGED <<alive>>,
           \/ dtor = <<>> /\ Delete(n, dtor)
           \/ /\ DeleteNextChild
              /\ n = children[Top.node][Top.next]
    PROVE  AnyInv'
<1> DEFINE L == Len(dtor)
<1>0. TypeOK /\ CallsNest /\ PassedChildrenAreGone BY DEF AnyInv
<1>1. CASE dtor = <<>> /\ Delete(n, dtor)
    <2>1. CASE UNCHANGED dtor
        BY <1>0, <1>1, <2>1 DEF AnyInv, CallsNest, PassedChildrenAreGone
    <2>2. CASE dtor' = Append(dtor, Entered(n)) /\ n \in alive
        <3>1. DOMAIN dtor' = {1} /\ dtor'[1].node = n /\ dtor'[1].next = 1
            BY <1>1, <2>2 DEF Entered
        <3>2. children'[n] \in Seq(Nodes) BY DEF TypeOK
        <3>3. CallsNest' BY <3>1, <2>2 DEF CallsNest
        <3>4. PassedChildrenAreGone' BY <3>1, <3>2 DEF PassedChildrenAreGone
        <3> QED BY <3>3, <3>4 DEF AnyInv
    <2> QED BY <1>1, <2>1, <2>2 DEF Delete
<1>2. CASE DeleteNextChild /\ n = children[Top.node][Top.next]
    <2>1. /\ dtor # <<>> /\ ~LoopOver(Top) /\ children' = children /\ alive' = alive
          /\ Delete(n, [dtor EXCEPT ![L] = Advanced(@)])
        BY <1>2 DEF DeleteNextChild
    <2>2. CASE UNCHANGED dtor
        BY <1>0, <2>1, <2>2 DEF AnyInv, CallsNest, PassedChildrenAreGone
    <2>3. CASE ~UNCHANGED dtor
        <3>1. /\ n \in alive /\ dtor' = Append([dtor EXCEPT ![L] = Advanced(Top)], Entered(n))
              /\ \A k \in DOMAIN dtor : [dtor EXCEPT ![L] = Advanced(@)][k].node # n
            BY <2>1, <2>3 DEF Delete, Top
        <3>2. /\ L \in 1..L /\ L \in Nat /\ DOMAIN dtor = 1..L /\ dtor[L] = Top
              /\ Top \in Frame /\ Top.next \in Nat \ {0} /\ Top.node \in Nodes
              /\ Top.next \in DOMAIN children[Top.node]
              /\ Advanced(Top) = [node |-> Top.node, next |-> Top.next + 1]
              /\ Advanced(Top) \in Frame /\ Entered(n) \in Frame
            <4>1. dtor \in Seq(Frame) BY <1>0 DEF TypeOK
            <4>2. Top \in Frame /\ Top.next \in DOMAIN children[Top.node]
                BY <1>0, <2>1, TopType
            <4>3. Top.next \in Nat \ {0} /\ Top.node \in Nodes BY <4>2 DEF Frame
            <4>4. Advanced(Top) = [node |-> Top.node, next |-> Top.next + 1]
                BY <4>2 DEF Advanced, Frame
            <4> QED BY <2>1, <4>1, <4>2, <4>3, <4>4 DEF Top, Frame, Entered
        <3>3. /\ DOMAIN dtor' = 1..(L+1) /\ Len(dtor') = L + 1
              /\ dtor'[L+1] = Entered(n) /\ dtor'[L] = Advanced(Top)
              /\ \A k \in 1..L : k # L => dtor'[k] = dtor[k]
            <4>1. dtor \in Seq(Frame) BY <1>0 DEF TypeOK
            <4>2. dtor' = Append([dtor EXCEPT ![Len(dtor)] = Advanced(Top)], Entered(n))
                BY <3>1
            <4>3. dtor # <<>> /\ Advanced(Top) \in Frame /\ Entered(n) \in Frame
                BY <2>1, <3>2
            <4> HIDE DEF L
            <4>4. /\ DOMAIN dtor' = 1..(Len(dtor)+1) /\ Len(dtor') = Len(dtor) + 1
                  /\ dtor'[Len(dtor)+1] = Entered(n) /\ dtor'[Len(dtor)] = Advanced(Top)
                  /\ \A k \in 1..Len(dtor) : k # Len(dtor) => dtor'[k] = dtor[k]
                BY <4>1, <4>2, <4>3, ReplaceLastAndAppend
            <4> QED BY <4>4 DEF L
        <3>4. /\ \A k \in 1..L : dtor'[k].node = dtor[k].node /\ dtor[k].node # n
              /\ \A k \in 1..L : k # L => dtor'[k].next = dtor[k].next
              /\ dtor'[L].next = Top.next + 1
              /\ dtor'[L+1].node = n /\ dtor'[L+1].next = 1
            <4>1. \A k \in 1..L : dtor[k].node # n
                <5>1. SUFFICES ASSUME NEW k \in 1..L PROVE dtor[k].node # n
                    OBVIOUS
                <5>2. CASE k = L BY SMTT(40), <3>1, <3>2, <5>2
                <5>3. CASE k # L BY <3>1, <3>2, <5>3
                <5> QED BY <5>2, <5>3
            <4>2. dtor'[L+1].node = n /\ dtor'[L+1].next = 1 BY <3>3 DEF Entered
            <4>3. \A k \in 1..L : dtor'[k].node = dtor[k].node
                <5> HIDE DEF L
                <5> QED BY <3>2, <3>3
            <4> HIDE DEF L
            <4> QED BY <3>2, <3>3, <4>1, <4>2, <4>3
        <3>5. /\ \A k \in 1..(L+1) : k \in 1..L \/ k = L + 1
              /\ \A k \in 1..L : dtor[k].next \in Nat \ {0} /\ dtor[k].node \in Nodes
            <4>1. \A k \in 1..L : dtor[k] \in Frame BY <1>0, <3>2 DEF TypeOK
            <4>2. \A k \in 1..L : dtor[k].next \in Nat \ {0} /\ dtor[k].node \in Nodes
                BY <4>1 DEF Frame
            <4> HIDE DEF L
            <4> QED BY <3>2, <4>2
        <3>6. L = Len(dtor) /\ ~(L < L) BY <3>2
        <3> HIDE DEF L
        <3>7. CallsNest'
            <4>1. \A k \in 1..(L+1) : dtor'[k].node \in alive
                BY <1>0, <3>1, <3>2, <3>4, <3>5 DEF CallsNest
            <4>2. \A j, k \in 1..(L+1) : dtor'[j].node = dtor'[k].node => j = k
                <5>1. \A j, k \in 1..L : dtor[j].node = dtor[k].node => j = k
                    BY <1>0, <3>2 DEF CallsNest
                <5> QED BY <3>4, <3>5, <5>1
            <4>3. ASSUME NEW k \in 1..(L+1), k > 1
                  PROVE  /\ dtor'[k-1].next - 1 \in DOMAIN children[dtor'[k-1].node]
                         /\ children[dtor'[k-1].node][dtor'[k-1].next - 1] = dtor'[k].node
                <5>1. CASE k = L + 1
                    <6>1. k - 1 = L /\ dtor'[L].next - 1 = Top.next /\ dtor'[L].node = Top.node
                        BY <3>2, <3>4, <5>1
                    <6> QED BY <1>2, <3>2, <3>4, <5>1, <6>1
                <5>2. CASE k \in 1..L
                    <6>1. k - 1 \in 1..L /\ k - 1 # L BY <3>2, <4>3, <5>2
                    <6>2. dtor'[k-1].next = dtor[k-1].next /\ dtor'[k-1].node = dtor[k-1].node
                        BY <3>4, <6>1
                    <6> QED BY <1>0, <3>2, <3>4, <4>3, <5>2, <6>2 DEF CallsNest
                <5> QED BY <3>5, <5>1, <5>2
            <4> QED BY <2>1, <3>3, <4>1, <4>2, <4>3 DEF CallsNest
        <3>8. PassedChildrenAreGone'
            <4>1. SUFFICES ASSUME NEW k \in 1..(L+1), NEW i \in DOMAIN children[dtor'[k].node],
                                  i < dtor'[k].next
                           PROVE  \/ children[dtor'[k].node][i] \notin alive
                                  \/ k < L + 1 /\ i = dtor'[k].next - 1
                BY <2>1, <3>3 DEF PassedChildrenAreGone
            <4>2. i \in Nat \ {0} /\ k \in Nat
                <5>1. dtor'[k].node \in Nodes BY <3>4, <3>5
                <5>2. children[dtor'[k].node] \in Seq(Nodes) BY <1>0, <5>1 DEF TypeOK
                <5> QED BY <3>2, <5>2
            <4>3. CASE k = L + 1 BY <3>4, <4>1, <4>2, <4>3
            <4>4. CASE k = L
                <5>1. CASE i = Top.next BY <3>2, <3>4, <4>2, <4>4, <5>1
                <5>2. CASE i # Top.next
                    <6>1. i < Top.next BY <3>2, <3>4, <4>1, <4>2, <4>4, <5>2
                    <6>2. dtor'[k].node = dtor[L].node /\ L \in DOMAIN dtor /\ dtor[L].next = Top.next
                        BY <3>2, <3>4, <4>4
                    <6> QED BY <1>0, <3>6, <4>1, <6>1, <6>2 DEF PassedChildrenAreGone
                <5> QED BY <5>1, <5>2
            <4>5. CASE k \in 1..L /\ k # L
                <5>1. dtor'[k].node = dtor[k].node /\ dtor'[k].next = dtor[k].next
                    BY <3>4, <4>5
                <5> QED BY <1>0, <3>2, <4>1, <4>2, <4>5, <5>1 DEF PassedChildrenAreGone
            <4> QED BY <3>5, <4>3, <4>4, <4>5
        <3> QED BY <3>7, <3>8 DEF AnyInv
    <2> QED BY <2>2, <2>3
<1> QED BY <1>1, <1>2

\* Returning from the innermost destructor: the child its caller has just
\* passed is gone now, and its own list is not looked at any more.
LEMMA FinishKeepsAnyInv ==
    ASSUME AnyInv, FinishDestructor, TypeOK'
    PROVE  AnyInv'
<1> DEFINE L == Len(dtor)
           n == Top.node
<1>0. TypeOK /\ CallsNest /\ PassedChildrenAreGone BY DEF AnyInv
<1>1. /\ dtor # <<>> /\ LoopOver(Top) /\ alive' = alive \ {n}
      /\ dtor' = SubSeq(dtor, 1, L - 1)
    BY DEF FinishDestructor
<1>2. /\ L \in 1..L /\ L \in Nat \ {0} /\ DOMAIN dtor = 1..L /\ dtor[L] = Top
      /\ n \in Nodes
      /\ \A k \in 1..L : dtor[k].node \in Nodes /\ dtor[k].next \in Nat
    <2>1. dtor \in Seq(Frame) /\ Top \in Frame BY <1>0, <1>1, TopType DEF TypeOK
    <2>2. L \in Nat \ {0} /\ DOMAIN dtor = 1..L /\ dtor[L] = Top BY <1>1, <2>1 DEF Top
    <2>3. \A k \in 1..L : dtor[k] \in Frame BY <2>1, <2>2
    <2> QED BY <2>1, <2>2, <2>3 DEF Frame
<1>3. \A m \in Nodes \ {n} : children'[m] = children[m]
    BY <1>0, <1>2 DEF FinishDestructor, TypeOK
<1>4. /\ DOMAIN dtor' = 1..(L-1) /\ Len(dtor') = L - 1
      /\ \A k \in 1..(L-1) : dtor'[k] = dtor[k]
    <2>1. dtor \in Seq(Frame) /\ dtor' \in Seq(Frame) BY <1>0 DEF TypeOK
    <2>2. \A k \in 1..(L-1) : dtor[k] \in Frame BY <1>2, <2>1
    <2>3. Len(dtor') = L - 1 /\ \A k \in 1..(L-1) : dtor'[k] = dtor[k]
        BY SMTT(40), <1>1, <1>2, <2>2, SubSeqProperties
    <2> QED BY <2>1, <2>3
<1>5. \A k \in 1..(L-1) : k \in 1..L /\ k # L /\ k < L /\ dtor[k].node # n
    <2>1. \A k \in 1..(L-1) : k \in 1..L /\ k # L /\ k < L
        <3> HIDE DEF L
        <3> QED BY <1>2
    <2> QED BY <1>0, <1>2, <2>1 DEF CallsNest
<1>6. L > 1 => children[dtor[L-1].node][dtor[L-1].next - 1] = n
    BY <1>0, <1>2 DEF CallsNest
<1> HIDE DEF L, n
<1>7. CallsNest'
    <2>1. \A k \in 1..(L-1) : dtor[k].node \in alive'
        BY <1>0, <1>1, <1>2, <1>5 DEF CallsNest
    <2>2. \A j, k \in 1..(L-1) : dtor[j].node = dtor[k].node => j = k
        BY <1>0, <1>2, <1>5 DEF CallsNest
    <2>3. ASSUME NEW k \in 1..(L-1), k > 1
          PROVE  /\ k - 1 \in 1..(L-1)
                 /\ dtor[k-1].next - 1 \in DOMAIN children'[dtor[k-1].node]
                 /\ children'[dtor[k-1].node][dtor[k-1].next - 1] = dtor[k].node
        <3>1. k - 1 \in 1..(L-1) /\ k \in 1..L BY <1>2, <2>3
        <3>2. children'[dtor[k-1].node] = children[dtor[k-1].node]
            BY <1>2, <1>3, <1>5, <3>1
        <3> QED BY <1>0, <1>2, <2>3, <3>1, <3>2 DEF CallsNest
    <2> QED BY <1>4, <2>1, <2>2, <2>3 DEF CallsNest
<1>8. PassedChildrenAreGone'
    <2>1. SUFFICES ASSUME NEW k \in 1..(L-1), NEW i \in DOMAIN children'[dtor[k].node],
                          i < dtor[k].next
                   PROVE  \/ children'[dtor[k].node][i] \notin alive'
                          \/ k < L - 1 /\ i = dtor[k].next - 1
        BY <1>4 DEF PassedChildrenAreGone
    <2>2. children'[dtor[k].node] = children[dtor[k].node]
        BY <1>2, <1>3, <1>5
    <2>3. \/ children[dtor[k].node][i] \notin alive
          \/ i = dtor[k].next - 1
        BY <1>0, <1>2, <1>5, <2>1, <2>2 DEF PassedChildrenAreGone
    <2>4. CASE i = dtor[k].next - 1 /\ k = L - 1
        BY <1>1, <1>2, <1>6, <2>2, <2>4
    <2> QED BY <1>1, <1>2, <2>2, <2>3, <2>4
<1> QED BY <1>7, <1>8 DEF AnyInv

\* Every step of every client keeps it.
LEMMA AnyInvPreserved == AnyInv /\ [Next]_vars => AnyInv'
<1> SUFFICES ASSUME AnyInv, [Next]_vars PROVE AnyInv'
    OBVIOUS
<1>0. TypeOK /\ TypeOK' BY TypePreserved DEF AnyInv
<1>1. CASE UNCHANGED vars
    BY <1>0, <1>1 DEF vars, AnyInv, CallsNest, PassedChildrenAreGone
<1>2. ASSUME dtor = <<>>, dtor' = dtor PROVE AnyInv'
    BY <1>0, <1>2 DEF AnyInv, CallsNest, PassedChildrenAreGone
<1>3. ASSUME NEW p \in Nodes, NEW n \in Nodes, Idle, TakesChild(p, n) PROVE AnyInv'
    BY <1>0, <1>3, DeleteKeepsAnyInv DEF Idle, TakesChild
<1>4. ASSUME NEW p \in Nodes, NEW nm \in Names, RemoveChildByName(p, nm) PROVE AnyInv'
    <2>1. Idle BY <1>4 DEF RemoveChildByName
    <2>2. CASE UNCHANGED dtor BY <1>2, <2>1, <2>2 DEF Idle
    <2> QED BY <1>0, <1>1, <1>3, <1>4, <2>1, <2>2, NamedRemovalCases
<1>9. ASSUME NEW p \in Nodes, NEW n \in Nodes, RemoveChild(p, n) PROVE AnyInv'
    BY <1>0, <1>1, <1>3, <1>9, RemovalCases DEF RemoveChild
<1>5. ASSUME NEW n \in Nodes, DeleteTree(n) PROVE AnyInv'
    BY <1>0, <1>5, DeleteKeepsAnyInv DEF DeleteTree, Idle
<1>6. CASE ClientCall
    BY <1>2, <1>4, <1>5, <1>6, <1>9
       DEF ClientCall, NewNode, SetName, SetParent, AddChild, Idle
<1>7. ASSUME DeleteNextChild PROVE AnyInv'
    <2>1. children[Top.node][Top.next] \in Nodes
        BY <1>0, <1>7, TopType DEF DeleteNextChild
    <2> QED BY <1>0, <1>7, <2>1, DeleteKeepsAnyInv DEF DeleteNextChild
<1>8. CASE Destructor
    BY <1>0, <1>7, <1>8, FinishKeepsAnyInv DEF Destructor
<1> QED BY <1>1, <1>6, <1>8 DEF Next

\* A step that takes a node from the living takes one whose children are gone.
LEMMA NodesGoAfterTheirChildren ==
    ASSUME AnyInv, [Next]_vars
    PROVE  \A n \in alive \ alive' : \A i \in DOMAIN children[n] : children[n][i] \notin alive'
<1> SUFFICES ASSUME NEW n \in alive \ alive', NEW i \in DOMAIN children[n]
             PROVE  children[n][i] \notin alive'
    OBVIOUS
<1>0. TypeOK BY DEF AnyInv
<1>1. FinishDestructor
    BY DEF Next, vars, ClientCall, Destructor, NewNode, SetName, SetParent, AddChild,
              RemoveChild, RemoveChildByName, RemoveAndDelete, DeleteTree, DeleteNextChild
<1>2. /\ dtor # <<>> /\ LoopOver(Top) /\ alive' = alive \ {Top.node} /\ n = Top.node
    BY <1>1 DEF FinishDestructor
<1>3. /\ Len(dtor) \in DOMAIN dtor /\ Len(dtor) \in Nat /\ Top = dtor[Len(dtor)]
      /\ Top.next \in Nat /\ n \in Nodes
    BY <1>0, <1>2, TopType DEF Top, Frame
<1>4. i < Top.next
    BY <1>0, <1>2, <1>3 DEF LoopOver, TypeOK
<1> QED BY <1>2, <1>3, <1>4 DEF AnyInv, PassedChildrenAreGone

\* Whatever the client does, no destructor returns before those of all the
\* children in its list have: nothing of a subtree leaks.
THEOREM NothingLeaks == Spec => ChildrenDieFirst
<1>1. Init => AnyInv
    BY InitType DEF Init, AnyInv, CallsNest, PassedChildrenAreGone
<1>2. AnyInv /\ [Next]_vars
        => [\A n \in alive \ alive' : \A i \in DOMAIN children[n] :
               children[n][i] \notin alive']_vars
    BY NodesGoAfterTheirChildren
<1> QED BY <1>1, <1>2, AnyInvPreserved, PTL DEF Spec, ChildrenDieFirst
-----------------------------------------------------------------------------
\* Between two calls of the client every listed child lives and points back.
LEMMA IdleLinks ==
    ASSUME IInv, Idle, NEW p \in alive, NEW i \in DOMAIN children[p]
    PROVE  children[p][i] \in alive /\ parent[children[p][i]] = p
BY DEF IInv, AnyInv, LinksConsistent, ListedChildPointsBack, Pending, Idle

\* A new node is in no list, also at an address that was in use before.
LEMMA NewNodeKeepsIInv ==
    ASSUME IInv, NEW n \in Nodes, NEW nm \in Names, NewNode(n, nm), AnyInv'
    PROVE  IInv'
<1>1. /\ dtor = <<>> /\ dtor' = <<>> /\ broken' = FALSE /\ n \notin alive
      /\ alive' = alive \cup {n}
      /\ TypeOK
    BY DEF NewNode, Idle, IInv, AnyInv
<1>2. /\ \A m \in Nodes \ {n} : parent'[m] = parent[m] /\ children'[m] = children[m]
      /\ parent'[n] = Null /\ children'[n] = <<>>
    BY DEF NewNode, IInv, AnyInv, TypeOK
<1>3. \A p \in alive : p \in Nodes \ {n}
    BY <1>1 DEF TypeOK
<1>4. ListedChildPointsBack'
    <2>1. SUFFICES ASSUME NEW p \in alive', NEW i \in DOMAIN children'[p]
                   PROVE  children'[p][i] \in alive' /\ parent'[children'[p][i]] = p
        BY DEF ListedChildPointsBack
    <2>2. p \in alive /\ children'[p] = children[p] BY <1>1, <1>2, <1>3
    <2>3. children[p][i] \in alive /\ parent[children[p][i]] = p
        BY <2>2, IdleLinks DEF NewNode
    <2> QED BY <1>1, <1>2, <1>3, <2>2, <2>3
<1>5. ListedOnce'
    <2>1. NoDuplicates(<<>>) BY DEF NoDuplicates
    <2> QED BY <1>1, <1>2, <1>3, <2>1 DEF IInv, AnyInv, LinksConsistent, ListedOnce
<1>6. ParentListsChild'
    <2>1. SUFFICES ASSUME NEW m \in alive', parent'[m] # Null
                   PROVE  parent'[m] \in alive' /\ Occurs(children'[parent'[m]], m)
        BY DEF ParentListsChild
    <2>2. m \in alive /\ parent'[m] = parent[m] BY <1>1, <1>2, <1>3, <2>1
    <2>3. parent[m] \in alive /\ Occurs(children[parent[m]], m)
        BY <1>1, <2>1, <2>2 DEF IInv, AnyInv, LinksConsistent, ParentListsChild
    <2> QED BY <1>1, <1>2, <1>3, <2>2, <2>3
<1>7. (CalledByParent /\ DoomedIsUnlisted)'
    BY <1>1 DEF CalledByParent, DoomedIsUnlisted
<1> QED BY <1>1, <1>4, <1>5, <1>6, <1>7 DEF IInv, AnyInv, LinksConsistent, NoUndefinedBehaviour

\* A careful client adds a root, which by LinksConsistent is in no list.
LEMMA AddChildKeepsIInv ==
    ASSUME CarefulClient, IInv, NEW p \in Nodes, NEW n \in Nodes, AddChild(p, n), AnyInv'
    PROVE  IInv'
<1>1. /\ dtor = <<>> /\ dtor' = <<>> /\ broken' = FALSE /\ alive' = alive
      /\ p \in alive /\ n \in alive /\ parent[n] = Null /\ TypeOK
    BY DEF AddChild, MayAdd, Idle, IInv, AnyInv
<1>2. /\ \A m \in Nodes \ {n} : parent'[m] = parent[m]
      /\ parent'[n] = p
      /\ \A m \in Nodes \ {p} : children'[m] = children[m]
      /\ children'[p] = Append(children[p], n)
    BY DEF AddChild, SetParentTo, IInv, AnyInv, TypeOK
<1>3. /\ \A q \in alive : q \in Nodes /\ q # Null /\ children[q] \in Seq(Nodes)
      /\ \A q \in alive : ~Occurs(children[q], n)
    <2>1. \A q \in alive : q \in Nodes /\ q # Null /\ children[q] \in Seq(Nodes)
        BY <1>1, NullAssumption DEF TypeOK
    <2>2. ASSUME NEW q \in alive, Occurs(children[q], n) PROVE FALSE
        <3>1. PICK i \in DOMAIN children[q] : children[q][i] = n BY <2>2 DEF Occurs
        <3>2. parent[n] = q BY <3>1, IdleLinks DEF AddChild
        <3> QED BY <3>2, <1>1, <2>1
    <2> QED BY <2>1, <2>2
<1>4. /\ DOMAIN children'[p] = 1..(Len(children[p]) + 1)
      /\ \A i \in DOMAIN children[p] : children'[p][i] = children[p][i]
      /\ children'[p][Len(children[p]) + 1] = n
      /\ DOMAIN children[p] = 1..Len(children[p]) /\ Len(children[p]) \in Nat
    BY <1>1, <1>2, <1>3
<1>5. ListedChildPointsBack'
    <2>1. SUFFICES ASSUME NEW q \in alive, NEW i \in DOMAIN children'[q]
                   PROVE  children'[q][i] \in alive /\ parent'[children'[q][i]] = q
        BY <1>1 DEF ListedChildPointsBack
    <2>2. ASSUME i \in DOMAIN children[q], children'[q][i] = children[q][i]
          PROVE  children'[q][i] \in alive /\ parent'[children'[q][i]] = q
        <3>1. children[q][i] \in alive /\ parent[children[q][i]] = q
            BY <2>2, IdleLinks DEF AddChild
        <3> QED BY <1>1, <1>2, <1>3, <2>2, <3>1
    <2>3. CASE q # p BY <1>2, <1>3, <2>2, <2>3
    <2>4. CASE q = p BY <1>1, <1>2, <1>4, <2>2, <2>4
    <2> QED BY <2>3, <2>4
<1>6. ListedOnce'
    <2>1. NoDuplicates(children[p]) /\ \A q \in alive \ {p} : NoDuplicates(children'[q])
        BY <1>1, <1>2, <1>3 DEF IInv, AnyInv, LinksConsistent, ListedOnce
    <2>2. \A i \in DOMAIN children[p] : children[p][i] # n BY <1>1, <1>3 DEF Occurs
    <2>3. NoDuplicates(children'[p])
        <3>1. \A i \in DOMAIN children'[p] : i \in DOMAIN children[p] \/ i = Len(children[p]) + 1
            BY <1>4
        <3>2. /\ \A i, j \in DOMAIN children[p] : children[p][i] = children[p][j] => i = j
              /\ \A i \in DOMAIN children[p] : children'[p][i] = children[p][i]
            BY <1>4, <2>1 DEF NoDuplicates
        <3>3. SUFFICES ASSUME NEW i \in DOMAIN children'[p], NEW j \in DOMAIN children'[p],
                              children'[p][i] = children'[p][j]
                       PROVE  i = j
            BY DEF NoDuplicates
        <3> QED BY <1>4, <2>2, <3>1, <3>2, <3>3
    <2> QED BY <1>1, <2>1, <2>3 DEF ListedOnce
<1>7. ParentListsChild'
    <2>1. SUFFICES ASSUME NEW m \in alive, parent'[m] # Null
                   PROVE  parent'[m] \in alive /\ Occurs(children'[parent'[m]], m)
        BY <1>1 DEF ParentListsChild
    <2>2. CASE m = n BY <1>1, <1>2, <1>4, <2>2 DEF Occurs
    <2>3. CASE m # n
        <3>1. parent'[m] = parent[m] BY <1>2, <1>3, <2>3
        <3>2. parent[m] \in alive /\ Occurs(children[parent[m]], m)
            BY <1>1, <2>1, <3>1 DEF IInv, AnyInv, LinksConsistent, ParentListsChild
        <3>3. CASE parent[m] = p BY <1>4, <3>1, <3>2, <3>3 DEF Occurs
        <3>4. CASE parent[m] # p BY <1>2, <1>3, <3>1, <3>2, <3>4
        <3> QED BY <3>3, <3>4
    <2> QED BY <2>2, <2>3
<1>8. (CalledByParent /\ DoomedIsUnlisted)'
    BY <1>1 DEF CalledByParent, DoomedIsUnlisted
<1> QED BY <1>1, <1>5, <1>6, <1>7, <1>8 DEF IInv, AnyInv, LinksConsistent, NoUndefinedBehaviour

\* A deletion that starts at a node in no list puts it alone on the stack.
LEMMA FirstDestructor ==
    ASSUME NEW n \in Nodes, dtor = <<>>, alive' = alive, n \in alive,
           Delete(n, dtor),
           \A p \in alive : ~Occurs(children'[p], n)
    PROVE  /\ dtor' = <<[node |-> n, next |-> 1]>> /\ UNCHANGED broken
           /\ CalledByParent' /\ DoomedIsUnlisted'
<1>1. dtor' = <<[node |-> n, next |-> 1]>> /\ UNCHANGED broken
    BY DEF Delete, Entered
<1>2. DOMAIN dtor' = {1} /\ dtor'[1].node = n /\ dtor' # <<>>
    BY <1>1
<1> QED BY <1>1, <1>2 DEF CalledByParent, DoomedIsUnlisted

\* A removed node leaves the only list that held it before it is deleted.
LEMMA TakesChildKeepsIInv ==
    ASSUME IInv, Idle, NEW p \in alive, NEW n \in Nodes, Occurs(children[p], n),
           TakesChild(p, n), AnyInv'
    PROVE  IInv'
<1>1. /\ TypeOK /\ dtor = <<>> /\ broken = FALSE /\ p \in Nodes
      /\ alive' = alive /\ parent' = parent /\ Delete(n, dtor)
      /\ \A q \in Nodes \ {p} : children'[q] = children[q]
      /\ children'[p] = Without(children[p], n)
      /\ \A q \in alive : q \in Nodes /\ children[q] \in Seq(Nodes)
    BY DEF TakesChild, Idle, IInv, AnyInv, TypeOK
<1>2. n \in alive /\ parent[n] = p
    BY IdleLinks DEF Occurs
<1>3. /\ \A i \in DOMAIN children'[p] :
            children'[p][i] # n /\ \E j \in DOMAIN children[p] : children[p][j] = children'[p][i]
      /\ \A j \in DOMAIN children[p] : children[p][j] # n =>
            \E i \in DOMAIN children'[p] : children'[p][i] = children[p][j]
      /\ NoDuplicates(children[p]) => NoDuplicates(children'[p])
    BY <1>1, WithoutProperties
<1>4. \A q \in alive : ~Occurs(children'[q], n)
    <2>1. SUFFICES ASSUME NEW q \in alive, Occurs(children'[q], n) PROVE FALSE
        OBVIOUS
    <2>2. q # p BY <1>3, <2>1 DEF Occurs
    <2>3. PICK i \in DOMAIN children[q] : children[q][i] = n
        BY <1>1, <2>1, <2>2 DEF Occurs
    <2>4. parent[n] = q BY <2>3, IdleLinks
    <2> QED BY <1>2, <2>2, <2>4
<1>5. /\ dtor' = <<[node |-> n, next |-> 1]>> /\ UNCHANGED broken
      /\ CalledByParent' /\ DoomedIsUnlisted'
    BY <1>1, <1>2, <1>4, FirstDestructor
<1>6. ListedChildPointsBack'
    <2>1. SUFFICES ASSUME NEW q \in alive, NEW i \in DOMAIN children'[q]
                   PROVE  children'[q][i] \in alive /\ parent[children'[q][i]] = q
        BY <1>1 DEF ListedChildPointsBack
    <2>2. PICK j \in DOMAIN children[q] : children[q][j] = children'[q][i]
        BY <1>1, <1>3
    <2> QED BY <2>2, IdleLinks
<1>7. ListedOnce'
    BY <1>1, <1>3 DEF IInv, AnyInv, LinksConsistent, ListedOnce
<1>8. ParentListsChild'
    <2>1. SUFFICES ASSUME NEW m \in alive, parent[m] # Null, m # n
                   PROVE  parent[m] \in alive /\ Occurs(children'[parent[m]], m)
        BY <1>1, <1>5 DEF ParentListsChild
    <2>2. parent[m] \in alive /\ Occurs(children[parent[m]], m)
        BY <1>1, <2>1 DEF IInv, AnyInv, LinksConsistent, ParentListsChild
    <2> QED BY <1>1, <1>3, <2>1, <2>2 DEF Occurs
<1> QED BY <1>1, <1>5, <1>6, <1>7, <1>8 DEF IInv, AnyInv, LinksConsistent, NoUndefinedBehaviour

\* A tree the client may delete has a root without a parent: no list has it.
LEMMA DeleteTreeKeepsIInv ==
    ASSUME CarefulClient, IInv, NEW n \in Nodes, DeleteTree(n), AnyInv'
    PROVE  IInv'
<1>1. /\ TypeOK /\ dtor = <<>> /\ broken = FALSE /\ n \in alive /\ parent[n] = Null
      /\ alive' = alive /\ parent' = parent /\ children' = children /\ Delete(n, dtor)
    BY DEF DeleteTree, MayDelete, Idle, IInv, AnyInv
<1>2. \A p \in alive : ~Occurs(children'[p], n)
    <2>1. \A p \in alive : p # Null BY <1>1, NullAssumption DEF TypeOK
    <2> QED BY <1>1, <2>1, IdleLinks DEF Occurs, DeleteTree
<1>3. /\ dtor' = <<[node |-> n, next |-> 1]>> /\ UNCHANGED broken
      /\ CalledByParent' /\ DoomedIsUnlisted'
    BY <1>1, <1>2, FirstDestructor
<1>4. ListedChildPointsBack'
    BY <1>1, IdleLinks DEF ListedChildPointsBack, DeleteTree
<1>5. ListedOnce' BY <1>1 DEF IInv, AnyInv, LinksConsistent, ListedOnce
<1>6. ParentListsChild' BY <1>1, <1>3 DEF IInv, AnyInv, LinksConsistent, ParentListsChild
<1> QED BY <1>1, <1>3, <1>4, <1>5, <1>6 DEF IInv, AnyInv, LinksConsistent, NoUndefinedBehaviour

\* The child a running destructor deletes next is alive and not itself being
\* destroyed: else it would be the doomed node or a caller's other child.
LEMMA NextChildIsSound ==
    ASSUME IInv, dtor # <<>>, ~LoopOver(Top), NEW c, c = children[Top.node][Top.next]
    PROVE  c \in alive /\ parent[c] = Top.node /\ \A k \in DOMAIN dtor : dtor[k].node # c
<1>1. TypeOK /\ CallsNest /\ CalledByParent BY DEF IInv, AnyInv
<1>2. /\ Len(dtor) \in DOMAIN dtor /\ Len(dtor) \in Nat /\ DOMAIN dtor = 1..Len(dtor)
      /\ Top = dtor[Len(dtor)] /\ Top.next \in Nat
      /\ Top.next \in DOMAIN children[Top.node]
    BY <1>1, TopType DEF Top, Frame, TypeOK
<1>3. Top.node \in alive BY <1>1, <1>2 DEF CallsNest
<1>4. Pending(Top.node, Top.next)
    BY <1>1, <1>2 DEF Pending, CallsNest
<1>5. c \in alive /\ parent[c] = Top.node
    BY <1>2, <1>3, <1>4 DEF IInv, AnyInv, LinksConsistent, ListedChildPointsBack
<1>6. ASSUME NEW k \in DOMAIN dtor, dtor[k].node = c PROVE FALSE
    <2>1. CASE k = 1
        BY <1>2, <1>3, <1>6, <2>1 DEF IInv, AnyInv, DoomedIsUnlisted, Occurs
    <2>2. CASE k > 1
        <3>1. k - 1 \in DOMAIN dtor /\ parent[c] = dtor[k-1].node
            BY <1>1, <1>2, <1>6, <2>2 DEF CalledByParent
        <3>2. k - 1 = Len(dtor) BY <1>1, <1>2, <1>5, <3>1 DEF CallsNest
        <3> QED BY <1>2, <3>2
    <2> QED BY <1>2, <2>1, <2>2
<1> QED BY <1>5, <1>6

\* One more activation on the stack.
LEMMA DeleteNextChildKeepsIInv ==
    ASSUME IInv, DeleteNextChild, AnyInv'
    PROVE  IInv'
<1> DEFINE L == Len(dtor)
           c == children[Top.node][Top.next]
<1>1. /\ TypeOK /\ dtor # <<>> /\ broken = FALSE /\ ~LoopOver(Top)
      /\ alive' = alive /\ parent' = parent /\ children' = children
      /\ Delete(c, [dtor EXCEPT ![L] = Advanced(@)])
    BY DEF DeleteNextChild, IInv, AnyInv
<1>2. c \in alive /\ parent[c] = Top.node /\ \A k \in DOMAIN dtor : dtor[k].node # c
    BY <1>1, NextChildIsSound
<1>3. /\ L \in DOMAIN dtor /\ L \in Nat /\ DOMAIN dtor = 1..L /\ dtor[L] = Top
      /\ Top \in Frame /\ Top.next \in Nat \ {0} /\ Top.node \in Nodes
      /\ Top.next \in DOMAIN children[Top.node]
      /\ \A k \in DOMAIN dtor : dtor[k] \in Frame
    <2>1. Top \in Frame /\ Top.next \in DOMAIN children[Top.node] BY <1>1, TopType
    <2>2. Top.next \in Nat \ {0} /\ Top.node \in Nodes BY <2>1 DEF Frame
    <2>3. dtor \in Seq(Frame) BY <1>1 DEF TypeOK
    <2> QED BY <1>1, <2>1, <2>2, <2>3 DEF Top
<1>4. Advanced(Top) = [node |-> Top.node, next |-> Top.next + 1] /\ Advanced(Top) \in Frame
    BY <1>3 DEF Advanced, Frame
<1>5. c \in Nodes /\ Entered(c) \in Frame /\ Entered(c) = [node |-> c, next |-> 1]
    <2>1. c \in Nodes BY <1>1, <1>2 DEF TypeOK
    <2> HIDE DEF c
    <2> QED BY <2>1 DEF Entered, Frame
<1> DEFINE calls == [dtor EXCEPT ![L] = Advanced(@)]
<1>6. calls = [dtor EXCEPT ![L] = Advanced(Top)] /\ DOMAIN calls = 1..L
      /\ \A k \in 1..L : calls[k].node = dtor[k].node
    <2>1. \A k \in 1..L : k # L => calls[k] = dtor[k] BY <1>3
    <2>2. calls[L] = Advanced(Top) BY <1>3
    <2>3. calls = [dtor EXCEPT ![L] = Advanced(Top)] BY DEF Top
    <2>4. DOMAIN calls = DOMAIN dtor BY SMTT(40)
    <2> HIDE DEF calls, L
    <2> QED BY SMTT(40), <1>3, <1>4, <2>1, <2>2, <2>3, <2>4
<1>7. dtor' = Append(calls, Entered(c)) /\ broken' = FALSE
    BY <1>1, <1>2, <1>3, <1>6 DEF Delete
<1>8. /\ DOMAIN dtor' = 1..(L+1) /\ Len(dtor') = L + 1 /\ dtor' # <<>>
      /\ dtor'[L+1] = Entered(c) /\ dtor'[L] = Advanced(Top)
      /\ \A k \in 1..L : k # L => dtor'[k] = dtor[k]
    <2>1. dtor \in Seq(Frame) BY <1>1 DEF TypeOK
    <2>2. dtor' = Append([dtor EXCEPT ![Len(dtor)] = Advanced(Top)], Entered(c))
        BY <1>6, <1>7
    <2> HIDE DEF c
    <2> QED BY SMTT(40), <1>1, <1>4, <1>5, <2>1, <2>2, ReplaceLastAndAppend
<1>9. /\ \A k \in 1..L : dtor'[k].node = dtor[k].node
      /\ \A k \in 1..L : k # L => dtor'[k].next = dtor[k].next
      /\ dtor'[L].next = Top.next + 1
      /\ dtor'[L+1].node = c /\ dtor'[L+1].next = 1
      /\ dtor'[1].node = dtor[1].node
    <2>1. 1 \in 1..L BY <1>3
    <2> HIDE DEF L, c, calls
    <2>2. \A k \in 1..L : dtor'[k].node = dtor[k].node BY <1>3, <1>4, <1>8
    <2> QED BY <1>4, <1>5, <1>8, <2>1, <2>2
<1>10. /\ \A k \in 1..(L+1) : k \in 1..L \/ k = L + 1
       /\ \A k \in 1..L : dtor[k].next \in Nat \ {0} /\ dtor[k].node \in Nodes
       /\ L \in 1..L /\ 1 \in 1..L
    BY <1>3 DEF Frame
<1> HIDE DEF L, c, calls
<1>11. CalledByParent'
    <2>1. SUFFICES ASSUME NEW k \in 1..(L+1), k > 1
                   PROVE  parent[dtor'[k].node] = dtor'[k-1].node
        BY <1>1, <1>8 DEF CalledByParent
    <2>2. CASE k = L + 1
        BY <1>2, <1>3, <1>9, <2>2
    <2>3. CASE k \in 1..L
        <3>1. k - 1 \in 1..L BY <1>3, <2>1, <2>3
        <3> QED BY <1>3, <1>9, <2>1, <2>3, <3>1 DEF IInv, CalledByParent
    <2> QED BY <1>10, <2>2, <2>3
<1>12. DoomedIsUnlisted'
    BY <1>1, <1>8, <1>9 DEF IInv, AnyInv, DoomedIsUnlisted
<1>14. ListedChildPointsBack'
    <2>1. SUFFICES ASSUME NEW p \in alive, NEW i \in DOMAIN children[p], Pending(p, i)'
                   PROVE  Pending(p, i)
        BY <1>1 DEF IInv, AnyInv, LinksConsistent, ListedChildPointsBack
    <2>2. i \in Nat BY <1>1 DEF TypeOK
    <2>3. \A k \in 1..L : dtor'[k].node = p => i >= dtor'[k].next
        BY <1>3, <1>8, <2>1 DEF Pending
    <2>4. \A k \in 1..L : dtor[k].node = p => i >= dtor[k].next
        BY <1>3, <1>9, <1>10, <2>2, <2>3
    <2> QED BY <1>3, <2>4 DEF Pending
<1>15. ListedOnce' BY <1>1 DEF IInv, AnyInv, LinksConsistent, ListedOnce
<1>16. ParentListsChild'
    BY <1>1, <1>8, <1>9 DEF IInv, AnyInv, LinksConsistent, ParentListsChild
<1> QED BY <1>7, <1>11, <1>12, <1>14, <1>15, <1>16
        DEF IInv, AnyInv, LinksConsistent, NoUndefinedBehaviour

\* The innermost activation returns: its node is in no list that is still to
\* be looked at, and its own children are gone already.
LEMMA FinishDestructorKeepsIInv ==
    ASSUME IInv, FinishDestructor, AnyInv'
    PROVE  IInv'
<1> DEFINE L == Len(dtor)
           n == Top.node
<1>1. /\ TypeOK /\ dtor # <<>> /\ broken = FALSE /\ broken' = FALSE /\ LoopOver(Top)
      /\ alive' = alive \ {n}
      /\ dtor' = SubSeq(dtor, 1, L - 1)
    BY DEF FinishDestructor, IInv, AnyInv, TypeOK
<1>2. /\ L \in DOMAIN dtor /\ L \in Nat \ {0} /\ DOMAIN dtor = 1..L /\ dtor[L] = Top
      /\ n \in Nodes /\ Top.next \in Nat
      /\ \A k \in 1..L : dtor[k].node \in Nodes /\ dtor[k].next \in Nat
    <2>1. dtor \in Seq(Frame) /\ Top \in Frame BY <1>1, TopType DEF TypeOK
    <2>2. L \in Nat \ {0} /\ DOMAIN dtor = 1..L /\ dtor[L] = Top BY <1>1, <2>1 DEF Top
    <2>3. \A k \in 1..L : dtor[k] \in Frame BY <2>1, <2>2
    <2> QED BY <2>1, <2>2, <2>3 DEF Frame
<1>3. /\ \A m \in Nodes \ {n} : parent'[m] = parent[m] /\ children'[m] = children[m]
      /\ \A m \in alive' : m \in alive /\ m \in Nodes \ {n}
      /\ \A m \in Nodes : children[m] \in Seq(Nodes)
    BY <1>1, <1>2 DEF FinishDestructor, TypeOK
<1>4. /\ DOMAIN dtor' = 1..(L-1) /\ Len(dtor') = L - 1
      /\ \A k \in 1..(L-1) : dtor'[k] = dtor[k]
    <2>1. dtor \in Seq(Frame) /\ dtor' \in Seq(Frame) BY <1>1 DEF TypeOK
    <2>2. \A k \in 1..(L-1) : dtor[k] \in Frame BY <1>2, <2>1
    <2>3. Len(dtor') = L - 1 /\ \A k \in 1..(L-1) : dtor'[k] = dtor[k]
        BY <1>1, <1>2, <2>2, SubSeqProperties
    <2> QED BY <2>1, <2>3
<1>5. \A k \in 1..(L-1) : k \in 1..L /\ k # L /\ k < L /\ dtor[k].node # n
    <2>1. \A k \in 1..(L-1) : k \in 1..L /\ k # L /\ k < L
        <3> HIDE DEF L
        <3> QED BY <1>2
    <2>2. \A j, k \in 1..L : dtor[j].node = dtor[k].node => j = k
        BY <1>2 DEF IInv, AnyInv, CallsNest, CalledByParent
    <2>3. dtor[L].node = n /\ L \in 1..L BY <1>2
    <2> QED BY <2>1, <2>2, <2>3
<1>6. L > 1 => /\ L - 1 \in 1..(L-1)
               /\ parent[n] = dtor[L-1].node
               /\ dtor[L-1].next - 1 \in DOMAIN children[dtor[L-1].node]
               /\ children[dtor[L-1].node][dtor[L-1].next - 1] = n
    BY <1>2 DEF IInv, AnyInv, CallsNest, CalledByParent
<1>7. dtor' # <<>> => 1 \in 1..(L-1) /\ dtor'[1].node = dtor[1].node
    BY <1>2, <1>4
<1>8. L = 1 => dtor[1].node = n
    BY <1>2
<1> HIDE DEF L, n
<1>9. ListedChildPointsBack'
    <2>1. SUFFICES ASSUME NEW p \in alive', NEW i \in DOMAIN children'[p], Pending(p, i)'
                   PROVE  children'[p][i] \in alive' /\ parent'[children'[p][i]] = p
        BY DEF ListedChildPointsBack
    <2>2. p \in alive /\ p \in Nodes /\ p # n /\ children'[p] = children[p] /\ i \in Nat
        BY <1>3, <2>1
    <2>3. \A k \in 1..(L-1) : dtor[k].node = p => i >= dtor[k].next
        BY <1>4, <2>1 DEF Pending
    <2>4. Pending(p, i)
        <3>1. \A k \in 1..L : k = L \/ k \in 1..(L-1) BY <1>2
        <3>2. dtor[L].node # p BY <1>2, <2>2 DEF n
        <3> QED BY <1>2, <2>3, <3>1, <3>2 DEF Pending
    <2>5. children[p][i] \in alive /\ parent[children[p][i]] = p
        BY <2>2, <2>4 DEF IInv, AnyInv, LinksConsistent, ListedChildPointsBack
    <2>6. ASSUME children[p][i] = n PROVE FALSE
        <3>1. CASE L = 1
            BY <1>1, <1>8, <2>2, <2>6, <3>1 DEF IInv, AnyInv, DoomedIsUnlisted, Occurs
        <3>2. CASE L > 1
            <4>1. dtor[L-1].node = p BY <1>6, <2>5, <2>6, <3>2
            <4>2. dtor[L-1].next - 1 = i
                BY <1>6, <2>2, <2>6, <3>2, <4>1 DEF IInv, AnyInv, LinksConsistent, ListedOnce, NoDuplicates
            <4>3. i >= dtor[L-1].next /\ dtor[L-1].next \in Nat
                BY <1>2, <1>5, <1>6, <2>3, <3>2, <4>1
            <4> QED BY <2>2, <4>2, <4>3
        <3> QED BY <1>2, <3>1, <3>2
    <2>7. children[p][i] \in Nodes \ {n} BY <1>1, <2>5, <2>6 DEF TypeOK
    <2> QED BY <1>1, <1>3, <2>2, <2>5, <2>7
<1>10. ListedOnce'
    BY <1>3 DEF IInv, AnyInv, LinksConsistent, ListedOnce
<1>11. ParentListsChild'
    <2>1. SUFFICES ASSUME NEW m \in alive', parent'[m] # Null, dtor' # <<>> => m # dtor'[1].node
                   PROVE  parent'[m] \in alive' /\ Occurs(children'[parent'[m]], m)
        BY DEF ParentListsChild
    <2>2. m \in alive /\ m # n /\ parent'[m] = parent[m] BY <1>3, <2>1
    <2>3. m # dtor[1].node
        <3>1. CASE dtor' # <<>> BY <1>7, <2>1, <3>1
        <3>2. CASE dtor' = <<>>
            <4>1. L - 1 = 0 BY <1>4, <3>2
            <4> QED BY <1>2, <1>8, <2>2, <4>1
        <3> QED BY <3>1, <3>2
    <2>4. parent[m] \in alive /\ Occurs(children[parent[m]], m)
        BY <2>1, <2>2, <2>3 DEF IInv, AnyInv, LinksConsistent, ParentListsChild
    <2>5. parent[m] # n
        <3>1. SUFFICES ASSUME parent[m] = n PROVE FALSE OBVIOUS
        <3>2. PICK i \in DOMAIN children[n] : children[n][i] = m
            BY <2>4, <3>1 DEF Occurs
        <3>3. i < dtor[L].next /\ dtor[L].node = n
            BY <1>1, <1>2, <1>3 DEF LoopOver, n
        <3>4. L = Len(dtor) /\ ~(L < L) BY <1>2 DEF L
        <3> QED BY <1>2, <2>2, <3>2, <3>3, <3>4 DEF IInv, AnyInv, PassedChildrenAreGone
    <2>6. parent[m] \in alive' /\ children'[parent[m]] = children[parent[m]]
        BY <1>1, <1>3, <2>4, <2>5
    <2> QED BY <2>2, <2>4, <2>6
<1>12. CalledByParent'
    <2>1. SUFFICES ASSUME NEW k \in 1..(L-1), k > 1
                   PROVE  parent'[dtor[k].node] = dtor[k-1].node
        <3>1. \A k \in 1..(L-1) : k > 1 => k - 1 \in 1..(L-1) BY <1>2
        <3> QED BY <1>4, <3>1 DEF CalledByParent
    <2>2. parent'[dtor[k].node] = parent[dtor[k].node] BY <1>2, <1>3, <1>5
    <2> QED BY <1>2, <1>5, <2>1, <2>2 DEF IInv, CalledByParent
<1>13. DoomedIsUnlisted'
    BY <1>1, <1>3, <1>7 DEF IInv, AnyInv, DoomedIsUnlisted
<1> QED BY <1>1, <1>9, <1>10, <1>11, <1>12, <1>13
        DEF IInv, AnyInv, LinksConsistent, NoUndefinedBehaviour
-----------------------------------------------------------------------------
\* The invariant holds of the empty graph.
LEMMA InitIInv == Init => IInv
<1> SUFFICES ASSUME Init PROVE IInv
    OBVIOUS
<1>1. TypeOK BY InitType
<1>2. LinksConsistent
    BY DEF Init, LinksConsistent, ListedChildPointsBack, ListedOnce, ParentListsChild
<1>3. CallsNest /\ CalledByParent /\ DoomedIsUnlisted /\ PassedChildrenAreGone
    BY DEF Init, CallsNest, CalledByParent, DoomedIsUnlisted, PassedChildrenAreGone
<1> QED BY <1>1, <1>2, <1>3 DEF Init, IInv, AnyInv, NoUndefinedBehaviour

\* Every step of a careful client, and every step of a destructor it starts,
\* keeps the inductive invariant.
LEMMA IInvPreserved == CarefulClient /\ IInv /\ [Next]_vars => IInv'
<1> SUFFICES ASSUME CarefulClient, IInv, [Next]_vars PROVE IInv'
    OBVIOUS
<1>0. AnyInv' BY AnyInvPreserved DEF IInv
<1>1. CASE UNCHANGED vars
    BY <1>1 DEF vars, IInv, AnyInv, TypeOK, NoUndefinedBehaviour, LinksConsistent,
                ListedChildPointsBack, Pending, ListedOnce, ParentListsChild,
                CallsNest, CalledByParent, DoomedIsUnlisted, PassedChildrenAreGone
<1>2. ASSUME NEW n \in Nodes, NEW nm \in Names, SetName(n, nm) PROVE IInv'
    BY <1>0, <1>2
       DEF SetName, IInv, AnyInv, NoUndefinedBehaviour, LinksConsistent,
           ListedChildPointsBack, Pending, ListedOnce, ParentListsChild,
           CallsNest, CalledByParent, DoomedIsUnlisted, PassedChildrenAreGone
<1>3. ASSUME NEW p \in Nodes, NEW nm \in Names, RemoveChildByName(p, nm) PROVE IInv'
    <2>1. Idle /\ p \in alive /\ TypeOK BY <1>3 DEF RemoveChildByName, IInv, AnyInv
    <2>2. \A i \in DOMAIN children[p] : children[p][i] \in alive BY <2>1, IdleLinks
    <2> QED BY <1>0, <1>1, <1>3, <2>1, <2>2, NamedRemovalCases, TakesChildKeepsIInv
<1>4. ASSUME NEW p \in Nodes, NEW n \in Nodes, RemoveChild(p, n) PROVE IInv'
    <2>1. Idle /\ p \in alive /\ TypeOK BY <1>4 DEF RemoveChild, IInv, AnyInv
    <2> QED BY <1>0, <1>1, <1>4, <2>1, RemovalCases, TakesChildKeepsIInv DEF RemoveChild
<1>5. ASSUME NEW n \in Nodes, NEW p \in Nodes \cup {Null}, SetParent(n, p) PROVE IInv'
    BY <1>5 DEF SetParent
<1>6. CASE ClientCall
    BY <1>0, <1>2, <1>3, <1>4, <1>5, <1>6, NewNodeKeepsIInv, AddChildKeepsIInv,
       DeleteTreeKeepsIInv DEF ClientCall
<1>7. CASE Destructor
    BY <1>0, <1>7, DeleteNextChildKeepsIInv, FinishDestructorKeepsIInv DEF Destructor
<1> QED BY <1>1, <1>6, <1>7 DEF Next

\* A careful client never makes the graph delete a node twice or touch a
\* destroyed one: RemoveChild and ~CompositeNode are safe for it.
THEOREM NoDoubleDelete ==
    ASSUME CarefulClient
    PROVE  Spec => []NoUndefinedBehaviour
<1>1. IInv /\ [Next]_vars => IInv' BY IInvPreserved
<1>2. IInv => NoUndefinedBehaviour BY DEF IInv, AnyInv
<1> QED BY <1>1, <1>2, InitIInv, PTL DEF Spec

\* Under a careful client each node is in its parent's list, once, and in no
\* other list.
THEOREM LinksStayConsistent ==
    ASSUME CarefulClient
    PROVE  Spec => []LinksConsistent
<1>1. IInv /\ [Next]_vars => IInv' BY IInvPreserved
<1>2. IInv => LinksConsistent BY DEF IInv, AnyInv
<1> QED BY <1>1, <1>2, InitIInv, PTL DEF Spec
-----------------------------------------------------------------------------
\* The nodes on the way from n upwards if the living nodes are A and their
\* parents par: what Ancestry is in the state where these are the values.
Chain(A, par, n) ==
    LET upward == {S \in SUBSET Nodes :
                     n \in S /\ \A m \in S \cap A : par[m] \in S \cup {Null}}
    IN  {m \in Nodes : \A S \in upward : m \in S}

\* Ancestry is that chain, before a step and after it.
LEMMA AncestryIsChain ==
    ASSUME NEW n
    PROVE  Ancestry(n) = Chain(alive, parent, n) /\ Ancestry(n)' = Chain(alive', parent', n)
BY DEF Ancestry, Chain

\* The chain of a node holds it, and the parent of each of its living nodes.
LEMMA ChainClosed ==
    ASSUME NEW A, NEW par \in [Nodes -> Nodes \cup {Null}], NEW n \in Nodes
    PROVE  /\ n \in Chain(A, par, n) /\ Chain(A, par, n) \in SUBSET Nodes
           /\ \A m \in Chain(A, par, n) \cap A : par[m] \in Chain(A, par, n) \cup {Null}
<1>1. n \in Chain(A, par, n) /\ Chain(A, par, n) \in SUBSET Nodes
    BY DEF Chain
<1>2. ASSUME NEW m \in Chain(A, par, n) \cap A, par[m] # Null
      PROVE  par[m] \in Chain(A, par, n)
    <2>1. m \in Nodes /\ par[m] \in Nodes BY <1>2 DEF Chain
    <2> QED BY <1>2, <2>1 DEF Chain
<1> QED BY <1>1, <1>2

\* It is the least such set.
LEMMA ChainLeast ==
    ASSUME NEW A, NEW par, NEW n, NEW S \in SUBSET Nodes, n \in S,
           \A m \in S \cap A : par[m] \in S \cup {Null}
    PROVE  Chain(A, par, n) \subseteq S
BY DEF Chain

\* What is above a node of the chain is in the chain.
LEMMA ChainTransitive ==
    ASSUME NEW A, NEW par \in [Nodes -> Nodes \cup {Null}], NEW n \in Nodes,
           NEW m \in Chain(A, par, n)
    PROVE  Chain(A, par, m) \subseteq Chain(A, par, n)
BY ChainClosed, ChainLeast

\* The chain starts at the node and goes on with its parent's.
LEMMA ChainFirstStep ==
    ASSUME NEW A, NEW par \in [Nodes -> Nodes \cup {Null}], NEW n \in Nodes,
           NEW m \in Chain(A, par, n), m # n
    PROVE  n \in A /\ par[n] \in Nodes /\ m \in Chain(A, par, par[n])
<1>1. CASE n \in A /\ par[n] # Null
    <2> DEFINE S == {n} \cup Chain(A, par, par[n])
    <2>1. par[n] \in Nodes BY <1>1
    <2>2. /\ par[n] \in Chain(A, par, par[n]) /\ S \in SUBSET Nodes
          /\ \A x \in Chain(A, par, par[n]) \cap A :
                par[x] \in Chain(A, par, par[n]) \cup {Null}
        BY <2>1, ChainClosed
    <2>3. Chain(A, par, n) \subseteq S
        <3>1. n \in S /\ \A x \in S \cap A : par[x] \in S \cup {Null} BY <2>2
        <3> HIDE DEF S
        <3> QED BY <2>2, <3>1, ChainLeast
    <2> QED BY <1>1, <2>1, <2>3
<1>2. CASE n \notin A \/ par[n] = Null
    <2> DEFINE S == {n}
    <2>1. /\ S \in SUBSET Nodes /\ n \in S
          /\ \A x \in S \cap A : par[x] \in S \cup {Null}
        BY <1>2
    <2> HIDE DEF S
    <2>2. Chain(A, par, n) \subseteq S BY <2>1, ChainLeast
    <2> QED BY <2>2 DEF S
<1> QED BY <1>1, <1>2

\* A node comes into another's chain by a child of it that is there.
LEMMA ChainLastStep ==
    ASSUME NEW A, NEW par \in [Nodes -> Nodes \cup {Null}], NEW n \in Nodes,
           NEW m \in Chain(A, par, n), m # n
    PROVE  \E c \in Chain(A, par, n) \cap A : par[c] = m
<1> SUFFICES ASSUME \A c \in Chain(A, par, n) \cap A : par[c] # m PROVE FALSE
    OBVIOUS
<1> DEFINE S == Chain(A, par, n) \ {m}
<1>1. /\ n \in S /\ S \in SUBSET Nodes
      /\ \A x \in S \cap A : par[x] \in S \cup {Null}
    BY ChainClosed
<1> HIDE DEF S
<1>2. Chain(A, par, n) \subseteq S BY <1>1, ChainLeast
<1> QED BY <1>2 DEF S

\* A change at a node that is not on the chain leaves the chain as it was.
LEMMA ChainElsewhere ==
    ASSUME NEW A, NEW par \in [Nodes -> Nodes \cup {Null}],
           NEW B, NEW new \in [Nodes -> Nodes \cup {Null}],
           NEW d, \A m \in Nodes \ {d} : (m \in A <=> m \in B) /\ new[m] = par[m],
           NEW n \in Nodes, d \notin Chain(A, par, n)
    PROVE  Chain(B, new, n) = Chain(A, par, n)
<1> DEFINE C == Chain(A, par, n)
           D == Chain(B, new, n)
<1>1. /\ n \in C /\ C \in SUBSET Nodes /\ \A m \in C \cap A : par[m] \in C \cup {Null}
      /\ n \in D /\ D \in SUBSET Nodes /\ \A m \in D \cap B : new[m] \in D \cup {Null}
    BY ChainClosed
<1> HIDE DEF C, D
<1>2. \A m \in C : m \in Nodes \ {d} BY <1>1 DEF C
<1>3. D \subseteq C
    <2>1. \A m \in C \cap B : new[m] \in C \cup {Null} BY <1>1, <1>2
    <2> QED BY <1>1, <2>1, ChainLeast DEF D
<1>4. C \subseteq D
    <2> DEFINE S == C \cap D
    <2>1. S \in SUBSET Nodes /\ n \in S /\ \A m \in S \cap A : par[m] \in S \cup {Null}
        BY <1>1, <1>2
    <2> HIDE DEF S
    <2>2. C \subseteq S BY <2>1, ChainLeast DEF C
    <2> QED BY <2>2 DEF S
<1> QED BY <1>3, <1>4 DEF C, D

\* The same from the other side: the change may be on the old chain.
LEMMA ChainCutOrKept ==
    ASSUME NEW A, NEW par \in [Nodes -> Nodes \cup {Null}],
           NEW B, NEW new \in [Nodes -> Nodes \cup {Null}],
           NEW d, \A m \in Nodes \ {d} : (m \in A <=> m \in B) /\ new[m] = par[m],
           NEW n \in Nodes
    PROVE  d \in Chain(A, par, n) <=> d \in Chain(B, new, n)
BY ChainElsewhere
-----------------------------------------------------------------------------
\* Following _parent from any node ends at a root.
Acyclic == \A n \in alive : \E r \in Ancestry(n) : r \notin alive \/ parent[r] = Null

\* Adding a root below a node it is not above closes no ring, and deleting a
\* node only cuts chains: the parent pointers stay acyclic.
LEMMA AcyclicPreserved ==
    ASSUME CarefulClient, IInv, Acyclic, [Next]_vars, TypeOK'
    PROVE  Acyclic'
<1> USE AncestryIsChain
<1>0. /\ TypeOK /\ parent \in [Nodes -> Nodes \cup {Null}] /\ alive \subseteq Nodes
      /\ parent' \in [Nodes -> Nodes \cup {Null}] /\ alive' \subseteq Nodes
    BY DEF IInv, AnyInv, TypeOK
<1> DEFINE Up(n) == Chain(alive, parent, n)
           UpNow(n) == Chain(alive', parent', n)
<1>1. \A n \in alive : \E r \in Up(n) : r \notin alive \/ parent[r] = Null
    BY DEF Acyclic
<1>2. SUFFICES \A n \in alive' : \E r \in UpNow(n) : r \notin alive' \/ parent'[r] = Null
    BY DEF Acyclic
<1>3. CASE alive' = alive /\ parent' = parent
    BY <1>1, <1>3
<1>4. ASSUME NEW n \in Nodes, NEW nm \in Names, NewNode(n, nm)
      PROVE  \A m \in alive' : \E r \in UpNow(m) : r \notin alive' \/ parent'[r] = Null
    <2>1. /\ n \notin alive /\ alive' = alive \cup {n} /\ parent'[n] = Null /\ dtor = <<>>
          /\ \A m \in Nodes \ {n} : (m \in alive <=> m \in alive') /\ parent'[m] = parent[m]
        BY <1>0, <1>4 DEF NewNode, Idle
    <2>2. SUFFICES ASSUME NEW m \in alive'
                   PROVE  \E r \in UpNow(m) : r \notin alive' \/ parent'[r] = Null
        OBVIOUS
    <2>3. CASE n \in UpNow(m) BY <2>1, <2>3
    <2>4. CASE n \notin UpNow(m)
        <3>1. m \in Nodes /\ m # n /\ m \in alive
            BY <1>0, <2>1, <2>4, ChainClosed
        <3>2. n \notin Up(m) BY <1>0, <2>1, <2>4, <3>1, ChainCutOrKept
        <3>3. UpNow(m) = Up(m) BY <1>0, <2>1, <3>1, <3>2, ChainElsewhere
        <3>4. PICK r \in Up(m) : r \notin alive \/ parent[r] = Null BY <1>1, <3>1
        <3>5. r \in Nodes \ {n} BY <1>0, <3>1, <3>2, ChainClosed
        <3> QED BY <2>1, <3>3, <3>4, <3>5
    <2> QED BY <2>3, <2>4
<1>5. ASSUME NEW p \in Nodes, NEW n \in Nodes, AddChild(p, n)
      PROVE  \A m \in alive' : \E r \in UpNow(m) : r \notin alive' \/ parent'[r] = Null
    <2>1. /\ p \in alive /\ n \in alive /\ alive' = alive /\ parent'[n] = p
          /\ \A m \in Nodes \ {n} : (m \in alive <=> m \in alive') /\ parent'[m] = parent[m]
          /\ n \notin Up(p)
        BY <1>0, <1>5 DEF AddChild, MayAdd, SetParentTo
    <2>2. PICK r \in Up(p) : r \notin alive \/ parent[r] = Null BY <1>1, <2>1
    <2>3. UpNow(p) = Up(p) BY <1>0, <2>1, ChainElsewhere
    <2>4. r \in Nodes \ {n} BY <1>0, <2>1, <2>2, ChainClosed
    <2>5. SUFFICES ASSUME NEW m \in alive
                   PROVE  \E s \in UpNow(m) : s \notin alive' \/ parent'[s] = Null
        BY <2>1
    <2>6. CASE n \in UpNow(m)
        <3>1. p \in UpNow(m)
            <4>1. p # Null BY NullAssumption
            <4> QED BY <1>0, <2>1, <2>6, <4>1, ChainClosed
        <3>2. UpNow(p) \subseteq UpNow(m) BY <1>0, <3>1, ChainTransitive
        <3> QED BY <2>1, <2>2, <2>3, <2>4, <3>2
    <2>7. CASE n \notin UpNow(m)
        <3>1. m \in Nodes BY <1>0
        <3>2. n \notin Up(m) BY <1>0, <2>1, <2>7, <3>1, ChainCutOrKept
        <3>3. UpNow(m) = Up(m) BY <1>0, <2>1, <3>1, <3>2, ChainElsewhere
        <3>4. PICK s \in Up(m) : s \notin alive \/ parent[s] = Null BY <1>1
        <3>5. s \in Nodes \ {n} BY <1>0, <3>1, <3>2, ChainClosed
        <3> QED BY <2>1, <3>3, <3>4, <3>5
    <2> QED BY <2>6, <2>7
<1>6. ASSUME FinishDestructor
      PROVE  \A m \in alive' : \E r \in UpNow(m) : r \notin alive' \/ parent'[r] = Null
    <2> DEFINE d == Top.node
    <2>1. /\ alive' = alive \ {d}
          /\ \A m \in Nodes \ {d} : (m \in alive <=> m \in alive') /\ parent'[m] = parent[m]
        BY <1>0, <1>6 DEF FinishDestructor
    <2> HIDE DEF d
    <2>2. SUFFICES ASSUME NEW m \in alive'
                   PROVE  \E r \in UpNow(m) : r \notin alive' \/ parent'[r] = Null
        OBVIOUS
    <2>3. CASE d \in UpNow(m) BY <2>1, <2>3
    <2>4. CASE d \notin UpNow(m)
        <3>1. m \in Nodes /\ m \in alive BY <1>0, <2>1
        <3>2. d \notin Up(m) BY <1>0, <2>1, <2>4, <3>1, ChainCutOrKept
        <3>3. UpNow(m) = Up(m) BY <1>0, <2>1, <3>1, <3>2, ChainElsewhere
        <3>4. PICK r \in Up(m) : r \notin alive \/ parent[r] = Null BY <1>1, <3>1
        <3>5. r \in Nodes \ {d} BY <1>0, <3>1, <3>2, ChainClosed
        <3> QED BY <2>1, <3>3, <3>4, <3>5
    <2> QED BY <2>3, <2>4
<1>7. ASSUME \/ UNCHANGED vars
             \/ \E n \in Nodes, nm \in Names : SetName(n, nm) \/ RemoveChildByName(n, nm)
             \/ \E n \in Nodes : DeleteTree(n)
             \/ \E p, n \in Nodes : RemoveChild(p, n)
             \/ DeleteNextChild
      PROVE  alive' = alive /\ parent' = parent
    BY <1>7 DEF vars, SetName, RemoveChildByName, DeleteTree, RemoveChild, RemoveAndDelete,
                DeleteNextChild
<1> HIDE DEF Up, UpNow
<1>8. ASSUME NEW n \in Nodes, NEW p \in Nodes \cup {Null}, SetParent(n, p) PROVE FALSE
    BY <1>8 DEF SetParent
<1> QED
    BY <1>3, <1>4, <1>5, <1>6, <1>7, <1>8 DEF Next, ClientCall, Destructor

\* The links with the absence of rings.
GraphInv == IInv /\ Acyclic

\* It holds of the empty graph, and every step keeps it.
LEMMA GraphInvHolds ==
    ASSUME CarefulClient
    PROVE  (Init => GraphInv) /\ (GraphInv /\ [Next]_vars => GraphInv')
<1>1. Init => Acyclic BY DEF Init, Acyclic
<1>2. IInv' => TypeOK' BY DEF IInv, AnyInv
<1> QED BY <1>1, <1>2, InitIInv, IInvPreserved, AcyclicPreserved DEF GraphInv
-----------------------------------------------------------------------------
\* No living node's parent is a node below it: following the pointers from a
\* node on such a ring would never meet a root.
LEMMA NoRing ==
    ASSUME TypeOK, Acyclic, NEW n \in alive, NEW c \in alive, c \in Ancestry(n)
    PROVE  parent[c] # n
<1> USE AncestryIsChain
<1> DEFINE Up(m) == Chain(alive, parent, m)
           S == {m \in Up(n) : n \in Up(m)}
<1>0. /\ parent \in [Nodes -> Nodes \cup {Null}] /\ alive \subseteq Nodes /\ n \in Nodes
      /\ Up(n) \in SUBSET Nodes /\ n \in Up(n)
      /\ \A m \in Up(n) \cap alive : parent[m] \in Up(n) \cup {Null}
    BY ChainClosed DEF TypeOK
<1>1. SUFFICES ASSUME parent[c] = n PROVE FALSE
    OBVIOUS
<1>2. n # Null /\ c \in Nodes BY <1>0, NullAssumption
<1>3. parent[n] \in Nodes /\ n \in Up(parent[n])
    <2>1. CASE c = n BY <1>0, <1>1, <2>1
    <2>2. CASE c # n
        <3>1. parent[n] \in Nodes /\ c \in Up(parent[n]) BY <1>0, <2>2, ChainFirstStep
        <3> QED BY <1>0, <1>1, <1>2, <3>1, ChainClosed
    <2> QED BY <2>1, <2>2
<1>4. Up(n) \subseteq S
    <2>1. S \in SUBSET Nodes /\ n \in S BY <1>0
    <2>2. ASSUME NEW m \in S \cap alive, parent[m] # Null PROVE parent[m] \in S
        <3>1. parent[m] \in Up(n) BY <1>0, <2>2
        <3>2. CASE m = n BY <1>3, <3>1, <3>2
        <3>3. CASE m # n
            <4>1. m \in Nodes /\ n \in Up(m) BY <1>0
            <4>2. n \in Up(parent[m]) BY <1>0, <3>3, <4>1, ChainFirstStep
            <4> QED BY <3>1, <4>2
        <3> QED BY <3>2, <3>3
    <2>3. \A m \in S \cap alive : parent[m] \in S \cup {Null} BY <2>2
    <2> HIDE DEF S
    <2> QED BY <2>1, <2>3, ChainLeast
<1>5. PICK r \in Up(n) : r \notin alive \/ parent[r] = Null
    BY DEF Acyclic
<1>6. n \in Up(r) /\ r \in Nodes BY <1>0, <1>4, <1>5
<1>7. r = n BY <1>0, <1>5, <1>6, <1>2, NullAssumption, ChainFirstStep
<1> QED BY <1>3, <1>5, <1>7, NullAssumption

\* The running destructors are all below the node the client is deleting.
LEMMA CallsAreBelowTheDoomed ==
    ASSUME IInv, NEW k \in DOMAIN dtor
    PROVE  dtor[1].node \in Ancestry(dtor[k].node)
<1> USE AncestryIsChain
<1> DEFINE Up(m) == Chain(alive, parent, m)
           Bad == {j \in DOMAIN dtor : dtor[1].node \notin Up(dtor[j].node)}
<1>0. /\ TypeOK /\ CallsNest /\ CalledByParent
      /\ parent \in [Nodes -> Nodes \cup {Null}] /\ alive \subseteq Nodes
      /\ \A j \in DOMAIN dtor : j \in Nat \ {0}
      /\ \A j \in DOMAIN dtor : j > 1 => j - 1 \in DOMAIN dtor
    BY DEF IInv, AnyInv, TypeOK
<1>1. SUFFICES ASSUME Bad # {} PROVE FALSE
    OBVIOUS
<1>2. PICK j \in Bad : \A i \in Bad : j <= i
    <2>1. Bad \in SUBSET Nat BY <1>0
    <2> HIDE DEF Bad
    <2> QED BY <1>1, <2>1, LeastNatural
<1>3. dtor[j].node \in alive /\ dtor[j].node \in Nodes BY <1>0 DEF CallsNest
<1>4. CASE j = 1 BY <1>3, <1>4, <1>0, ChainClosed
<1>5. CASE j > 1
    <2>1. j - 1 \in DOMAIN dtor /\ j - 1 \notin Bad /\ parent[dtor[j].node] = dtor[j-1].node
        BY <1>0, <1>2, <1>5 DEF CalledByParent
    <2>2. dtor[1].node \in Up(dtor[j-1].node) /\ dtor[j-1].node \in alive
        BY <1>0, <2>1 DEF CallsNest
    <2>3. dtor[j-1].node \in Up(dtor[j].node)
        <3>1. dtor[j-1].node # Null BY <1>0, <2>2, NullAssumption
        <3> QED BY <1>0, <1>3, <2>1, <3>1, ChainClosed
    <2> QED BY <1>0, <1>3, <2>2, <2>3, ChainTransitive
<1> QED BY <1>0, <1>4, <1>5

\* The node whose destructor returns has nothing below it any more.
LEMMA NothingBelowTheTop ==
    ASSUME IInv, Acyclic, dtor # <<>>, LoopOver(Top), NEW m \in alive, m # Top.node
    PROVE  Top.node \notin Ancestry(m)
<1> USE AncestryIsChain
<1> DEFINE L == Len(dtor)
           n == Top.node
           Up(x) == Chain(alive, parent, x)
<1>0. /\ TypeOK /\ CallsNest /\ PassedChildrenAreGone /\ LinksConsistent
      /\ parent \in [Nodes -> Nodes \cup {Null}] /\ alive \subseteq Nodes
    BY DEF IInv, AnyInv, TypeOK
<1>1. /\ L \in DOMAIN dtor /\ L \in Nat /\ dtor[L] = Top /\ n \in Nodes /\ Top.next \in Nat
      /\ n \in alive
    <2>1. L \in DOMAIN dtor /\ L \in Nat /\ dtor[L] = Top /\ Top \in Frame
        BY <1>0, TopType DEF Top
    <2> QED BY <1>0, <2>1 DEF Frame, CallsNest
<1>2. SUFFICES ASSUME n \in Up(m) PROVE FALSE
    OBVIOUS
<1>3. PICK c \in Up(m) \cap alive : parent[c] = n
    BY <1>0, <1>2, ChainLastStep
<1>4. n # Null BY <1>1, NullAssumption
<1>5. CASE c = dtor[1].node
    <2>1. c \in Ancestry(n) BY <1>1, <1>5, CallsAreBelowTheDoomed
    <2> QED BY <1>0, <1>1, <1>3, <2>1, NoRing
<1>6. CASE c # dtor[1].node
    <2>1. Occurs(children[n], c)
        BY <1>0, <1>3, <1>4, <1>6 DEF LinksConsistent, ParentListsChild
    <2>2. PICK i \in DOMAIN children[n] : children[n][i] = c BY <2>1 DEF Occurs
    <2>3. i < Top.next BY <1>0, <1>1, <2>2 DEF LoopOver, TypeOK
    <2>4. ~(L < Len(dtor)) BY <1>1
    <2> QED BY <1>0, <1>1, <1>3, <2>2, <2>3, <2>4 DEF PassedChildrenAreGone
<1> QED BY <1>5, <1>6

-----------------------------------------------------------------------------
\* The forest's lists are the graph's.
LEMMA SameLists ==
    ASSUME NEW s, NEW x
    PROVE  F!Without(s, x) = Without(s, x) /\ (F!Occurs(s, x) <=> Occurs(s, x))
<1>1. \A P : F!Cardinality(P) = Cardinality(P)
    BY DEF F!Cardinality, Cardinality
<1>2. F!KeptPositions(s, x) = KeptPositions(s, x)
    BY DEF F!KeptPositions, KeptPositions
<1>3. \A f, P : F!Increasing(f, P) <=> Increasing(f, P)
    BY <1>1 DEF F!Increasing, Increasing
<1>4. F!Without(s, x) = Without(s, x)
    <2> DEFINE kept == KeptPositions(s, x)
               n == Cardinality(kept)
               at == CHOOSE f \in [1..n -> kept] : Increasing(f, kept)
               theirs == CHOOSE f \in [1..n -> kept] : F!Increasing(f, kept)
    <2>1. at = theirs BY <1>3
    <2>2. Without(s, x) = [k \in 1..n |-> s[at[k]]] BY DEF Without
    <2>3. F!Without(s, x) = [k \in 1..n |-> s[theirs[k]]]
        <3> DEFINE fkept == F!KeptPositions(s, x)
                   fn == F!Cardinality(fkept)
                   fat == CHOOSE f \in [1..fn -> fkept] : F!Increasing(f, fkept)
        <3>1. fkept = kept BY <1>2
        <3>2. fn = n BY <1>1, <3>1
        <3>3. F!Without(s, x) = [k \in 1..fn |-> s[fat[k]]] BY DEF F!Without
        <3> HIDE DEF fkept, kept, fn, n
        <3>4. fat = theirs BY <3>1, <3>2
        <3> HIDE DEF fat, theirs
        <3> QED BY <3>2, <3>3, <3>4
    <2> QED BY <2>1, <2>2, <2>3
<1> QED BY <1>4 DEF F!Occurs, Occurs

\* While nothing is being deleted every living node is in the forest.
LEMMA AllKept ==
    ASSUME dtor = <<>>
    PROVE  Kept = alive
BY DEF Kept

\* Of two nodes the one is in the forest's subtree of the other exactly if it
\* is reached from it by parent pointers.
LEMMA SubtreeIsBelow ==
    ASSUME IInv, Idle, NEW n \in alive
    PROVE  F!Subtree(n) = {m \in alive : n \in Ancestry(m)}
<1> USE AncestryIsChain
<1> DEFINE Up(m) == Chain(alive, parent, m)
           T == {m \in alive : n \in Up(m)}
           Downward(S) == n \in S /\ \A a \in S, m \in alive : Occurs(children[a], m) => m \in S
<1>0. /\ TypeOK /\ parent \in [Nodes -> Nodes \cup {Null}] /\ alive \subseteq Nodes
      /\ Null \notin Nodes
    BY NullAssumption DEF IInv, AnyInv, TypeOK
<1>1. F!Subtree(n) = {m \in alive : \A S \in SUBSET alive : Downward(S) => m \in S}
    <2>1. Kept = alive BY AllKept DEF Idle
    <2>2. \A a \in alive : [q \in alive |-> children[q]][a] = children[a] OBVIOUS
    <2>3. \A S \in SUBSET alive :
             (\A a \in S, m \in alive : F!Occurs([q \in alive |-> children[q]][a], m) => m \in S)
             <=> (\A a \in S, m \in alive : Occurs(children[a], m) => m \in S)
        BY <2>2, SameLists
    <2> QED BY <2>1, <2>3 DEF F!Subtree
<1>2. T \in SUBSET alive /\ Downward(T)
    <2>1. n \in T BY <1>0, ChainClosed
    <2>2. ASSUME NEW a \in T, NEW m \in alive, Occurs(children[a], m) PROVE m \in T
        <3>1. parent[m] = a /\ a \in Nodes /\ m \in Nodes
            BY <1>0, <2>2, IdleLinks DEF Occurs
        <3>2. a \in Up(m) BY <1>0, <3>1, ChainClosed
        <3> QED BY <1>0, <3>1, <3>2, ChainTransitive
    <2> QED BY <2>1, <2>2
<1>3. ASSUME NEW m \in T, NEW S \in SUBSET alive, Downward(S) PROVE m \in S
    <2>1. SUFFICES ASSUME m \notin S PROVE FALSE
        OBVIOUS
    <2> DEFINE R == Nodes \ S
    <2>2. R \in SUBSET Nodes /\ m \in R BY <1>0, <2>1
    <2>3. ASSUME NEW x \in R \cap alive, parent[x] # Null PROVE parent[x] \in R
        <3>1. parent[x] \in alive /\ Occurs(children[parent[x]], x)
            BY <2>3 DEF IInv, LinksConsistent, ParentListsChild, Idle
        <3> QED BY <1>0, <1>3, <2>3, <3>1
    <2>4. Up(m) \subseteq R
        <3>1. \A x \in R \cap alive : parent[x] \in R \cup {Null} BY <2>3
        <3> HIDE DEF R
        <3> QED BY <2>2, <3>1, ChainLeast
    <2>5. n \in Up(m) /\ n \in S BY <1>3
    <2> QED BY <2>4, <2>5
<1> HIDE DEF Downward
<1>4. F!Subtree(n) = T
    BY <1>1, <1>2, <1>3
<1> QED BY <1>4

\* The graph starts as the empty forest.
LEMMA InitImplementsForest == Init => F!Init
<1> SUFFICES ASSUME Init PROVE F!Init
    OBVIOUS
<1>1. Kept = {} BY DEF Init, Kept
<1>2. [n \in Kept |-> children[n]] = [n \in {} |-> <<>>] BY <1>1
<1> QED BY <1>1, <1>2 DEF F!Init

\* A step that keeps the nodes, and the lists of those that stay, is none of
\* the forest's.
LEMMA Stutters ==
    ASSUME Kept' = Kept, \A n \in Kept : children'[n] = children[n]
    PROVE  UNCHANGED <<Kept, [n \in Kept |-> children[n]]>>
OBVIOUS

\* new plants a tree.
LEMMA NewNodePlants ==
    ASSUME IInv, NEW n \in Nodes, NEW nm \in Names, NewNode(n, nm)
    PROVE  F!Plant(n)
<1>1. /\ dtor = <<>> /\ dtor' = <<>> /\ n \notin alive /\ alive' = alive \cup {n}
      /\ alive \subseteq Nodes
      /\ \A m \in Nodes \ {n} : children'[m] = children[m]
      /\ children'[n] = <<>>
    BY DEF NewNode, Idle, IInv, AnyInv, TypeOK
<1>2. Kept = alive BY <1>1, AllKept
<1>3. Kept' = alive' BY <1>1 DEF Kept
<1>4. [m \in Kept |-> children[m]]' =
        [m \in alive' |-> IF m = n THEN <<>> ELSE [q \in Kept |-> children[q]][m]]
    BY <1>1, <1>2, <1>3
<1> QED BY <1>1, <1>2, <1>3, <1>4 DEF F!Plant

\* AddChild grafts the root of one tree below a node of another.
LEMMA AddChildGrafts ==
    ASSUME CarefulClient, IInv, NEW p \in Nodes, NEW n \in Nodes, AddChild(p, n)
    PROVE  F!Graft(p, n)
<1>1. /\ Idle /\ dtor = <<>> /\ dtor' = <<>> /\ alive' = alive /\ p \in alive /\ n \in alive
      /\ alive \subseteq Nodes /\ parent[n] = Null /\ n \notin Ancestry(p)
      /\ \A m \in Nodes \ {p} : children'[m] = children[m]
      /\ children'[p] = Append(children[p], n)
      /\ Null \notin Nodes
    BY NullAssumption DEF AddChild, MayAdd, Idle, IInv, AnyInv, TypeOK
<1>2. Kept = alive BY <1>1, AllKept
<1>3. Kept' = alive BY <1>1 DEF Kept
<1>4. F!IsRoot(n)
    <2>1. \A q \in alive : ~Occurs(children[q], n)
        BY <1>1, IdleLinks DEF Occurs
    <2> QED BY <1>2, <2>1, SameLists DEF F!IsRoot
<1>5. p \notin F!Subtree(n) BY <1>1, SubtreeIsBelow
<1>6. [m \in Kept |-> children[m]]' =
        [[m \in Kept |-> children[m]] EXCEPT ![p] = Append(@, n)]
    BY <1>1, <1>2, <1>3
<1> QED BY <1>1, <1>2, <1>3, <1>4, <1>5, <1>6 DEF F!Graft

\* Starting to delete a node prunes its subtree, in the lists as in the set.
LEMMA DeletionPrunes ==
    ASSUME IInv, Idle, NEW n \in alive, UNCHANGED <<alive, parent>>,
           dtor' = <<[node |-> n, next |-> 1]>>,
           \A m \in alive : children'[m] = Without(children[m], n)
    PROVE  F!Prune(n)
<1>1. Kept = alive BY AllKept DEF Idle
<1>2. dtor' # <<>> /\ dtor'[1].node = n OBVIOUS
<1>3. \A m : Ancestry(m)' = Ancestry(m) BY DEF Ancestry
<1>4. Kept' = Kept \ F!Subtree(n)
    <2>1. Kept' = {m \in alive : n \notin Ancestry(m)} BY <1>2, <1>3 DEF Kept
    <2>2. F!Subtree(n) = {m \in alive : n \in Ancestry(m)} BY SubtreeIsBelow
    <2> QED BY <1>1, <2>1, <2>2
<1>5. [m \in Kept |-> children[m]]' =
        [m \in Kept' |-> F!Without([q \in Kept |-> children[q]][m], n)]
    <2>1. Kept' \subseteq alive BY <1>1, <1>4
    <2> QED BY <1>1, <2>1, SameLists
<1> QED BY <1>1, <1>4, <1>5 DEF F!Prune

\* RemoveChild, in both its forms, prunes what it removes.
LEMMA TakesChildPrunes ==
    ASSUME IInv, Idle, NEW p \in alive, NEW n \in Nodes, Occurs(children[p], n),
           TakesChild(p, n)
    PROVE  n \in alive /\ F!Prune(n)
<1>1. /\ TypeOK /\ dtor = <<>> /\ p \in Nodes /\ alive \subseteq Nodes
      /\ alive' = alive /\ parent' = parent /\ Delete(n, dtor)
      /\ \A q \in Nodes \ {p} : children'[q] = children[q]
      /\ children'[p] = Without(children[p], n)
      /\ \A q \in Nodes : children[q] \in Seq(Nodes)
    BY DEF TakesChild, Idle, IInv, AnyInv, TypeOK
<1>2. n \in alive /\ parent[n] = p BY IdleLinks DEF Occurs
<1>3. dtor' = <<[node |-> n, next |-> 1]>> BY <1>1, <1>2 DEF Delete, Entered
<1>4. ASSUME NEW m \in alive PROVE children'[m] = Without(children[m], n)
    <2>1. CASE m = p BY <1>1, <2>1
    <2>2. CASE m # p
        <3>1. \A i \in DOMAIN children[m] : children[m][i] # n BY <1>2, <2>2, IdleLinks
        <3>2. Without(children[m], n) = children[m] BY <1>1, <3>1, WithoutAbsent
        <3> QED BY <1>1, <2>2, <3>2
    <2> QED BY <2>1, <2>2
<1> QED BY <1>1, <1>2, <1>3, <1>4, DeletionPrunes

\* Deleting a tree prunes it whole.
LEMMA DeleteTreePrunes ==
    ASSUME CarefulClient, IInv, NEW n \in Nodes, DeleteTree(n)
    PROVE  F!Prune(n)
<1>1. /\ TypeOK /\ Idle /\ dtor = <<>> /\ alive \subseteq Nodes /\ n \in alive
      /\ parent[n] = Null /\ Null \notin Nodes
      /\ alive' = alive /\ parent' = parent /\ children' = children /\ Delete(n, dtor)
      /\ \A q \in Nodes : children[q] \in Seq(Nodes)
    BY NullAssumption DEF DeleteTree, MayDelete, Idle, IInv, AnyInv, TypeOK
<1>2. dtor' = <<[node |-> n, next |-> 1]>> BY <1>1 DEF Delete, Entered
<1>3. ASSUME NEW m \in alive PROVE children'[m] = Without(children[m], n)
    <2>1. \A i \in DOMAIN children[m] : children[m][i] # n BY <1>1, IdleLinks
    <2> QED BY <1>1, <2>1, WithoutAbsent
<1> QED BY <1>1, <1>2, <1>3, DeletionPrunes

\* The next destructor call is inside a deletion the forest has seen already.
LEMMA DeleteNextChildStutters ==
    ASSUME IInv, DeleteNextChild
    PROVE  Kept' = Kept /\ children' = children
<1> DEFINE L == Len(dtor)
           c == children[Top.node][Top.next]
<1>1. /\ TypeOK /\ dtor # <<>> /\ ~LoopOver(Top)
      /\ alive' = alive /\ parent' = parent /\ children' = children
      /\ Delete(c, [dtor EXCEPT ![L] = Advanced(@)])
    BY DEF DeleteNextChild, IInv, AnyInv
<1>2. \A m : Ancestry(m)' = Ancestry(m) BY <1>1 DEF Ancestry
<1>3. dtor' # <<>> /\ dtor'[1].node = dtor[1].node
    <2>1. CASE UNCHANGED dtor BY <1>1, <2>1
    <2>2. CASE ~UNCHANGED dtor
        <3>1. /\ c \in alive
              /\ dtor' = Append([dtor EXCEPT ![Len(dtor)] = Advanced(Top)], Entered(c))
            BY <1>1, <2>2 DEF Delete, Top
        <3>2. /\ dtor \in Seq(Frame) /\ Top \in Frame /\ Top = dtor[L] /\ L \in 1..L /\ 1 \in 1..L
            BY <1>1, TopType DEF TypeOK, Top
        <3>3. /\ Advanced(Top) \in Frame /\ Advanced(Top).node = Top.node
            BY <3>2 DEF Frame, Advanced
        <3>4. Entered(c) \in Frame
            <4>1. c \in Nodes BY <1>1, <3>1 DEF TypeOK
            <4> HIDE DEF c
            <4> QED BY <4>1 DEF Entered, Frame
        <3> HIDE DEF L, c
        <3>5. /\ dtor' # <<>> /\ dtor'[Len(dtor)] = Advanced(Top)
              /\ \A k \in 1..Len(dtor) : k # Len(dtor) => dtor'[k] = dtor[k]
            BY <1>1, <3>1, <3>2, <3>3, <3>4, ReplaceLastAndAppend
        <3> QED BY <3>2, <3>3, <3>5 DEF L
    <2> QED BY <2>1, <2>2
<1> QED BY <1>1, <1>2, <1>3 DEF Kept

\* Nor does a destructor's return change the forest: its node left before.
LEMMA FinishDestructorStutters ==
    ASSUME IInv, Acyclic, FinishDestructor, TypeOK'
    PROVE  Kept' = Kept /\ \A n \in Kept : children'[n] = children[n]
<1> DEFINE L == Len(dtor)
           n == Top.node
<1>1. /\ TypeOK /\ CallsNest /\ dtor # <<>> /\ LoopOver(Top) /\ alive' = alive \ {n}
      /\ dtor' = SubSeq(dtor, 1, L - 1)
    BY DEF FinishDestructor, IInv, AnyInv
<1>2. /\ L \in 1..L /\ 1 \in 1..L /\ L \in Nat \ {0} /\ DOMAIN dtor = 1..L /\ dtor[L] = Top
      /\ n \in Nodes /\ n \in alive /\ alive \subseteq Nodes /\ dtor \in Seq(Frame)
    <2>1. dtor \in Seq(Frame) /\ Top \in Frame BY <1>1, TopType DEF TypeOK
    <2>2. L \in Nat \ {0} /\ DOMAIN dtor = 1..L /\ dtor[L] = Top BY <1>1, <2>1 DEF Top
    <2>3. n \in alive BY <1>1, <2>2 DEF CallsNest
    <2> QED BY <1>1, <2>1, <2>2, <2>3 DEF Frame, TypeOK
<1>3. \A m \in Nodes \ {n} : /\ (m \in alive <=> m \in alive')
                             /\ parent'[m] = parent[m] /\ children'[m] = children[m]
    BY <1>1, <1>2 DEF FinishDestructor, TypeOK
<1>4. \A m \in alive \ {n} : n \notin Ancestry(m) /\ Ancestry(m)' = Ancestry(m)
    <2>1. SUFFICES ASSUME NEW m \in alive \ {n}
                   PROVE  n \notin Ancestry(m) /\ Ancestry(m)' = Ancestry(m)
        OBVIOUS
    <2>2. n \notin Ancestry(m) BY <1>1, NothingBelowTheTop
    <2>3. /\ parent \in [Nodes -> Nodes \cup {Null}] /\ m \in Nodes
          /\ parent' \in [Nodes -> Nodes \cup {Null}]
        BY <1>1, <1>2 DEF TypeOK
    <2> HIDE DEF n
    <2>4. Chain(alive', parent', m) = Chain(alive, parent, m)
        BY <1>3, <2>2, <2>3, AncestryIsChain, ChainElsewhere
    <2> QED BY <2>2, <2>4, AncestryIsChain
<1>5. n \notin Kept
    <2>1. dtor[1].node \in Ancestry(n) BY <1>2, CallsAreBelowTheDoomed
    <2> QED BY <1>1, <2>1 DEF Kept
<1>6. CASE L = 1
    <2>1. dtor' = <<>> BY <1>1, <1>2, <1>6
    <2>2. dtor[1].node = n BY <1>2, <1>6
    <2>3. Kept' = alive \ {n} BY <1>1, <2>1 DEF Kept
    <2>4. Kept = alive \ {n} BY <1>1, <1>4, <1>5, <2>2 DEF Kept
    <2> QED BY <1>2, <1>3, <2>3, <2>4
<1>7. CASE L # 1
    <2>1. dtor' # <<>> /\ dtor'[1] = dtor[1]
        <3>1. L - 1 \in Nat \ {0} /\ 1 \in 1..(L-1) BY <1>2, <1>7
        <3>2. \A k \in 1..(L-1) : dtor[k] \in Frame BY <1>2
        <3>3. Len(dtor') = L - 1 /\ \A k \in 1..(L-1) : dtor'[k] = dtor[k]
            BY <1>1, <1>2, <3>2, SubSeqProperties
        <3> HIDE DEF L
        <3> QED BY <3>1, <3>3
    <2>2. Kept' = {m \in alive \ {n} : dtor[1].node \notin Ancestry(m)}
        BY <1>1, <1>4, <2>1 DEF Kept
    <2>3. Kept = {m \in alive : dtor[1].node \notin Ancestry(m)}
        BY <1>1 DEF Kept
    <2> QED BY <1>2, <1>3, <1>5, <2>2, <2>3
<1> QED BY <1>6, <1>7

\* Every step of the graph is a step of the forest or none at all.
LEMMA StepImplementsForest ==
    ASSUME CarefulClient, IInv, Acyclic, [Next]_vars, IInv'
    PROVE  [F!Next]_<<Kept, [n \in Kept |-> children[n]]>>
<1> DEFINE Forest == F!Next \/ UNCHANGED <<Kept, [n \in Kept |-> children[n]]>>
<1>0. TypeOK /\ TypeOK' /\ alive \subseteq Nodes BY DEF IInv, AnyInv, TypeOK
<1>1. ASSUME NEW n \in Nodes, F!Plant(n) \/ F!Prune(n) PROVE F!Next
    BY <1>1 DEF F!Next
<1>2. ASSUME UNCHANGED <<alive, parent, children, dtor>> PROVE Forest
    BY <1>2, Stutters DEF Kept, Ancestry
<1>3. ASSUME NEW n \in Nodes, NEW nm \in Names, NewNode(n, nm) PROVE Forest
    BY <1>1, <1>3, NewNodePlants
<1>4. ASSUME NEW p \in Nodes, NEW n \in Nodes, AddChild(p, n) PROVE Forest
    BY <1>4, AddChildGrafts DEF F!Next
<1>13. ASSUME UNCHANGED vars PROVE Forest
    BY <1>2, <1>13 DEF vars
<1>5. ASSUME NEW p \in Nodes, NEW n \in Nodes, RemoveChild(p, n) PROVE Forest
    <2>1. Idle /\ p \in alive BY <1>5 DEF RemoveChild
    <2> QED BY <1>0, <1>1, <1>5, <1>13, <2>1, RemovalCases, TakesChildPrunes DEF RemoveChild
<1>6. ASSUME NEW p \in Nodes, NEW nm \in Names, RemoveChildByName(p, nm) PROVE Forest
    <2>1. Idle /\ p \in alive BY <1>6 DEF RemoveChildByName
    <2>2. \A i \in DOMAIN children[p] : children[p][i] \in alive BY <2>1, IdleLinks
    <2> QED BY <1>0, <1>1, <1>6, <1>13, <2>1, <2>2, NamedRemovalCases, TakesChildPrunes
<1>7. ASSUME NEW n \in Nodes, DeleteTree(n) PROVE Forest
    BY <1>1, <1>7, DeleteTreePrunes
<1>8. ASSUME NEW n \in Nodes, NEW p \in Nodes \cup {Null}, SetParent(n, p) PROVE Forest
    BY <1>8 DEF SetParent
<1>9. ASSUME DeleteNextChild PROVE Forest
    BY <1>9, DeleteNextChildStutters, Stutters
<1>10. ASSUME FinishDestructor PROVE Forest
    BY <1>0, <1>10, FinishDestructorStutters, Stutters
<1>11. ASSUME \/ UNCHANGED vars
              \/ \E n \in Nodes, nm \in Names : SetName(n, nm)
       PROVE  Forest
    BY <1>2, <1>11, <1>13 DEF SetName
<1> HIDE DEF Forest
<1>12. Forest
    BY <1>3, <1>4, <1>5, <1>6, <1>7, <1>8, <1>9, <1>10, <1>11
       DEF Next, ClientCall, Destructor
<1> QED BY <1>12 DEF Forest

\* The graph of a careful client implements an ordered forest: a removal takes
\* the whole subtree at once and nothing else, and no destructor that is still
\* running shows in what is left.
THEOREM GraphImplementsForest ==
    ASSUME CarefulClient
    PROVE  Spec => ImplementsForest
<1>1. GraphInv /\ [Next]_vars /\ GraphInv'
        => [F!Next]_<<Kept, [n \in Kept |-> children[n]]>>
    BY StepImplementsForest DEF GraphInv
<1> QED
    BY <1>1, GraphInvHolds, InitImplementsForest, PTL DEF Spec, ImplementsForest, F!Spec

\* RemoveChild by name, called by a careful client, takes the first child of
\* that name with its subtree, and nothing if there is no such child.
LEMMA NamedRemoval ==
    ASSUME IInv, [Next]_vars, NEW p \in alive, NEW nm \in Names, RemoveChildByName(p, nm)
    PROVE  \/ ChildrenNamed(p, nm) = {} /\ UNCHANGED vars
           \/ \E i \in ChildrenNamed(p, nm) :
                 /\ \A j \in ChildrenNamed(p, nm) : i <= j
                 /\ Kept' = {m \in alive : children[p][i] \notin Ancestry(m)}
<1>1. Idle /\ TypeOK /\ p \in Nodes BY DEF RemoveChildByName, IInv, AnyInv, TypeOK
<1>2. \A i \in DOMAIN children[p] : children[p][i] \in alive BY <1>1, IdleLinks
<1>3. ASSUME NEW i \in DOMAIN children[p], TakesChild(p, children[p][i])
      PROVE  Kept' = {m \in alive : children[p][i] \notin Ancestry(m)}
    <2>1. children[p][i] \in alive /\ children[p][i] \in Nodes BY <1>1, <1>2 DEF TypeOK
    <2>2. /\ alive' = alive /\ parent' = parent /\ dtor = <<>> /\ \A k \in DOMAIN dtor : FALSE
          /\ Delete(children[p][i], dtor)
        BY <1>1, <1>3 DEF TakesChild, Idle
    <2>3. dtor' = <<[node |-> children[p][i], next |-> 1]>>
        BY <2>1, <2>2 DEF Delete, Entered
    <2>4. \A m : Ancestry(m)' = Ancestry(m) BY <2>2 DEF Ancestry
    <2> QED BY <2>2, <2>3, <2>4 DEF Kept
<1> QED BY <1>1, <1>2, <1>3, NamedRemovalCases

\* So for a careful client RemoveChild by name never takes more or other than
\* it was asked for, and is harmless for a name that is not there.
THEOREM RemovalByNameIsExact ==
    ASSUME CarefulClient
    PROVE  Spec => OnlyTheNamedGoes
<1>1. IInv /\ [Next]_vars => IInv' BY IInvPreserved
<1>2. IInv /\ [Next]_vars
        => [\A p \in alive, nm \in Names : RemoveChildByName(p, nm) =>
               \/ ChildrenNamed(p, nm) = {} /\ UNCHANGED vars
               \/ \E i \in ChildrenNamed(p, nm) :
                     /\ \A j \in ChildrenNamed(p, nm) : i <= j
                     /\ Kept' = {m \in alive : children[p][i] \notin Ancestry(m)}]_vars
    BY NamedRemoval
<1> QED BY <1>1, <1>2, InitIInv, PTL DEF Spec, OnlyTheNamedGoes
-----------------------------------------------------------------------------
\* GetByName calls itself on the children: the table of its results by depth
\* exists, and what it returns is the deepest row's.
LEMMA GetByNameRecursion ==
    ASSUME NEW nm
    PROVE  \E find :
             /\ \A n \in Nodes : GetByName(n, nm) = find[Cardinality(Nodes)][n]
             /\ \A k \in 1..Cardinality(Nodes), m \in Nodes :
                   find[k][m] = FoundAt(find[k-1], m, nm)
<1> DEFINE N == Cardinality(Nodes)
           Row(below) == [m \in Nodes |-> FoundAt(below, m, nm)]
           Deeper(f, k) == IF k = 0 THEN [c \in Nodes |-> Null] ELSE f[k-1]
           Good(f, n) == f = [k \in 0..n |-> Row(Deeper(f, k))]
           Bad == {n \in 0..N : \A f : ~Good(f, n)}
<1>0. N \in Nat BY NodesAssumption, FS_CardinalityType
<1> HIDE DEF N, Row
<1>1. Bad = {}
    <2>1. SUFFICES ASSUME Bad # {} PROVE FALSE
        OBVIOUS
    <2>2. PICK n \in Bad : \A k \in Bad : n <= k
        <3>1. Bad \in SUBSET Nat BY <1>0
        <3> HIDE DEF Bad
        <3> QED BY <2>1, <3>1, LeastNatural
    <2>3. n \in 0..N /\ n \in Nat /\ \A f : ~Good(f, n) BY <1>0
    <2>4. \E f : n = 0 \/ Good(f, n - 1)
        <3>1. SUFFICES ASSUME n # 0 PROVE n - 1 \notin Bad /\ n - 1 \in 0..N
            OBVIOUS
        <3>2. n - 1 \in 0..N /\ ~(n <= n - 1) BY <1>0, <2>3, <3>1
        <3> HIDE DEF Bad
        <3> QED BY <2>2, <3>2
    <2>5. PICK f : n = 0 \/ Good(f, n - 1) BY <2>4
    <2> HIDE DEF Bad
    <2> DEFINE g == [k \in 0..n |-> IF k = n THEN Row(Deeper(f, n)) ELSE f[k]]
    <2>6. ASSUME NEW k \in 0..n PROVE g[k] = Row(Deeper(g, k))
        <3>1. Deeper(g, k) = Deeper(f, k)
            <4>1. k # 0 => k - 1 \in 0..n /\ k - 1 # n BY <2>3
            <4> QED BY <4>1
        <3>2. g[k] = Row(Deeper(f, k))
            <4>1. k # n => n # 0 /\ k \in 0..(n-1) BY <2>3
            <4> HIDE DEF Deeper
            <4> QED BY <2>5, <4>1
        <3> HIDE DEF g, Deeper
        <3> QED BY <3>1, <3>2
    <2>7. Good(g, n)
        <3>1. g = [k \in 0..n |-> g[k]]
            OBVIOUS
        <3> HIDE DEF g
        <3> QED BY <2>6, <3>1
    <2> HIDE DEF Good
    <2> QED BY <2>3, <2>7
<1> DEFINE find == CHOOSE f : Good(f, N)
<1>2. Good(find, N)
    <2>1. N \in 0..N BY <1>0
    <2> HIDE DEF Good
    <2> QED BY <1>1, <2>1
<1>3. \A n \in Nodes : GetByName(n, nm) = find[N][n]
    BY DEF GetByName, N, Row
<1> HIDE DEF find
<1>4. ASSUME NEW k \in 1..N, NEW m \in Nodes
      PROVE  find[k][m] = FoundAt(find[k-1], m, nm)
    <2>1. k \in 0..N /\ k # 0 BY <1>0
    <2>2. find[k] = Row(find[k-1]) BY <1>2, <2>1
    <2> QED BY <2>2 DEF Row
<1> QED BY <1>3, <1>4 DEF N

\* The nodes below m, m with them, while nothing is being deleted.
Below(m) == {x \in alive : m \in Ancestry(x)}

\* What is below a child is below its parent, which is not below the child.
LEMMA BelowChild ==
    ASSUME IInv, Acyclic, Idle, NEW m \in alive, NEW i \in DOMAIN children[m]
    PROVE  /\ children[m][i] \in alive
           /\ Below(children[m][i]) \subseteq Below(m) \ {m}
<1> DEFINE c == children[m][i]
<1>1. c \in alive /\ parent[c] = m BY IdleLinks
<1>2. /\ TypeOK /\ parent \in [Nodes -> Nodes \cup {Null}] /\ alive \subseteq Nodes
      /\ m # Null
    BY NullAssumption DEF IInv, AnyInv, TypeOK
<1> HIDE DEF c
<1>3. c \notin Ancestry(m) BY <1>1, <1>2, NoRing
<1>4. ASSUME NEW x \in alive, c \in Ancestry(x) PROVE m \in Ancestry(x)
    BY <1>1, <1>2, <1>4, AncestryIsChain, ChainClosed
<1> QED BY <1>1, <1>3, <1>4 DEF Below, c

\* What is below a node and not itself is below one of its children.
LEMMA BelowSomeChild ==
    ASSUME IInv, Idle, NEW m \in alive, NEW x \in Below(m), x # m
    PROVE  \E i \in DOMAIN children[m] : x \in Below(children[m][i])
<1>1. /\ TypeOK /\ parent \in [Nodes -> Nodes \cup {Null}] /\ alive \subseteq Nodes
      /\ m # Null /\ x \in alive /\ m \in Ancestry(x)
    BY NullAssumption DEF IInv, AnyInv, TypeOK, Below
<1>2. PICK c \in Ancestry(x) \cap alive : parent[c] = m
    BY <1>1, AncestryIsChain, ChainLastStep
<1>3. Occurs(children[m], c)
    BY <1>1, <1>2 DEF IInv, LinksConsistent, ParentListsChild, Idle
<1> QED BY <1>1, <1>2, <1>3 DEF Occurs, Below

\* GetByName's answer v at m is the first of that name below m, or none.
FirstOfName(v, m, nm) ==
    LET named == {x \in Below(m) : name[x] = nm}
    IN  IF named = {} THEN v = Null
        ELSE v \in named /\ \A x \in named \ {v} : Precedes(v, x)

\* If the calls on the children answer right, so does the call at their parent.
LEMMA FoundAtIsFirst ==
    ASSUME IInv, Acyclic, Idle, NEW m \in alive, NEW nm, NEW below,
           \A i \in DOMAIN children[m] :
               FirstOfName(below[children[m][i]], children[m][i], nm)
    PROVE  FirstOfName(FoundAt(below, m, nm), m, nm)
<1> DEFINE Named(x) == {y \in Below(x) : name[y] = nm}
           found == {i \in DOMAIN children[m] : below[children[m][i]] # Null}
<1>1. /\ TypeOK /\ parent \in [Nodes -> Nodes \cup {Null}] /\ alive \subseteq Nodes
      /\ Null \notin Nodes /\ children[m] \in Seq(Nodes) /\ m \in Nodes
    BY NullAssumption DEF IInv, AnyInv, TypeOK
<1>2. \A x : Named(x) \subseteq alive BY DEF Below
<1>3. m \in Below(m)
    <2>1. m \in Chain(alive, parent, m) BY <1>1, ChainClosed
    <2> QED BY <2>1, AncestryIsChain DEF Below
<1>4. CASE name[m] = nm
    <2>1. FoundAt(below, m, nm) = m BY <1>4 DEF FoundAt
    <2>2. m \in Named(m) BY <1>3, <1>4
    <2>3. \A x \in Named(m) \ {m} : Precedes(m, x) BY DEF Precedes, Below
    <2> QED BY <2>1, <2>2, <2>3 DEF FirstOfName
<1>5. CASE name[m] # nm
    <2>1. \A i \in DOMAIN children[m] : i \in found <=> Named(children[m][i]) # {}
        <3>1. SUFFICES ASSUME NEW i \in DOMAIN children[m]
                       PROVE  below[children[m][i]] # Null <=> Named(children[m][i]) # {}
            OBVIOUS
        <3>2. FirstOfName(below[children[m][i]], children[m][i], nm) OBVIOUS
        <3> HIDE DEF found
        <3> QED BY <1>1, <1>2, <3>2 DEF FirstOfName
    <2>2. \A x \in Named(m) : \E i \in found : x \in Named(children[m][i])
        <3>1. SUFFICES ASSUME NEW x \in Named(m)
                       PROVE  \E i \in found : x \in Named(children[m][i])
            OBVIOUS
        <3>2. x \in Below(m) /\ name[x] = nm /\ x # m BY <1>5
        <3>3. PICK i \in DOMAIN children[m] : x \in Below(children[m][i])
            BY <3>2, BelowSomeChild
        <3>4. x \in Named(children[m][i]) BY <3>2, <3>3
        <3> HIDE DEF found, Named
        <3> QED BY <2>1, <3>4
    <2>3. \A i \in DOMAIN children[m] : Named(children[m][i]) \subseteq Named(m)
        BY BelowChild
    <2>4. CASE found = {}
        <3>1. FoundAt(below, m, nm) = Null BY <1>5, <2>4 DEF FoundAt
        <3>2. Named(m) = {}
            <4> HIDE DEF Named, found
            <4> QED BY <2>2, <2>4
        <3> QED BY <3>1, <3>2 DEF FirstOfName
    <2>5. CASE found # {}
        <3> DEFINE i == FirstOf(found)
                   v == below[children[m][i]]
        <3>1. i \in found /\ \A j \in found : i <= j
            <4>1. found \in SUBSET Nat BY <1>1
            <4> HIDE DEF found
            <4>2. \E k \in found : \A j \in found : k <= j BY <2>5, <4>1, LeastNatural
            <4> QED BY <4>2 DEF FirstOf
        <3>2. FoundAt(below, m, nm) = v BY <1>5, <2>5 DEF FoundAt
        <3>3. i \in DOMAIN children[m] /\ Named(children[m][i]) # {} /\ i \in Nat
            <4>1. found \subseteq DOMAIN children[m] OBVIOUS
            <4> HIDE DEF found, i, Named
            <4>2. i \in DOMAIN children[m] BY <3>1, <4>1
            <4> QED BY <1>1, <2>1, <3>1, <4>2
        <3> HIDE DEF found, i
        <3>4. FirstOfName(v, children[m][i], nm) BY <3>3
        <3>5. v \in Named(children[m][i]) /\ \A x \in Named(children[m][i]) \ {v} : Precedes(v, x)
            <4> HIDE DEF v
            <4> QED BY <3>3, <3>4 DEF FirstOfName
        <3> HIDE DEF v, Named
        <3>6. ASSUME NEW x \in Named(m), x # v PROVE Precedes(v, x)
            <4>1. PICK j \in found : x \in Named(children[m][j]) BY <2>2
            <4>2. j \in DOMAIN children[m] /\ j \in Nat /\ i <= j
                BY <1>1, <3>1 DEF found
            <4>3. CASE i = j BY <3>5, <3>6, <4>1, <4>3
            <4>4. CASE i # j
                <5>1. i < j BY <3>3, <4>2, <4>4
                <5>2. children[m][i] \in Ancestry(v) /\ children[m][j] \in Ancestry(x)
                    BY <3>5, <4>1 DEF Named, Below
                <5> QED BY <3>3, <4>2, <5>1, <5>2 DEF Precedes
            <4> QED BY <4>3, <4>4
        <3>7. v \in Named(m) BY <2>3, <3>3, <3>5
        <3> QED BY <3>2, <3>6, <3>7 DEF FirstOfName, Named
    <2> QED BY <2>4, <2>5
<1> QED BY <1>4, <1>5

\* GetByName finds the first node of a name below the one it is asked at.
LEMMA LookupIsRight ==
    ASSUME IInv, Acyclic
    PROVE  LookupFindsTheFirst
<1> SUFFICES ASSUME Idle, NEW n \in alive, NEW nm \in Names
             PROVE  FirstOfName(GetByName(n, nm), n, nm)
    BY DEF LookupFindsTheFirst, FirstOfName, Below
<1> DEFINE N == Cardinality(Nodes)
           Size(m) == Cardinality(Below(m))
<1>1. PICK find : /\ \A m \in Nodes : GetByName(m, nm) = find[N][m]
                  /\ \A k \in 1..N, m \in Nodes : find[k][m] = FoundAt(find[k-1], m, nm)
    BY GetByNameRecursion
<1>2. /\ TypeOK /\ alive \subseteq Nodes /\ parent \in [Nodes -> Nodes \cup {Null}]
    BY DEF IInv, AnyInv, TypeOK
<1>3. N \in Nat /\ \A m : Below(m) \subseteq Nodes /\ IsFiniteSet(Below(m)) /\ Size(m) \in 0..N
    <2>1. N \in Nat BY NodesAssumption, FS_CardinalityType
    <2>2. \A m : Below(m) \subseteq Nodes BY <1>2 DEF Below
    <2>3. ASSUME NEW m PROVE IsFiniteSet(Below(m)) /\ Size(m) \in 0..N
        <3>1. IsFiniteSet(Below(m)) /\ Size(m) <= N BY <2>2, NodesAssumption, FS_Subset
        <3>2. Size(m) \in Nat BY <3>1, FS_CardinalityType
        <3> HIDE DEF N, Size
        <3> QED BY <2>1, <3>1, <3>2
    <2> QED BY <2>1, <2>2, <2>3
<1> DEFINE Right(k) == \A m \in alive : Size(m) <= k => FirstOfName(find[k][m], m, nm)
           Bad == {k \in 0..N : ~Right(k)}
<1>4. Bad = {}
    <2>1. SUFFICES ASSUME Bad # {} PROVE FALSE
        OBVIOUS
    <2>2. PICK k \in Bad : \A j \in Bad : k <= j
        <3>1. Bad \in SUBSET Nat BY <1>3
        <3> HIDE DEF Bad
        <3> QED BY <2>1, <3>1, LeastNatural
    <2>3. k \in 0..N /\ k \in Nat /\ ~Right(k) BY <1>3
    <2>4. PICK m \in alive : Size(m) <= k /\ ~FirstOfName(find[k][m], m, nm) BY <2>3
    <2>5. m \in Below(m) /\ m \in Nodes
        <3>1. m \in Nodes BY <1>2
        <3>2. m \in Ancestry(m) BY <1>2, <3>1, AncestryIsChain, ChainClosed
        <3> QED BY <3>1, <3>2 DEF Below
    <2>6. k # 0
        <3>1. Size(m) # 0 BY <1>3, <2>5, FS_EmptySet
        <3> HIDE DEF Size
        <3> QED BY <1>3, <2>4, <3>1
    <2>7. k - 1 \in 0..N /\ k \in 1..N /\ ~(k <= k - 1) BY <1>3, <2>3, <2>6
    <2>8. Right(k - 1)
        <3>1. k - 1 \notin Bad
            <4> HIDE DEF Bad
            <4> QED BY <2>2, <2>7
        <3> HIDE DEF Right
        <3> QED BY <2>7, <3>1
    <2>9. ASSUME NEW i \in DOMAIN children[m]
          PROVE  FirstOfName(find[k-1][children[m][i]], children[m][i], nm)
        <3> DEFINE c == children[m][i]
        <3>1. c \in alive /\ Below(c) \subseteq Below(m) \ {m} BY BelowChild
        <3> HIDE DEF c
        <3>2. IsFiniteSet(Below(m) \ {m}) /\ Cardinality(Below(m) \ {m}) = Size(m) - 1
            BY <1>3, <2>5, FS_RemoveElement
        <3>3. Size(c) <= Size(m) - 1 BY <3>1, <3>2, FS_Subset
        <3>4. Size(c) <= k - 1
            <4> HIDE DEF Size, N
            <4> QED BY <1>3, <2>3, <2>4, <3>3
        <3> QED BY <2>8, <3>1, <3>4 DEF c
    <2>10. FirstOfName(FoundAt(find[k-1], m, nm), m, nm) BY <2>9, FoundAtIsFirst
    <2> QED BY <1>1, <2>4, <2>5, <2>7, <2>10
<1>5. Right(N)
    <2>1. N \in 0..N BY <1>3
    <2> HIDE DEF Right
    <2> QED BY <1>4, <2>1
<1>6. Size(n) <= N BY <1>3
<1> QED BY <1>1, <1>2, <1>5, <1>6

\* Under a careful client GetByName always finds the first node of a name, in
\* the order in which the tree is walked, and none only where there is none.
THEOREM LookupStaysRight ==
    ASSUME CarefulClient
    PROVE  Spec => []LookupFindsTheFirst
<1>1. GraphInv => LookupFindsTheFirst BY LookupIsRight DEF GraphInv
<1> QED BY <1>1, GraphInvHolds, PTL DEF Spec
===========================================================================
