---------------------- MODULE RenderTraversalProofs ----------------------
(***************************************************************************)
(* The renderer, for graphs of every size and shape and for any number of  *)
(* frames and lights.                                                      *)
(*                                                                         *)
(* The argument: the stack of calls is always a path of the graph (Walk),  *)
(* and what both matrix stacks hold is a function of the node at its end   *)
(* whose children are being visited (Around): ModelViewAt and ProjectionAt *)
(* say what the visit of a node leaves there, so that entering a node      *)
(* takes the stacks from the value at its parent to the value at the node, *)
(* and leaving it takes them back.  What is at the top of these stacks is  *)
(* what the graph says by itself (PathModelView, PathProjection).          *)
(*                                                                         *)
(* What has been drawn is what the walk has left behind (Pictured): the    *)
(* geometries below the children that the running calls have passed, in    *)
(* the order in which the paths to them part (ComesBefore).                *)
(*                                                                         *)
(* These tables are recursive functions over the nodes.  That they exist   *)
(* (Recursion), and that a fact passed on from parents to children holds   *)
(* everywhere (TreeInduction), follows from the parent having the smaller  *)
(* number: the least number at which it failed would have none.            *)
(***************************************************************************)
EXTENDS RenderTraversal, ChildListProofs, SequenceTheorems

\* What it is to be one of the graphs.
LEMMA TreeFacts ==
    ASSUME scene \in Scenes
    PROVE  /\ scene.par \in [Nodes \ {1} -> Nodes]
           /\ \A n \in Nodes \ {1} : scene.par[n] < n
           /\ scene.kind \in [Nodes -> Kinds]
           /\ scene.kind[1] = "group"
    BY ScenesAssumption DEF Trees

\* The children of a node are finitely many, and it is their parent.
LEMMA KidsFacts ==
    ASSUME NEW n \in Nodes, scene \in Scenes
    PROVE  /\ Kids(n) \in Seq(Nodes \ {1})
           /\ Len(Kids(n)) \in 0..Size
           /\ \A i \in 1..Len(Kids(n)) : scene.par[Kids(n)[i]] = n
<1> DEFINE own == {m \in Nodes \ {1} : scene.par[m] = n}
           c == Cardinality(own)
<1>1. IsFiniteSet(Nodes) /\ Cardinality(Nodes) = Size
    BY SizeAssumption, FS_Interval DEF Nodes
<1>2. IsFiniteSet(own) /\ c \in Nat /\ c <= Size
    BY <1>1, FS_Subset, FS_CardinalityType
<1>3. \E f \in [1..c -> own] : Increasing(f, own)
    <2>1. own \in SUBSET (1..Size)
        BY DEF Nodes
    <2>2. PICK f : Increasing(f, own)
        BY <2>1, EnumerationExists, SizeAssumption
    <2> QED
        BY <2>2 DEF Increasing
<1>4. Kids(n) \in [1..c -> own]
    BY <1>3 DEF Kids
<1> HIDE DEF c
<1>5. Len(Kids(n)) = c /\ Kids(n) \in Seq(own)
    BY <1>2, <1>4
<1> QED
    BY <1>2, <1>4, <1>5

\* A value at every node computed from that at its parent exists, since a
\* parent has a smaller number: otherwise it would fail first at some number.
LEMMA Recursion ==
    ASSUME NEW V, NEW root \in V, NEW step \in [Nodes -> [V -> V]], scene \in Scenes
    PROVE  \E f :
               /\ \A n \in Nodes : f[n] \in V
               /\ f[1] = step[1][root]
               /\ \A n \in Nodes \ {1} : f[n] = step[n][f[scene.par[n]]]
<1> DEFINE Value(f, n) == step[n][IF n = 1 THEN root ELSE f[scene.par[n]]]
           Good(f, m) == f \in [1..m -> V] /\ \A n \in 1..m : f[n] = Value(f, n)
           Bad == {m \in 0..Size : \A f : ~Good(f, m)}
<1>0. \A n \in 2..Size : scene.par[n] \in 1..(n-1)
    <2>1. \A n \in 2..Size : n \in Nodes \ {1}
        BY SizeAssumption DEF Nodes
    <2>2. \A n \in Nodes \ {1} : scene.par[n] \in Nodes /\ scene.par[n] < n
        BY TreeFacts
    <2>3. \A n \in Nodes : n \in 1..Size
        BY DEF Nodes
    <2> HIDE DEF Value, Good, Bad
    <2> QED
        BY <2>1, <2>2, <2>3, SizeAssumption
<1>1. Bad = {}
    <2>1. SUFFICES ASSUME Bad # {} PROVE FALSE
        OBVIOUS
    <2>2. PICK m \in Bad : \A k \in Bad : m <= k
        <3>1. Bad \in SUBSET Nat
            BY SizeAssumption
        <3> HIDE DEF Bad
        <3> QED
            BY <2>1, <3>1, LeastNatural
    <2>3. m \in 0..Size
        OBVIOUS
    <2>4. m # 0
        <3>1. Good(<<>>, 0)
            OBVIOUS
        <3> QED
            BY <3>1
    <2>5. m - 1 \notin Bad /\ m - 1 \in 0..Size
        BY <2>2, <2>3, <2>4, SizeAssumption
    <2>6. PICK f : Good(f, m - 1)
        BY <2>5
    <2> DEFINE g == [n \in 1..m |-> IF n = m THEN Value(f, m) ELSE f[n]]
    <2>7. \A n \in 1..m : n # 1 => scene.par[n] \in 1..(m-1) /\ scene.par[n] < n
        <3> HIDE DEF Value, Good, Bad
        <3> QED BY <1>0, <2>3, SizeAssumption
    <2>8. ASSUME NEW n \in 1..m PROVE g[n] = Value(g, n) /\ g[n] \in V
        <3>1. n # 1 => g[scene.par[n]] = f[scene.par[n]] /\ f[scene.par[n]] \in V
            BY <2>6, <2>7, <2>3
        <3>2. Value(g, n) = Value(f, n)
            BY <3>1
        <3>3. n \in Nodes
            BY <2>3, SizeAssumption DEF Nodes
        <3>4. Value(f, n) \in V
            BY <3>1, <3>3
        <3>5. g[n] = Value(f, n)
            <4>1. CASE n = m BY <4>1
            <4>2. CASE n # m
                <5>1. n \in 1..(m-1) BY <4>2, <2>3
                <5> HIDE DEF Value
                <5> QED BY <5>1, <2>6, <4>2
            <4> QED BY <4>1, <4>2
        <3> HIDE DEF g, Value
        <3> QED
            BY <3>2, <3>4, <3>5
    <2>9. Good(g, m)
        <3>1. g \in [1..m -> V]
            <4> HIDE DEF Value
            <4> QED BY <2>8
        <3> HIDE DEF Value, g
        <3> QED BY <2>8, <3>1
    <2> QED
        BY <2>2, <2>9
<1>2. PICK f : Good(f, Size)
    <2>1. Size \in 0..Size
        BY SizeAssumption
    <2> HIDE DEF Good
    <2> QED BY <1>1, <2>1
<1>3. f \in [Nodes -> V] /\ \A n \in Nodes : f[n] = Value(f, n)
    BY <1>2 DEF Nodes
<1>4. 1 \in Nodes
    BY SizeAssumption DEF Nodes
<1> QED
    BY <1>3, <1>4

\* The definition of PathModelView, as an equation.
LEMMA ModelViewUnfolds ==
    ASSUME scene \in Scenes
    PROVE  \A n \in Nodes : PathModelView[n] =
                CASE Kind(n) = "camera"    -> <<n>>
                  [] Kind(n) = "transform" ->
                        Append(IF n = 1 THEN Identity ELSE PathModelView[scene.par[n]], n)
                  [] OTHER                 ->
                        IF n = 1 THEN Identity ELSE PathModelView[scene.par[n]]
<1> DEFINE S == Seq(Nodes)
           Value(n, above) ==
               CASE Kind(n) = "camera"    -> <<n>>
                 [] Kind(n) = "transform" -> Append(above, n)
                 [] OTHER                 -> above
           step == [n \in Nodes |-> [x \in S |-> Value(n, x)]]
           Above1(f, n) == IF n = 1 THEN Identity ELSE f[scene.par[n]]
<1>1. step \in [Nodes -> [S -> S]] /\ Identity \in S
    BY DEF Identity
<1>2. PICK f : \A n \in Nodes : f[n] = step[n][Above1(f, n)] /\ f[n] \in S
    <2> HIDE DEF S, step
    <2>1. PICK f :
              /\ \A n \in Nodes : f[n] \in S
              /\ f[1] = step[1][Identity]
              /\ \A n \in Nodes \ {1} : f[n] = step[n][f[scene.par[n]]]
        BY SMTT(40), <1>1, Recursion
    <2>2. \A n \in Nodes : f[n] = step[n][Above1(f, n)]
        BY <2>1
    <2> HIDE DEF Above1
    <2> QED BY <2>1, <2>2
<1>3. \A n \in Nodes : Above1(f, n) \in S
    BY <1>1, <1>2, TreeFacts
<1>4. \A n \in Nodes : f[n] = Value(n, Above1(f, n))
    <2> HIDE DEF S, Value, Above1
    <2> QED BY <1>2, <1>3
<1> DEFINE g == [n \in Nodes |-> f[n]]
<1>5. g = [n \in Nodes |-> Value(n, Above1(g, n))]
    <2>1. \A n \in Nodes : Above1(g, n) = Above1(f, n)
        BY TreeFacts
    <2> HIDE DEF S, Value, Above1
    <2> QED BY <1>4, <2>1
<1>6. PathModelView = [n \in Nodes |-> Value(n, Above1(PathModelView, n))]
    BY <1>5 DEF PathModelView
<1>7. \A n \in Nodes : PathModelView[n] = Value(n, Above1(PathModelView, n))
    <2> HIDE DEF Value, Above1
    <2> QED BY <1>6
<1> QED
    BY <1>7

\* The definition of PathProjection, as an equation.
LEMMA ProjectionUnfolds ==
    ASSUME scene \in Scenes
    PROVE  \A n \in Nodes : PathProjection[n] =
                IF Kind(n) = "camera" THEN <<n>>
                ELSE IF n = 1 THEN Identity ELSE PathProjection[scene.par[n]]
<1> DEFINE S == Seq(Nodes)
           Value(n, above) == IF Kind(n) = "camera" THEN <<n>> ELSE above
           step == [n \in Nodes |-> [x \in S |-> Value(n, x)]]
           Above1(f, n) == IF n = 1 THEN Identity ELSE f[scene.par[n]]
<1>1. step \in [Nodes -> [S -> S]] /\ Identity \in S
    BY DEF Identity
<1>2. PICK f : \A n \in Nodes : f[n] = step[n][Above1(f, n)] /\ f[n] \in S
    <2> HIDE DEF S, step
    <2>1. PICK f :
              /\ \A n \in Nodes : f[n] \in S
              /\ f[1] = step[1][Identity]
              /\ \A n \in Nodes \ {1} : f[n] = step[n][f[scene.par[n]]]
        BY <1>1, Recursion
    <2>2. \A n \in Nodes : f[n] = step[n][Above1(f, n)]
        BY <2>1
    <2> HIDE DEF Above1
    <2> QED BY <2>1, <2>2
<1>3. \A n \in Nodes : Above1(f, n) \in S
    BY <1>1, <1>2, TreeFacts
<1>4. \A n \in Nodes : f[n] = Value(n, Above1(f, n))
    <2> HIDE DEF S, Value, Above1
    <2> QED BY <1>2, <1>3
<1> DEFINE g == [n \in Nodes |-> f[n]]
<1>5. g = [n \in Nodes |-> Value(n, Above1(g, n))]
    <2>1. \A n \in Nodes : Above1(g, n) = Above1(f, n)
        BY TreeFacts
    <2> HIDE DEF S, Value, Above1
    <2> QED BY <1>4, <2>1
<1>6. PathProjection = [n \in Nodes |-> Value(n, Above1(PathProjection, n))]
    BY <1>5 DEF PathProjection
<1>7. \A n \in Nodes : PathProjection[n] = Value(n, Above1(PathProjection, n))
    <2> HIDE DEF Value, Above1
    <2> QED BY <1>6
<1> QED
    BY <1>7

\* The definition of Above, as an equation.
LEMMA AboveUnfolds ==
    ASSUME scene \in Scenes
    PROVE  \A n \in Nodes : Above[n] =
                IF n = 1 THEN {} ELSE {scene.par[n]} \cup Above[scene.par[n]]
<1> DEFINE S == SUBSET Nodes
           step == [n \in Nodes |-> [x \in S |->
                       IF n = 1 THEN {} ELSE {scene.par[n]} \cup x]]
<1>1. step \in [Nodes -> [S -> S]] /\ {} \in S
    BY TreeFacts
<1>2. PICK f :
          /\ \A n \in Nodes : f[n] \in S
          /\ f[1] = step[1][{}]
          /\ \A n \in Nodes \ {1} : f[n] = step[n][f[scene.par[n]]]
    <2> HIDE DEF S, step
    <2> QED BY <1>1, Recursion
<1>3. 1 \in Nodes
    BY SizeAssumption DEF Nodes
<1>4. f[1] = {}
    BY <1>2, <1>3
<1>5. \A n \in Nodes \ {1} : f[n] = {scene.par[n]} \cup f[scene.par[n]]
    BY <1>2, TreeFacts
<1> DEFINE g == [n \in Nodes |-> f[n]]
<1>6. g = [n \in Nodes |-> IF n = 1 THEN {} ELSE {scene.par[n]} \cup g[scene.par[n]]]
    BY <1>4, <1>5, TreeFacts
<1>7. Above = [n \in Nodes |-> IF n = 1 THEN {} ELSE {scene.par[n]} \cup Above[scene.par[n]]]
    BY <1>6 DEF Above
<1> QED
    BY <1>7
-----------------------------------------------------------------------------
(* The walk: how the stack of calls lies in the graph, and how it changes. *)

KidsTable == [n \in Nodes |-> Kids(n)]

CallRecord == [node : Nodes, child : Nat]

\* Call i of cs is below the ones before it, and inside its loop or at its end.
OnPath(cs, i) ==
    /\ cs[i].child <= Len(KidsTable[cs[i].node]) + 1
    /\ i <= cs[i].node
    /\ i < Len(cs) => cs[i].child > 1
    /\ \A m : m \in Above[cs[i].node] <=> \E j \in 1..(i-1) : cs[j].node = m
    /\ IF i = 1 THEN cs[i].node = 1
       ELSE cs[i].node # 1 /\ scene.par[cs[i].node] = cs[i-1].node

\* The calls are the path from the root to the node being visited.
Walk ==
    /\ scene \in Scenes
    /\ calls \in Seq(CallRecord)
    /\ \A i \in 1..Len(calls) : OnPath(calls, i)

Begins == calls = <<>> /\ calls' = <<Call(1)>>
Descends ==
    /\ ~Idle /\ Top.child \in DOMAIN Kids(Top.node)
    /\ calls' = Append(AtChild(Top.child + 1), Call(Kids(Top.node)[Top.child]))
Enters == ~Idle /\ Top.child = 0 /\ calls' = AtChild(1)
Returns == ~Idle /\ calls' = Front(calls)

\* Every step moves the stack of calls in one of four ways, or not at all.
LEMMA Movements ==
    [Next]_vars => /\ UNCHANGED scene
                   /\ Begins \/ Descends \/ Enters \/ Returns \/ UNCHANGED calls
<1> USE DEF Begins, Descends, Enters, Returns, Idle
<1>1. CASE BeginFrame \/ TraverseChild
    BY <1>1 DEF BeginFrame, TraverseChild
<1>2. CASE EnterGroup \/ EnterLight \/ EnterCamera \/ EnterTransform
    BY <1>2 DEF EnterGroup, EnterLight, EnterCamera, EnterTransform, Entering
<1>3. CASE LeavePlain \/ LeaveCamera \/ LeaveTransform \/ VisitGeometry
    BY <1>3 DEF LeavePlain, LeaveCamera, LeaveTransform, VisitGeometry, Leaving, Entering,
                ChildrenDone
<1>4. CASE \E n \in Nodes : SetVisibility(n) \/ ChangeLight(n) \/ ReplaceLight(n)
    BY <1>4 DEF SetVisibility, ChangeLight, ReplaceLight
<1>5. CASE UNCHANGED vars
    BY <1>5 DEF vars
<1> QED
    BY <1>1, <1>2, <1>3, <1>4, <1>5 DEF Next, Visitor

\* What is computed from the graph alone does not change.
LEMMA SceneFixed ==
    UNCHANGED scene => /\ UNCHANGED KidsTable /\ UNCHANGED Above
                       /\ UNCHANGED PathModelView /\ UNCHANGED PathProjection
<1> SUFFICES ASSUME UNCHANGED scene
             PROVE  /\ UNCHANGED KidsTable /\ UNCHANGED Above
                    /\ UNCHANGED PathModelView /\ UNCHANGED PathProjection
    OBVIOUS
<1>1. UNCHANGED KidsTable
    BY DEF KidsTable, Kids
<1>2. UNCHANGED Above
    BY DEF Above
<1>3. UNCHANGED PathModelView
    BY DEF PathModelView, Kind
<1>4. UNCHANGED PathProjection
    BY DEF PathProjection, Kind
<1> QED
    BY <1>1, <1>2, <1>3, <1>4

\* The innermost call.
LEMMA TopFacts ==
    ASSUME Walk, ~Idle
    PROVE  /\ Len(calls) \in Nat \ {0}
           /\ Top = calls[Len(calls)] /\ Top \in CallRecord
           /\ Top.node \in Nodes /\ Top.child \in Nat
           /\ Len(calls) <= Size
<1>1. calls \in Seq(CallRecord) /\ calls # <<>>
    BY DEF Walk, OnPath, Idle
<1>2. Len(calls) \in Nat \ {0} /\ calls[Len(calls)] \in CallRecord
    BY <1>1, EmptySeq, ElementOfSeq
<1>3. Len(calls) <= calls[Len(calls)].node
    BY <1>2 DEF Walk, OnPath
<1> QED
    BY <1>2, <1>3, SizeAssumption DEF Top, CallRecord, Nodes

\* A child is called: the caller moves on, the new call is at its beginning.
LEMMA AfterDescent ==
    ASSUME Walk, Descends
    PROVE  /\ calls' \in Seq(CallRecord)
           /\ Len(calls') = Len(calls) + 1
           /\ \A i \in 1..Len(calls) : calls'[i].node = calls[i].node
           /\ \A i \in 1..(Len(calls)-1) : calls'[i] = calls[i]
           /\ calls'[Len(calls)].child = Top.child + 1
           /\ Top.child \in 1..Len(KidsTable[Top.node])
           /\ \E k \in Nodes \ {1} :
                 /\ calls'[Len(calls) + 1] = [node |-> k, child |-> 0]
                 /\ k = KidsTable[Top.node][Top.child]
                 /\ scene.par[k] = Top.node
<1>1. /\ Len(calls) \in Nat \ {0} /\ Top.node \in Nodes /\ Top.child \in Nat
      /\ Top = calls[Len(calls)] /\ Top \in CallRecord
    BY TopFacts DEF Descends
<1> DEFINE ks == Kids(Top.node)
           k == ks[Top.child]
<1>2. ks = KidsTable[Top.node]
    BY <1>1 DEF KidsTable
<1>3. /\ ks \in Seq(Nodes \ {1})
      /\ \A i \in 1..Len(ks) : scene.par[ks[i]] = Top.node
    BY <1>1, KidsFacts DEF Walk, OnPath
<1>4. Top.child \in 1..Len(ks)
    BY <1>3 DEF Descends
<1>5. k \in Nodes \ {1} /\ scene.par[k] = Top.node
    BY <1>3, <1>4
<1>6. Call(k) = [node |-> k, child |-> 0] /\ Call(k) \in CallRecord
    BY <1>5 DEF Call, CallRecord
<1>7. calls \in Seq(CallRecord)
    BY DEF Walk, OnPath
<1>8. /\ AtChild(Top.child + 1) \in Seq(CallRecord)
      /\ Len(AtChild(Top.child + 1)) = Len(calls)
      /\ \A i \in 1..(Len(calls)-1) : AtChild(Top.child + 1)[i] = calls[i]
      /\ AtChild(Top.child + 1)[Len(calls)] = [Top EXCEPT !.child = Top.child + 1]
    BY <1>1, <1>7 DEF AtChild, CallRecord
<1>9. /\ [Top EXCEPT !.child = Top.child + 1].node = Top.node
      /\ [Top EXCEPT !.child = Top.child + 1].child = Top.child + 1
    BY <1>1 DEF CallRecord
<1>10. calls' = Append(AtChild(Top.child + 1), Call(k))
    BY DEF Descends
<1> HIDE DEF ks, k
<1>11. /\ calls' \in Seq(CallRecord)
       /\ Len(calls') = Len(calls) + 1
       /\ \A i \in 1..Len(calls) : calls'[i] = AtChild(Top.child + 1)[i]
       /\ calls'[Len(calls) + 1] = Call(k)
    BY <1>1, <1>6, <1>8, <1>10
<1>12. \A i \in 1..(Len(calls)-1) : calls'[i] = calls[i]
    BY <1>1, <1>8, <1>11
<1>13. calls'[Len(calls)].child = Top.child + 1 /\ calls'[Len(calls)].node = Top.node
    <2>1. calls'[Len(calls)] = [Top EXCEPT !.child = Top.child + 1]
        BY <1>1, <1>8, <1>11
    <2> QED BY <2>1, <1>9
<1>14. \A i \in 1..Len(calls) : calls'[i].node = calls[i].node
    BY <1>1, <1>12, <1>13
<1> QED
    BY <1>2, <1>4, <1>5, <1>6, <1>11, <1>12, <1>13, <1>14 DEF k

\* The innermost call gets to its first child.
LEMMA AfterEntry ==
    ASSUME Walk, Enters
    PROVE  /\ calls' \in Seq(CallRecord)
           /\ Len(calls') = Len(calls)
           /\ \A i \in 1..Len(calls) : calls'[i].node = calls[i].node
           /\ \A i \in 1..(Len(calls)-1) : calls'[i] = calls[i]
           /\ calls'[Len(calls)].child = 1
<1>1. /\ Len(calls) \in Nat \ {0} /\ Top = calls[Len(calls)] /\ Top \in CallRecord
    BY TopFacts DEF Enters
<1>2. calls \in Seq(CallRecord)
    BY DEF Walk, OnPath
<1>3. /\ calls' \in Seq(CallRecord)
      /\ Len(calls') = Len(calls)
      /\ \A i \in 1..(Len(calls)-1) : calls'[i] = calls[i]
      /\ calls'[Len(calls)] = [Top EXCEPT !.child = 1]
    BY <1>1, <1>2 DEF Enters, AtChild, CallRecord
<1>4. [Top EXCEPT !.child = 1].node = Top.node /\ [Top EXCEPT !.child = 1].child = 1
    BY <1>1 DEF CallRecord
<1>5. calls'[Len(calls)].child = 1 /\ calls'[Len(calls)].node = Top.node
    BY <1>3, <1>4
<1>6. ASSUME NEW i \in 1..Len(calls) PROVE calls'[i].node = calls[i].node
    <2>1. CASE i = Len(calls)
        BY <1>1, <1>5, <2>1
    <2>2. CASE i # Len(calls)
        BY <1>1, <1>3, <2>2
    <2> QED BY <2>1, <2>2
<1> QED
    BY <1>3, <1>5, <1>6

\* The innermost call returns, the others stay as they are.
LEMMA AfterReturn ==
    ASSUME Walk, Returns
    PROVE  /\ calls' \in Seq(CallRecord)
           /\ Len(calls') = Len(calls) - 1
           /\ \A i \in 1..(Len(calls)-1) : calls'[i] = calls[i]
<1>1. Len(calls) \in Nat \ {0}
    BY TopFacts DEF Returns
<1>2. calls \in Seq(CallRecord)
    BY DEF Walk, OnPath
<1>3. calls' = SubSeq(calls, 1, Len(calls) - 1)
    BY DEF Returns, Front
<1>4. \A i \in 1..(Len(calls) - 1) : calls[i] \in CallRecord
    BY <1>1, <1>2, ElementOfSeq
<1>5. /\ calls' \in Seq(CallRecord)
      /\ Len(calls') = IF 1 <= Len(calls) - 1 THEN (Len(calls) - 1) - 1 + 1 ELSE 0
      /\ \A i \in 1..((Len(calls) - 1) - 1 + 1) : calls'[i] = calls[1 + i - 1]
    BY SMTT(40), <1>1, <1>3, <1>4, SubSeqProperties, Len(calls) - 1 \in Int
<1>6. \A i \in 1..(Len(calls)-1) : calls'[i] = calls[i]
    <2>1. \A i \in 1..(Len(calls)-1) : 1 + i - 1 = i
        OBVIOUS
    <2>2. (Len(calls) - 1) - 1 + 1 = Len(calls) - 1
        BY <1>1
    <2> QED BY <1>5, <2>1, <2>2
<1>7. Len(calls') = Len(calls) - 1
    <2> DEFINE n == Len(calls)
               m == Len(calls')
    <2>1. n \in Nat \ {0} /\ m = IF 1 <= n - 1 THEN (n - 1) - 1 + 1 ELSE 0
        BY <1>1, <1>5
    <2> HIDE DEF n, m
    <2>2. m = n - 1
        BY <2>1
    <2> QED BY <2>2 DEF n, m
<1> QED
    BY <1>5, <1>6, <1>7

\* No call is running at the start.
LEMMA WalkStarts == Init => Walk
    BY DEF Init, Walk, OnPath

\* Each movement leaves the calls a path of the graph.
LEMMA WalkKeeps == Walk /\ [Next]_vars => Walk'
<1> SUFFICES ASSUME Walk, [Next]_vars PROVE Walk'
    OBVIOUS
<1>1. /\ scene' = scene /\ KidsTable' = KidsTable /\ Above' = Above
      /\ scene \in Scenes /\ 1 \in Nodes
    BY Movements, SceneFixed, SizeAssumption DEF Walk, OnPath, Nodes
<1>7. ASSUME calls' \in Seq(CallRecord), \A i \in 1..Len(calls') : OnPath(calls', i)
      PROVE  Walk'
    BY <1>1, <1>7 DEF Walk, OnPath
<1>2. CASE Begins
    <2>1. calls' = <<[node |-> 1, child |-> 0]>>
        BY <1>2 DEF Begins, Call
    <2>2. /\ calls' \in Seq(CallRecord) /\ Len(calls') = 1
          /\ calls'[1].node = 1 /\ calls'[1].child = 0
        BY <2>1, <1>1 DEF CallRecord
    <2>3. Len(KidsTable[1]) \in Nat
        BY <1>1, KidsFacts DEF KidsTable
    <2>4. Above[1] = {}
        BY <1>1, AboveUnfolds
    <2>5. \A i \in 1..Len(calls') : i = 1
        BY <2>2
    <2>6. OnPath(calls', 1)
        BY <2>2, <2>3, <2>4 DEF OnPath
    <2> QED
        BY <1>7, <2>2, <2>5, <2>6
<1>3. CASE Descends
    <2> DEFINE n == Len(calls)
    <2>1. /\ n \in Nat \ {0} /\ Top.node \in Nodes /\ Top = calls[n]
          /\ Top.child \in Nat
        BY <1>3, TopFacts DEF Descends
    <2>2. /\ calls' \in Seq(CallRecord)
          /\ Len(calls') = n + 1
          /\ \A i \in 1..n : calls'[i].node = calls[i].node
          /\ \A i \in 1..(n-1) : calls'[i] = calls[i]
          /\ calls'[n].child = Top.child + 1
          /\ Top.child \in 1..Len(KidsTable[Top.node])
        BY <1>3, AfterDescent
    <2>3. PICK k \in Nodes \ {1} :
                 /\ calls'[n + 1] = [node |-> k, child |-> 0]
                 /\ scene.par[k] = Top.node
        BY <1>3, AfterDescent
    <2>4. Len(KidsTable[k]) \in Nat /\ Len(KidsTable[Top.node]) \in Nat
        BY <1>1, <2>1, KidsFacts DEF KidsTable
    <2>5. Top.node < k /\ n <= Top.node
        BY <1>1, <2>1, <2>3, TreeFacts DEF Walk, OnPath
    <2>6. Above[k] = {Top.node} \cup Above[Top.node]
        BY <1>1, <2>3, AboveUnfolds
    <2>7. ASSUME NEW i \in 1..n
          PROVE  /\ calls'[i].child <= Len(KidsTable[calls'[i].node]) + 1
                 /\ i <= calls'[i].node
                 /\ calls'[i].child > 1
                 /\ \A m : m \in Above[calls'[i].node] <=> \E j \in 1..(i-1) : calls'[j].node = m
                 /\ IF i = 1 THEN calls'[i].node = 1
                    ELSE calls'[i].node # 1 /\ scene.par[calls'[i].node] = calls'[i-1].node
        <3>1. /\ calls[i].child <= Len(KidsTable[calls[i].node]) + 1
              /\ i <= calls[i].node
              /\ i < n => calls[i].child > 1
              /\ \A m : m \in Above[calls[i].node] <=> \E j \in 1..(i-1) : calls[j].node = m
              /\ IF i = 1 THEN calls[i].node = 1
                 ELSE calls[i].node # 1 /\ scene.par[calls[i].node] = calls[i-1].node
            BY DEF Walk, OnPath
        <3>2. \A j \in 1..(i-1) : calls'[j].node = calls[j].node
            BY <2>1, <2>2
        <3>3. i = n => calls'[i].child = Top.child + 1
            BY <2>2
        <3>4. i < n => calls'[i] = calls[i] /\ i \in 1..(n-1)
            BY <2>1, <2>2
        <3>5. calls'[i].node = calls[i].node /\ (i # 1 => calls'[i-1].node = calls[i-1].node)
            BY <2>1, <2>2
        <3>6. calls'[i].child <= Len(KidsTable[calls'[i].node]) + 1 /\ calls'[i].child > 1
            <4>1. CASE i = n
                <5>1. calls[i].node = Top.node
                    BY <4>1, <2>1
                <5> QED BY <4>1, <5>1, <2>1, <2>2, <2>4, <3>3, <3>5
            <4>2. CASE i # n
                BY <4>2, <3>1, <3>4, <3>5, <2>1
            <4> QED BY <4>1, <4>2
        <3> HIDE DEF n
        <3> QED BY <3>1, <3>2, <3>5, <3>6
    <2>8. /\ calls'[n+1].node = k /\ calls'[n+1].child = 0
          /\ n + 1 <= k
        <3>1. k \in Nat /\ Top.node \in Nat
            BY <2>1 DEF Nodes
        <3> QED BY <2>1, <2>3, <2>5, <3>1
    <2>9. \A m : m \in Above[k] <=> \E j \in 1..n : calls'[j].node = m
        <3>1. \A m : m \in Above[Top.node] <=> \E j \in 1..(n-1) : calls[j].node = m
            <4>1. n \in 1..Len(calls)
                BY <2>1
            <4> HIDE DEF n
            <4> QED BY <2>1, <4>1 DEF Walk, OnPath
        <3>2. \A j : j \in 1..n <=> j = n \/ j \in 1..(n-1)
            BY <2>1
        <3>3. calls'[n].node = Top.node /\ \A j \in 1..(n-1) : calls'[j].node = calls[j].node
            BY <2>1, <2>2
        <3> HIDE DEF n
        <3> QED BY <2>6, <3>1, <3>2, <3>3
    <2>10. \A i \in 1..Len(calls') : i \in 1..n \/ i = n + 1
        BY <2>1, <2>2
    <2>11. calls'[n].node = Top.node
        BY <2>1, <2>2
    <2>12. (n + 1) - 1 = n /\ n + 1 # 1
        BY <2>1
    <2> HIDE DEF n
    <2>13. ASSUME NEW i \in 1..Len(calls')
          PROVE  OnPath(calls', i)
        <3>1. CASE i \in 1..n
            BY <3>1, <2>2, <2>7 DEF OnPath
        <3>2. CASE i = n + 1
            BY <3>2, <2>2, <2>3, <2>4, <2>8, <2>9, <2>11, <2>12 DEF OnPath
        <3> QED BY <3>1, <3>2, <2>10
    <2> QED
        BY <1>7, <2>2, <2>13
<1>4. CASE Enters
    <2> DEFINE n == Len(calls)
    <2>1. n \in Nat \ {0} /\ Top.node \in Nodes /\ Top = calls[n]
        BY <1>4, TopFacts DEF Enters
    <2>2. /\ calls' \in Seq(CallRecord)
          /\ Len(calls') = n
          /\ \A i \in 1..n : calls'[i].node = calls[i].node
          /\ \A i \in 1..(n-1) : calls'[i] = calls[i]
          /\ calls'[n].child = 1
        BY <1>4, AfterEntry
    <2>3. Len(KidsTable[Top.node]) \in Nat
        BY <1>1, <2>1, KidsFacts DEF KidsTable
    <2>4. ASSUME NEW i \in 1..n
          PROVE  OnPath(calls', i)
        <3>1. /\ calls[i].child <= Len(KidsTable[calls[i].node]) + 1
              /\ i <= calls[i].node
              /\ i < n => calls[i].child > 1
              /\ \A m : m \in Above[calls[i].node] <=> \E j \in 1..(i-1) : calls[j].node = m
              /\ IF i = 1 THEN calls[i].node = 1
                 ELSE calls[i].node # 1 /\ scene.par[calls[i].node] = calls[i-1].node
            BY DEF Walk, OnPath
        <3>2. \A j \in 1..(i-1) : calls'[j].node = calls[j].node
            BY <2>1, <2>2
        <3>4. i < n => calls'[i] = calls[i] /\ i \in 1..(n-1)
            BY <2>1, <2>2
        <3>5. calls'[i].node = calls[i].node /\ (i # 1 => calls'[i-1].node = calls[i-1].node)
            BY <2>1, <2>2
        <3>6. calls'[i].child <= Len(KidsTable[calls'[i].node]) + 1
            <4>1. CASE i = n
                BY <4>1, <2>1, <2>2, <2>3, <3>5
            <4>2. CASE i # n
                BY <4>2, <3>1, <3>4, <3>5, <2>1
            <4> QED BY <4>1, <4>2
        <3>7. i < n => calls'[i].child > 1
            BY <3>1, <3>4
        <3>8. Len(calls') = n
            BY <2>2
        <3> HIDE DEF n
        <3> QED BY <3>1, <3>2, <3>5, <3>6, <3>7, <3>8 DEF OnPath
    <2> HIDE DEF n
    <2> QED
        BY <1>7, <2>2, <2>4
<1>5. CASE Returns
    <2> DEFINE n == Len(calls)
    <2>1. n \in Nat \ {0}
        BY <1>5, TopFacts DEF Returns
    <2>2. /\ calls' \in Seq(CallRecord)
          /\ Len(calls') = n - 1
          /\ \A i \in 1..(n-1) : calls'[i] = calls[i]
        BY <1>5, AfterReturn
    <2>3. ASSUME NEW i \in 1..(n-1)
          PROVE  /\ calls'[i].child <= Len(KidsTable[calls'[i].node]) + 1
                 /\ i <= calls'[i].node
                 /\ calls'[i].child > 1
                 /\ \A m : m \in Above[calls'[i].node] <=> \E j \in 1..(i-1) : calls'[j].node = m
                 /\ IF i = 1 THEN calls'[i].node = 1
                    ELSE calls'[i].node # 1 /\ scene.par[calls'[i].node] = calls'[i-1].node
        <3>1. i \in 1..n /\ i < n
            BY <2>1
        <3>2. /\ calls[i].child <= Len(KidsTable[calls[i].node]) + 1
              /\ i <= calls[i].node
              /\ calls[i].child > 1
              /\ \A m : m \in Above[calls[i].node] <=> \E j \in 1..(i-1) : calls[j].node = m
              /\ IF i = 1 THEN calls[i].node = 1
                 ELSE calls[i].node # 1 /\ scene.par[calls[i].node] = calls[i-1].node
            BY <3>1 DEF Walk, OnPath
        <3>3. \A j \in 1..(i-1) : calls'[j].node = calls[j].node
            BY <2>1, <2>2
        <3>4. calls'[i] = calls[i] /\ (i # 1 => calls'[i-1] = calls[i-1])
            BY <2>1, <2>2
        <3> HIDE DEF n
        <3> QED BY <3>2, <3>3, <3>4
    <2> HIDE DEF n
    <2>4. ASSUME NEW i \in 1..Len(calls')
          PROVE  OnPath(calls', i)
        BY <2>2, <2>3 DEF OnPath
    <2> QED
        BY <1>7, <2>2, <2>4
<1>6. CASE UNCHANGED calls
    <2>1. calls' = calls
        BY <1>6
    <2> QED
        BY <1>1, <2>1 DEF Walk, OnPath
<1> QED
    BY <1>2, <1>3, <1>4, <1>5, <1>6, Movements
-----------------------------------------------------------------------------
(* The matrices: the stacks are a function of the node being visited.      *)

\* What holds at the root and passes from parents to children holds everywhere.
LEMMA TreeInduction ==
    ASSUME NEW P, scene \in Scenes, 1 \in P,
           \A n \in Nodes \ {1} : scene.par[n] \in P => n \in P
    PROVE  Nodes \subseteq P
<1> DEFINE Bad == Nodes \ P
<1> SUFFICES ASSUME Bad # {} PROVE FALSE
    OBVIOUS
<1>1. PICK n \in Bad : \A m \in Bad : n <= m
    <2>1. Bad \in SUBSET Nat
        BY DEF Nodes
    <2> HIDE DEF Bad
    <2> QED BY <2>1, LeastNatural
<1>2. scene.par[n] \in Nodes /\ scene.par[n] < n
    BY TreeFacts
<1>3. scene.par[n] \in P
    BY <1>1, <1>2, SizeAssumption DEF Nodes
<1> QED
    BY <1>3

Stacks == Seq(Seq(Nodes)) \ {<<>>}

\* What the visit of a node leaves on a stack while its children are visited.
ModelViewPushed(n, s) ==
    CASE Kind(n) = "camera"    -> Append(s, <<n>>)
      [] Kind(n) = "transform" -> Append(s, Append(s[Len(s)], n))
      [] OTHER                 -> s
ProjectionPushed(n, s) == IF Kind(n) = "camera" THEN Append(s, <<n>>) ELSE s

IsModelViewAt(f) ==
    /\ \A n \in Nodes : f[n] \in Stacks
    /\ f[1] = FreshStack
    /\ \A n \in Nodes \ {1} : f[n] = ModelViewPushed(n, f[scene.par[n]])
IsProjectionAt(f) ==
    /\ \A n \in Nodes : f[n] \in Stacks
    /\ f[1] = FreshStack
    /\ \A n \in Nodes \ {1} : f[n] = ProjectionPushed(n, f[scene.par[n]])

ModelViewAt == CHOOSE f : IsModelViewAt(f)
ProjectionAt == CHOOSE f : IsProjectionAt(f)

\* Last and Front undo Append on a stack.
LEMMA StackFacts ==
    ASSUME NEW s \in Stacks
    PROVE  /\ Len(s) \in Nat \ {0} /\ Last(s) = s[Len(s)] /\ s[Len(s)] \in Seq(Nodes)
           /\ \A x \in Seq(Nodes) :
                 /\ Append(s, x) \in Stacks /\ Len(Append(s, x)) = Len(s) + 1
                 /\ Last(Append(s, x)) = x
                 /\ Front(Append(s, x)) = s
<1>1. s \in Seq(Seq(Nodes)) /\ s # <<>>
    BY DEF Stacks
<1>2. Len(s) \in Nat \ {0} /\ s[Len(s)] \in Seq(Nodes)
    BY <1>1, EmptySeq, ElementOfSeq
<1>3. ASSUME NEW x \in Seq(Nodes)
      PROVE  /\ Append(s, x) \in Stacks /\ Len(Append(s, x)) = Len(s) + 1
             /\ Last(Append(s, x)) = x
             /\ Front(Append(s, x)) = s
    <2>1. /\ Append(s, x) \in Seq(Seq(Nodes)) /\ Len(Append(s, x)) = Len(s) + 1
          /\ Append(s, x)[Len(s) + 1] = x
          /\ \A i \in 1..Len(s) : Append(s, x)[i] = s[i]
        BY <1>1
    <2>2. Append(s, x) # <<>>
        BY <1>1, AppendProperties
    <2>3. Front(Append(s, x)) = s
        <3> DEFINE t == Append(s, x)
                   u == SubSeq(t, 1, Len(s))
        <3>1. u \in Seq(Seq(Nodes)) /\ Len(u) = Len(s) /\ \A i \in 1..Len(s) : u[i] = s[i]
            BY <1>1, <1>2, <2>1
        <3>2. u = s
            <4> HIDE DEF u
            <4> QED BY <1>1, <3>1, SeqEqual
        <3>3. Front(t) = u
            BY <1>2, <2>1 DEF Front
        <3> QED BY <3>2, <3>3
    <2> QED
        BY <2>1, <2>2, <2>3 DEF Stacks, Last
<1> QED
    BY <1>2, <1>3 DEF Last

\* What the constructor of GLMatrixStack leaves.
LEMMA FreshFacts == FreshStack \in Stacks /\ Len(FreshStack) = 1 /\ FreshStack[1] = Identity
    BY DEF FreshStack, Stacks, Identity

\* There is such a table.
LEMMA ModelViewAtExists == scene \in Scenes => IsModelViewAt(ModelViewAt)
<1> SUFFICES ASSUME scene \in Scenes PROVE \E f : IsModelViewAt(f)
    BY DEF ModelViewAt
<1> DEFINE step == [n \in Nodes |-> [s \in Stacks |-> ModelViewPushed(n, s)]]
<1>1. \A n \in Nodes : <<n>> \in Seq(Nodes)
    OBVIOUS
<1>2. step \in [Nodes -> [Stacks -> Stacks]]
    <2>1. ASSUME NEW n \in Nodes, NEW s \in Stacks PROVE ModelViewPushed(n, s) \in Stacks
        <3>1. <<n>> \in Seq(Nodes) /\ Append(s[Len(s)], n) \in Seq(Nodes)
            BY <1>1, StackFacts
        <3> QED BY <3>1, StackFacts DEF ModelViewPushed
    <2> QED BY <2>1
<1>3. PICK f :
          /\ \A n \in Nodes : f[n] \in Stacks
          /\ f[1] = step[1][FreshStack]
          /\ \A n \in Nodes \ {1} : f[n] = step[n][f[scene.par[n]]]
    <2> HIDE DEF step
    <2> QED BY <1>2, FreshFacts, Recursion
<1>4. f[1] = FreshStack
    BY <1>3, FreshFacts, TreeFacts, SizeAssumption DEF ModelViewPushed, Kind, Nodes
<1>5. \A n \in Nodes \ {1} : f[n] = ModelViewPushed(n, f[scene.par[n]])
    BY <1>3, TreeFacts
<1> QED
    BY <1>3, <1>4, <1>5 DEF IsModelViewAt

\* There is such a table.
LEMMA ProjectionAtExists == scene \in Scenes => IsProjectionAt(ProjectionAt)
<1> SUFFICES ASSUME scene \in Scenes PROVE \E f : IsProjectionAt(f)
    BY DEF ProjectionAt
<1> DEFINE step == [n \in Nodes |-> [s \in Stacks |-> ProjectionPushed(n, s)]]
<1>1. \A n \in Nodes : <<n>> \in Seq(Nodes)
    OBVIOUS
<1>2. step \in [Nodes -> [Stacks -> Stacks]]
    BY <1>1, StackFacts DEF ProjectionPushed
<1>3. PICK f :
          /\ \A n \in Nodes : f[n] \in Stacks
          /\ f[1] = step[1][FreshStack]
          /\ \A n \in Nodes \ {1} : f[n] = step[n][f[scene.par[n]]]
    <2> HIDE DEF step
    <2> QED BY <1>2, FreshFacts, Recursion
<1>4. f[1] = FreshStack
    BY <1>3, FreshFacts, TreeFacts, SizeAssumption DEF ProjectionPushed, Kind, Nodes
<1>5. \A n \in Nodes \ {1} : f[n] = ProjectionPushed(n, f[scene.par[n]])
    BY <1>3, TreeFacts
<1> QED
    BY <1>3, <1>4, <1>5 DEF IsProjectionAt

\* The current matrices of these stacks are the ones the path gives.
LEMMA TopsAreThePath ==
    ASSUME scene \in Scenes
    PROVE  \A n \in Nodes :
              /\ ModelViewAt[n] \in Stacks /\ ProjectionAt[n] \in Stacks
              /\ Last(ModelViewAt[n]) = PathModelView[n]
              /\ Last(ProjectionAt[n]) = PathProjection[n]
<1> DEFINE P == {n \in Nodes : /\ Last(ModelViewAt[n]) = PathModelView[n]
                               /\ Last(ProjectionAt[n]) = PathProjection[n]}
<1>1. IsModelViewAt(ModelViewAt) /\ IsProjectionAt(ProjectionAt)
    BY ModelViewAtExists, ProjectionAtExists
<1>2. \A n \in Nodes : ModelViewAt[n] \in Stacks /\ ProjectionAt[n] \in Stacks
    BY <1>1 DEF IsModelViewAt, IsProjectionAt
<1>3. 1 \in P
    <2>1. 1 \in Nodes /\ Kind(1) = "group"
        BY TreeFacts, SizeAssumption DEF Nodes, Kind
    <2>2. PathModelView[1] = Identity /\ PathProjection[1] = Identity
        BY <2>1, ModelViewUnfolds, ProjectionUnfolds
    <2>3. ModelViewAt[1] = FreshStack /\ ProjectionAt[1] = FreshStack
        BY <1>1 DEF IsModelViewAt, IsProjectionAt
    <2>4. Last(FreshStack) = Identity
        BY FreshFacts, StackFacts
    <2> QED BY <2>1, <2>2, <2>3, <2>4
<1>4. ASSUME NEW n \in Nodes \ {1}, scene.par[n] \in P PROVE n \in P
    <2> DEFINE m == scene.par[n]
    <2>1. /\ m \in Nodes
          /\ Last(ModelViewAt[m]) = PathModelView[m]
          /\ Last(ProjectionAt[m]) = PathProjection[m]
        BY <1>4
    <2>2. /\ ModelViewAt[n] = ModelViewPushed(n, ModelViewAt[m])
          /\ ProjectionAt[n] = ProjectionPushed(n, ProjectionAt[m])
        BY <1>1 DEF IsModelViewAt, IsProjectionAt
    <2>3. /\ ModelViewAt[m] \in Stacks /\ ProjectionAt[m] \in Stacks
          /\ <<n>> \in Seq(Nodes)
        BY <1>2, <2>1
    <2>4. Last(ProjectionAt[n]) = PathProjection[n]
        <3>1. PathProjection[n] = IF Kind(n) = "camera" THEN <<n>> ELSE PathProjection[m]
            BY ProjectionUnfolds
        <3> HIDE DEF m
        <3> QED BY <2>1, <2>2, <2>3, <3>1, StackFacts DEF ProjectionPushed
    <2>5. Last(ModelViewAt[n]) = PathModelView[n]
        <3>1. PathModelView[n] =
                CASE Kind(n) = "camera"    -> <<n>>
                  [] Kind(n) = "transform" -> Append(PathModelView[m], n)
                  [] OTHER                 -> PathModelView[m]
            BY ModelViewUnfolds
        <3> HIDE DEF m
        <3>2. PathModelView[m] \in Seq(Nodes) /\ ModelViewAt[m][Len(ModelViewAt[m])] = PathModelView[m]
            BY <2>1, <2>3, StackFacts
        <3>3. Append(PathModelView[m], n) \in Seq(Nodes)
            BY <3>2
        <3>4. CASE Kind(n) = "camera"
            <4>1. ModelViewAt[n] = Append(ModelViewAt[m], <<n>>)
                BY <2>2, <3>4 DEF ModelViewPushed
            <4>2. Last(Append(ModelViewAt[m], <<n>>)) = <<n>>
                BY <2>3, StackFacts
            <4>3. PathModelView[n] = <<n>>
                BY <3>1, <3>4
            <4> QED BY <4>1, <4>2, <4>3
        <3>5. CASE Kind(n) = "transform"
            <4>1. ModelViewAt[n] = Append(ModelViewAt[m], Append(PathModelView[m], n))
                BY <2>2, <3>2, <3>5 DEF ModelViewPushed
            <4> DEFINE x == Append(PathModelView[m], n)
            <4>2. Last(Append(ModelViewAt[m], x)) = x
                BY <2>3, <3>3, StackFacts
            <4>3. PathModelView[n] = x
                BY <3>1, <3>5
            <4> QED BY <4>1, <4>2, <4>3
        <3>6. CASE Kind(n) # "camera" /\ Kind(n) # "transform"
            BY <2>1, <2>2, <3>1, <3>6 DEF ModelViewPushed
        <3> QED BY <3>4, <3>5, <3>6
    <2> QED BY <2>4, <2>5
<1>5. Nodes \subseteq P
    <2> HIDE DEF P
    <2> QED BY <1>3, <1>4, TreeInduction
<1> QED
    BY <1>2, <1>5

\* The cameras and transforms on the path to a node, itself included.
Stacking(n) == {m \in {n} \cup Above[n] : Kind(m) \in {"camera", "transform"}}

\* A stack holds at most one matrix more than that.
LEMMA StacksAreShallow ==
    ASSUME scene \in Scenes
    PROVE  \A n \in Nodes :
              /\ Cardinality(Stacking(n)) \in Nat
              /\ Len(ModelViewAt[n]) <= Cardinality(Stacking(n)) + 1
              /\ Len(ProjectionAt[n]) <= Cardinality(Stacking(n)) + 1
<1> DEFINE Q(n) == /\ IsFiniteSet(Stacking(n)) /\ Cardinality(Stacking(n)) \in Nat
                   /\ \A m \in Above[n] : m \in Nodes /\ m < n
                   /\ Len(ModelViewAt[n]) <= Cardinality(Stacking(n)) + 1
                   /\ Len(ProjectionAt[n]) <= Cardinality(Stacking(n)) + 1
           P == {n \in Nodes : Q(n)}
<1>1. IsModelViewAt(ModelViewAt) /\ IsProjectionAt(ProjectionAt)
    BY ModelViewAtExists, ProjectionAtExists
<1>2. \A n \in Nodes : ModelViewAt[n] \in Stacks /\ ProjectionAt[n] \in Stacks
    BY <1>1 DEF IsModelViewAt, IsProjectionAt
<1>3. 1 \in P
    <2>1. 1 \in Nodes /\ Kind(1) = "group"
        BY SizeAssumption, TreeFacts DEF Nodes, Kind
    <2>2. Above[1] = {}
        BY <2>1, AboveUnfolds
    <2>3. Stacking(1) = {}
        BY <2>1, <2>2 DEF Stacking
    <2>4. ModelViewAt[1] = FreshStack /\ ProjectionAt[1] = FreshStack
        BY <1>1 DEF IsModelViewAt, IsProjectionAt
    <2>5. IsFiniteSet(Stacking(1)) /\ Cardinality(Stacking(1)) = 0
        BY <2>3, FS_EmptySet
    <2>6. /\ Cardinality(Stacking(1)) \in Nat
          /\ Len(ModelViewAt[1]) <= Cardinality(Stacking(1)) + 1
          /\ Len(ProjectionAt[1]) <= Cardinality(Stacking(1)) + 1
        BY <2>4, <2>5, FreshFacts
    <2>7. \A m \in Above[1] : m \in Nodes /\ m < 1
        BY <2>2
    <2> QED BY <2>1, <2>5, <2>6, <2>7, Zenon
<1>4. ASSUME NEW n \in Nodes \ {1}, scene.par[n] \in P PROVE n \in P
    <2> DEFINE m == scene.par[n]
               c == Cardinality(Stacking(m))
               mv == ModelViewAt[m]
               pr == ProjectionAt[m]
    <2>1. m \in Nodes /\ m < n /\ m \in Nat /\ n \in Nat
        BY TreeFacts DEF Nodes
    <2>2. Above[n] = Above[m] \cup {m}
        <3>1. Above[n] = {scene.par[n]} \cup Above[scene.par[n]]
            BY AboveUnfolds
        <3> QED BY <3>1
    <2>3. /\ IsFiniteSet(Stacking(m)) /\ c \in Nat
          /\ \A k \in Above[m] : k \in Nodes /\ k < m
          /\ Len(mv) <= c + 1 /\ Len(pr) <= c + 1
        BY <1>4
    <2>4. \A k \in Above[n] : k \in Nodes /\ k < n
        BY <2>1, <2>2, <2>3 DEF Nodes
    <2>5. n \notin Stacking(m)
        BY <2>1, <2>3 DEF Stacking
    <2>6. /\ ModelViewAt[n] = ModelViewPushed(n, mv) /\ ProjectionAt[n] = ProjectionPushed(n, pr)
          /\ mv \in Stacks /\ pr \in Stacks /\ <<n>> \in Seq(Nodes)
        BY <1>1, <1>2, <2>1 DEF IsModelViewAt, IsProjectionAt
    <2>7. /\ Append(mv[Len(mv)], n) \in Seq(Nodes) /\ Len(mv) \in Nat /\ Len(pr) \in Nat
        <3>1. mv[Len(mv)] \in Seq(Nodes) /\ Len(mv) \in Nat /\ Len(pr) \in Nat
            BY <2>6, StackFacts
        <3> QED BY <3>1
    <2>8. /\ IsFiniteSet(Stacking(n)) /\ Cardinality(Stacking(n)) \in Nat
          /\ Len(ModelViewAt[n]) <= Cardinality(Stacking(n)) + 1
          /\ Len(ProjectionAt[n]) <= Cardinality(Stacking(n)) + 1
        <3>1. CASE Kind(n) \in {"camera", "transform"}
            <4>1. Stacking(n) = Stacking(m) \cup {n}
                BY <2>2, <3>1 DEF Stacking
            <4>2. IsFiniteSet(Stacking(n)) /\ Cardinality(Stacking(n)) = c + 1
                BY <2>3, <2>5, <4>1, FS_AddElement
            <4> HIDE DEF m, mv, pr, c
            <4>3. Len(ModelViewAt[n]) = Len(mv) + 1 /\ Len(ProjectionAt[n]) \in {Len(pr), Len(pr) + 1}
                BY <2>6, <2>7, <3>1, StackFacts DEF ModelViewPushed, ProjectionPushed
            <4> QED BY <2>3, <2>7, <4>2, <4>3
        <3>2. CASE Kind(n) \notin {"camera", "transform"}
            <4>1. Stacking(n) = Stacking(m)
                BY <2>2, <3>2 DEF Stacking
            <4>2. ModelViewAt[n] = mv /\ ProjectionAt[n] = pr
                BY <2>6, <3>2 DEF ModelViewPushed, ProjectionPushed
            <4> QED BY <2>3, <4>1, <4>2
        <3> QED BY <3>1, <3>2
    <2> QED BY <2>4, <2>8, Zenon
<1>5. Nodes \subseteq P
    <2> HIDE DEF P
    <2> QED BY <1>3, <1>4, TreeInduction
<1> QED
    BY <1>5
-----------------------------------------------------------------------------
(* What the operations of the matrix stacks do to these stacks.            *)

\* A push that is not refused, and the replacement of what was pushed.
LEMMA PushThenReplace ==
    ASSUME NEW s \in Stacks, Len(s) - 1 < StackDepth
    PROVE  /\ \A x \in Seq(Nodes) : LoadMatrix(PushMatrix(s), x) = Append(s, x)
           /\ \A n \in Nodes : MultMatrix(PushMatrix(s), n) = Append(s, Append(Last(s), n))
<1> DEFINE t == Append(s, Last(s))
           l == Len(s)
<1>1. l \in Nat \ {0} /\ s \in Seq(Seq(Nodes)) /\ Last(s) \in Seq(Nodes)
    BY StackFacts DEF Stacks
<1>2. PushMatrix(s) = t
    BY DEF PushMatrix
<1>3. /\ t \in Seq(Seq(Nodes)) /\ Len(t) = l + 1 /\ t[l + 1] = Last(s)
      /\ \A i \in 1..l : t[i] = s[i]
    BY <1>1
<1>4. ASSUME NEW x \in Seq(Nodes) PROVE [t EXCEPT ![Len(t)] = x] = Append(s, x)
    <2> DEFINE u == [t EXCEPT ![Len(t)] = x]
               v == Append(s, x)
    <2>1. /\ u \in Seq(Seq(Nodes)) /\ Len(u) = l + 1 /\ u[l + 1] = x
          /\ \A i \in 1..l : u[i] = t[i]
        <3> HIDE DEF t
        <3>1. Len(t) \in 1..Len(t) /\ t \in Seq(Seq(Nodes))
            BY <1>1, <1>3
        <3>2. /\ u \in Seq(Seq(Nodes)) /\ Len(u) = Len(t)
              /\ \A i \in 1..Len(t) : u[i] = IF i = Len(t) THEN x ELSE t[i]
            BY <3>1, ExceptSeq
        <3> HIDE DEF u, l
        <3> QED BY <1>1, <1>3, <3>2
    <2>2. /\ v \in Seq(Seq(Nodes)) /\ Len(v) = l + 1 /\ v[l + 1] = x
          /\ \A i \in 1..l : v[i] = s[i]
        BY <1>1
    <2> HIDE DEF u, v
    <2>3. \A i \in 1..Len(u) : u[i] = v[i]
        <3>1. \A i \in 1..(l + 1) : i \in 1..l \/ i = l + 1
            BY <1>1
        <3> HIDE DEF l, t
        <3> QED BY <1>3, <2>1, <2>2, <3>1
    <2>4. u = v
        BY <2>1, <2>2, <2>3, SeqEqual
    <2> QED BY <2>4 DEF u, v
<1>5. ASSUME NEW n \in Nodes
      PROVE  MultMatrix(t, n) = Append(s, Append(Last(s), n))
    <2>1. Append(Last(s), n) \in Seq(Nodes)
        BY <1>1
    <2>2. t[Len(t)] = Last(s)
        BY <1>3
    <2>3. MultMatrix(t, n) = [t EXCEPT ![Len(t)] = Append(Last(s), n)]
        <3> HIDE DEF t
        <3> QED BY <2>2 DEF MultMatrix
    <2> QED BY <1>4, <2>1, <2>3
<1> QED
    BY <1>2, <1>4, <1>5 DEF LoadMatrix

\* No path has as many cameras and transforms as the arrays of the stacks have
\* elements.
Shallow == \A n \in Nodes : Cardinality(Stacking(n)) < StackDepth

Outer(n) == IF n = 1 THEN 1 ELSE scene.par[n]

\* Entering a node takes the stacks from the value at its parent to its own.
LEMMA Pushes ==
    ASSUME scene \in Scenes, Shallow, NEW n \in Nodes
    PROVE  /\ Kind(n) = "camera" =>
                 /\ LoadMatrix(PushMatrix(ModelViewAt[Outer(n)]), <<n>>) = ModelViewAt[n]
                 /\ LoadMatrix(PushMatrix(ProjectionAt[Outer(n)]), <<n>>) = ProjectionAt[n]
           /\ Kind(n) = "transform" =>
                 /\ Transformed(ModelViewAt[Outer(n)], n) = ModelViewAt[n]
                 /\ ProjectionAt[n] = ProjectionAt[Outer(n)]
           /\ Kind(n) \notin {"camera", "transform"} =>
                 /\ ModelViewAt[n] = ModelViewAt[Outer(n)]
                 /\ ProjectionAt[n] = ProjectionAt[Outer(n)]
<1>1. CASE n = 1
    BY <1>1, TreeFacts DEF Outer, Kind
<1>2. CASE n # 1
    <2> DEFINE m == scene.par[n]
               s == ModelViewAt[m]
               p == ProjectionAt[m]
    <2>1. m \in Nodes /\ Outer(n) = m
        BY <1>2, TreeFacts DEF Outer
    <2>2. ModelViewAt[n] = ModelViewPushed(n, s) /\ ProjectionAt[n] = ProjectionPushed(n, p)
        BY <1>2, ModelViewAtExists, ProjectionAtExists DEF IsModelViewAt, IsProjectionAt
    <2>3. s \in Stacks /\ p \in Stacks
        BY <2>1, TopsAreThePath
    <2>4. Len(s) - 1 < StackDepth /\ Len(p) - 1 < StackDepth
        <3>1. /\ Cardinality(Stacking(m)) \in Nat /\ Cardinality(Stacking(m)) < StackDepth
              /\ Len(s) <= Cardinality(Stacking(m)) + 1 /\ Len(p) <= Cardinality(Stacking(m)) + 1
            BY <2>1, StacksAreShallow DEF Shallow
        <3>2. Len(s) \in Nat /\ Len(p) \in Nat
            BY <2>3, StackFacts
        <3> QED BY <3>1, <3>2, StackDepthAssumption
    <2>5. <<n>> \in Seq(Nodes) /\ Last(s) = s[Len(s)]
        BY <2>3, StackFacts
    <2> HIDE DEF m, s, p
    <2>6. /\ LoadMatrix(PushMatrix(s), <<n>>) = Append(s, <<n>>)
          /\ LoadMatrix(PushMatrix(p), <<n>>) = Append(p, <<n>>)
          /\ Transformed(s, n) = Append(s, Append(s[Len(s)], n))
        BY <2>3, <2>4, <2>5, PushThenReplace DEF Transformed
    <2> QED
        BY <2>1, <2>2, <2>6 DEF ModelViewPushed, ProjectionPushed, s, p
<1> QED
    BY <1>1, <1>2

\* Leaving a node takes them back.
LEMMA Pops ==
    ASSUME scene \in Scenes, NEW n \in Nodes
    PROVE  /\ Kind(n) = "camera" =>
                 /\ PopMatrix(ModelViewAt[n]) = ModelViewAt[Outer(n)]
                 /\ PopMatrix(ProjectionAt[n]) = ProjectionAt[Outer(n)]
           /\ Kind(n) = "transform" => PopMatrix(ModelViewAt[n]) = ModelViewAt[Outer(n)]
<1>1. CASE n = 1
    BY <1>1, TreeFacts DEF Kind
<1>2. CASE n # 1
    <2> DEFINE m == scene.par[n]
               s == ModelViewAt[m]
               p == ProjectionAt[m]
    <2>1. m \in Nodes /\ Outer(n) = m
        BY <1>2, TreeFacts DEF Outer
    <2>2. ModelViewAt[n] = ModelViewPushed(n, s) /\ ProjectionAt[n] = ProjectionPushed(n, p)
        BY <1>2, ModelViewAtExists, ProjectionAtExists DEF IsModelViewAt, IsProjectionAt
    <2>3. s \in Stacks /\ p \in Stacks
        BY <2>1, TopsAreThePath
    <2>4. <<n>> \in Seq(Nodes) /\ Append(s[Len(s)], n) \in Seq(Nodes)
        BY <2>3, StackFacts
    <2> HIDE DEF m, s, p
    <2>5. ASSUME NEW t \in Stacks, NEW x \in Seq(Nodes) PROVE PopMatrix(Append(t, x)) = t
        <3>1. Len(t) \in Nat \ {0} /\ Len(Append(t, x)) = Len(t) + 1 /\ Front(Append(t, x)) = t
            BY StackFacts
        <3> QED BY <3>1 DEF PopMatrix
    <2>6. /\ PopMatrix(Append(s, <<n>>)) = s /\ PopMatrix(Append(p, <<n>>)) = p
          /\ PopMatrix(Append(s, Append(s[Len(s)], n))) = s
        BY <2>3, <2>4, <2>5
    <2> QED
        BY <2>1, <2>2, <2>6 DEF ModelViewPushed, ProjectionPushed, s, p
<1> QED
    BY <1>1, <1>2
-----------------------------------------------------------------------------
(* The node whose children are being visited, the root between frames.     *)

Around == IF Idle THEN 1 ELSE IF Top.child > 0 THEN Top.node ELSE Outer(Top.node)

\* The caller of the innermost call is the parent of its node.
LEMMA TopPlace ==
    ASSUME Walk, ~Idle
    PROVE  /\ Len(calls) = 1 => Top.node = 1
           /\ Len(calls) # 1 => /\ Len(calls) - 1 \in 1..Len(calls)
                                /\ calls[Len(calls) - 1].child > 1
                                /\ Top.node # 1
                                /\ calls[Len(calls) - 1].node = scene.par[Top.node]
<1>1. Len(calls) \in Nat \ {0} /\ Top = calls[Len(calls)]
    BY TopFacts
<1>2. Len(calls) \in 1..Len(calls)
    BY <1>1
<1>3. IF Len(calls) = 1 THEN calls[Len(calls)].node = 1
      ELSE /\ calls[Len(calls)].node # 1
           /\ scene.par[calls[Len(calls)].node] = calls[Len(calls) - 1].node
    BY <1>2 DEF Walk, OnPath
<1>4. Len(calls) # 1 => Len(calls) - 1 \in 1..Len(calls) /\ Len(calls) - 1 < Len(calls)
    <2> DEFINE n == Len(calls)
    <2>1. n \in Nat \ {0}
        BY <1>1
    <2> HIDE DEF n
    <2>2. n # 1 => n - 1 \in 1..n /\ n - 1 < n
        BY <2>1
    <2> QED BY <2>2 DEF n
<1>5. Len(calls) # 1 => calls[Len(calls) - 1].child > 1
    BY <1>4 DEF Walk, OnPath
<1> QED
    BY <1>1, <1>3, <1>4, <1>5

\* The stacks are always at a node.
LEMMA AroundInNodes ==
    ASSUME Walk
    PROVE  /\ Around \in Nodes
           /\ ~Idle => Outer(Top.node) \in Nodes
<1>1. 1 \in Nodes /\ scene \in Scenes
    BY SizeAssumption DEF Nodes, Walk, OnPath
<1>2. ~Idle => Outer(Top.node) \in Nodes
    BY <1>1, TopFacts, TreeFacts DEF Outer
<1> QED
    BY <1>1, <1>2, TopFacts DEF Around

\* A frame begins at the root, where the stacks are already.
LEMMA AroundBegins ==
    ASSUME Begins
    PROVE  ~Idle' /\ Top'.child = 0 /\ Top'.node = 1 /\ Around = 1 /\ Around' = 1
    BY DEF Begins, Idle, Around, Top, Call, Outer

\* Calling a child leaves the stacks where they are.
LEMMA AroundDescends ==
    ASSUME Walk, Descends, UNCHANGED scene
    PROVE  /\ ~Idle' /\ Top'.child = 0 /\ Top'.node \in Nodes \ {1}
           /\ scene.par[Top'.node] = Top.node
           /\ Top'.node = KidsTable[Top.node][Top.child]
           /\ Top.child \in 1..Len(KidsTable[Top.node])
           /\ Around = Top.node /\ Around' = Around
<1>1. Len(calls) \in Nat \ {0} /\ ~Idle
    BY TopFacts DEF Descends
<1>2. PICK k \in Nodes \ {1} :
            /\ calls'[Len(calls) + 1] = [node |-> k, child |-> 0]
            /\ k = KidsTable[Top.node][Top.child]
            /\ scene.par[k] = Top.node
    BY AfterDescent
<1>3. calls' \in Seq(CallRecord) /\ Len(calls') = Len(calls) + 1 /\ Top.child \in 1..Len(KidsTable[Top.node])
    BY AfterDescent
<1>4. ~Idle' /\ Top' = [node |-> k, child |-> 0]
    BY <1>1, <1>2, <1>3, EmptySeq DEF Idle, Top
<1>5. Around = Top.node
    BY <1>1, <1>3 DEF Around
<1>6. Around' = Top.node
    BY <1>2, <1>4 DEF Around, Outer
<1> QED
    BY <1>2, <1>3, <1>4, <1>5, <1>6

\* Entering takes them from the parent to the node.
LEMMA AroundEnters ==
    ASSUME Walk, Enters
    PROVE  /\ ~Idle' /\ Top'.child = 1 /\ Top'.node = Top.node
           /\ Around = Outer(Top.node) /\ Around' = Top.node
<1>1. Len(calls) \in Nat \ {0} /\ ~Idle /\ Top.child = 0 /\ Top = calls[Len(calls)]
    BY TopFacts DEF Enters
<1>2. Len(calls) \in 1..Len(calls)
    BY <1>1
<1>3. /\ calls' \in Seq(CallRecord) /\ Len(calls') = Len(calls)
      /\ calls'[Len(calls)].node = calls[Len(calls)].node /\ calls'[Len(calls)].child = 1
    BY <1>2, AfterEntry
<1>4. ~Idle' /\ Top'.node = Top.node /\ Top'.child = 1
    BY <1>1, <1>3, EmptySeq DEF Idle, Top
<1> QED
    BY <1>1, <1>4 DEF Around

\* Returning takes them to the parent, which has moved past its first child.
LEMMA AroundReturns ==
    ASSUME Walk, Returns, UNCHANGED scene
    PROVE  /\ Around' = Outer(Top.node)
           /\ ~Idle' => Top'.child \in Nat \ {0, 1}
           /\ Around = IF Top.child > 0 THEN Top.node ELSE Outer(Top.node)
<1>1. Len(calls) \in Nat \ {0} /\ ~Idle
    BY TopFacts DEF Returns
<1>2. /\ calls' \in Seq(CallRecord) /\ Len(calls') = Len(calls) - 1
      /\ \A i \in 1..(Len(calls)-1) : calls'[i] = calls[i]
    BY AfterReturn
<1>3. CASE Len(calls) = 1
    <2>1. Idle'
        BY <1>2, <1>3, EmptySeq DEF Idle
    <2>2. Top.node = 1
        BY <1>1, <1>3, TopPlace
    <2> QED
        BY <1>1, <2>1, <2>2 DEF Around, Outer
<1>4. CASE Len(calls) # 1
    <2>1. Len(calls') \in Nat \ {0} /\ Len(calls') = Len(calls) - 1
        BY <1>1, <1>2, <1>4
    <2>2. ~Idle'
        BY <1>2, <2>1, EmptySeq DEF Idle
    <2>3. Len(calls) - 1 \in 1..(Len(calls) - 1)
        BY <1>1, <1>4
    <2>4. Top' = calls[Len(calls) - 1]
        BY <1>2, <2>1, <2>3 DEF Top
    <2>5. Top'.child > 1 /\ Top'.node = Outer(Top.node)
        BY <1>1, <1>4, <2>4, TopPlace DEF Outer
    <2>6. Top'.child \in Nat \ {0, 1} /\ Top'.child > 0
        <3>1. Top'.child \in Nat
            <4>1. Len(calls) - 1 \in 1..Len(calls) /\ calls \in Seq(CallRecord)
                BY <1>1, <1>4, TopPlace DEF Walk, OnPath
            <4>2. Top' \in CallRecord
                BY <2>4, <4>1, ElementOfSeq
            <4> QED BY <4>2 DEF CallRecord
        <3> QED BY <2>5, <3>1
    <2> QED
        BY <1>1, <2>2, <2>5, <2>6 DEF Around
<1> QED
    BY <1>3, <1>4
-----------------------------------------------------------------------------
(* The matrices of the visitor and the projection OpenGL has.              *)

Drawings == [geometry : Nodes, at : Seq(Nodes), through : Seq(Nodes)]

Matrices ==
    /\ Walk /\ Shallow
    /\ modelView = ModelViewAt[Around]
    /\ projection = ProjectionAt[Around]
    /\ glProjection = Last(projection)
    /\ glModelView \in Seq(Nodes)
    /\ drawn \in Seq(Drawings)
    /\ DrawnThroughItsCamera

\* What is computed from the graph alone does not change.
LEMMA TablesFixed ==
    UNCHANGED scene => /\ UNCHANGED ModelViewAt /\ UNCHANGED ProjectionAt
                       /\ UNCHANGED PathProjection /\ UNCHANGED PathModelView
                       /\ (Shallow => Shallow')
<1> SUFFICES ASSUME UNCHANGED scene
             PROVE  /\ UNCHANGED ModelViewAt /\ UNCHANGED ProjectionAt
                    /\ UNCHANGED PathProjection /\ UNCHANGED PathModelView
                    /\ (Shallow => Shallow')
    OBVIOUS
<1>1. UNCHANGED ModelViewAt
    BY DEF ModelViewAt, IsModelViewAt, ModelViewPushed, Kind
<1>2. UNCHANGED ProjectionAt
    BY DEF ProjectionAt, IsProjectionAt, ProjectionPushed, Kind
<1>3. Shallow => Shallow'
    BY SceneFixed DEF Shallow, Stacking, Kind
<1> QED
    BY <1>1, <1>2, <1>3, SceneFixed

\* The stacks the constructor leaves are those of the root.
LEMMA MatricesStart == Init /\ Shallow => Matrices
<1> SUFFICES ASSUME Init, Shallow PROVE Matrices
    OBVIOUS
<1>1. /\ Walk /\ Idle /\ scene \in Scenes
      /\ modelView = FreshStack /\ projection = FreshStack
      /\ glProjection = Identity /\ glModelView = Identity /\ drawn = <<>>
    BY WalkStarts DEF Init, Idle
<1>2. ModelViewAt[Around] = FreshStack /\ ProjectionAt[Around] = FreshStack
    BY <1>1, ModelViewAtExists, ProjectionAtExists DEF Around, IsModelViewAt, IsProjectionAt
<1>3. Last(FreshStack) = Identity /\ Identity \in Seq(Nodes)
    BY FreshFacts, StackFacts DEF Identity
<1>4. drawn \in Seq(Drawings) /\ DrawnThroughItsCamera
    BY <1>1 DEF DrawnThroughItsCamera
<1> QED
    BY <1>1, <1>2, <1>3, <1>4 DEF Matrices

\* The node being left has seen all its children.
LEMMA LeavingFacts ==
    ASSUME Walk, ChildrenDone
    PROVE  ~Idle /\ Top.node \in Nodes /\ Top.child > 0
<1>1. ~Idle /\ Top.child > Len(Kids(Top.node))
    BY DEF ChildrenDone
<1>2. Top.node \in Nodes /\ Top.child \in Nat /\ scene \in Scenes
    BY <1>1, TopFacts DEF Walk, OnPath
<1>3. Len(Kids(Top.node)) \in 0..Size
    BY <1>2, KidsFacts
<1> QED
    BY <1>1, <1>2, <1>3, SizeAssumption

\* Each operation takes the stacks to those of the node it gets to.
LEMMA MatricesKeep == Matrices /\ [Next]_vars => Matrices'
<1> SUFFICES ASSUME Matrices, [Next]_vars PROVE Matrices'
    OBVIOUS
<1>1. /\ Walk /\ Shallow /\ scene \in Scenes
      /\ modelView = ModelViewAt[Around] /\ projection = ProjectionAt[Around]
      /\ glProjection = Last(projection) /\ glModelView \in Seq(Nodes)
      /\ drawn \in Seq(Drawings)
      /\ \A i \in DOMAIN drawn : drawn[i].through = PathProjection[drawn[i].geometry]
    BY DEF Matrices, Walk, OnPath, DrawnThroughItsCamera
<1>2. /\ Walk' /\ Shallow' /\ UNCHANGED scene
      /\ ModelViewAt' = ModelViewAt /\ ProjectionAt' = ProjectionAt
      /\ PathProjection' = PathProjection
    BY <1>1, WalkKeeps, Movements, TablesFixed
<1>3. Around \in Nodes /\ ModelViewAt[Around] \in Stacks /\ ProjectionAt[Around] \in Stacks
    BY <1>1, AroundInNodes, TopsAreThePath
<1>4. SUFFICES /\ modelView' = ModelViewAt[Around'] /\ projection' = ProjectionAt[Around']
               /\ glProjection' = Last(projection') /\ glModelView' \in Seq(Nodes)
               /\ drawn' \in Seq(Drawings)
               /\ \A i \in DOMAIN drawn' : drawn'[i].through = PathProjection[drawn'[i].geometry]
    BY <1>2 DEF Matrices, DrawnThroughItsCamera
<1>5. ASSUME UNCHANGED matrixVars, UNCHANGED drawn,
             ModelViewAt[Around'] = ModelViewAt[Around],
             ProjectionAt[Around'] = ProjectionAt[Around]
      PROVE  /\ modelView' = ModelViewAt[Around'] /\ projection' = ProjectionAt[Around']
             /\ glProjection' = Last(projection') /\ glModelView' \in Seq(Nodes)
             /\ drawn' \in Seq(Drawings)
             /\ \A i \in DOMAIN drawn' : drawn'[i].through = PathProjection[drawn'[i].geometry]
    BY <1>1, <1>5 DEF matrixVars
<1>6. CASE BeginFrame
    <2>1. Begins /\ UNCHANGED matrixVars /\ drawn' = <<>>
        BY <1>6 DEF BeginFrame, Begins, Idle
    <2>2. Around' = Around
        BY <2>1, AroundBegins
    <2> QED BY <1>1, <2>1, <2>2 DEF matrixVars
<1>7. CASE TraverseChild
    <2>1. Descends /\ UNCHANGED matrixVars /\ UNCHANGED drawn
        BY <1>7 DEF TraverseChild, Descends
    <2>2. Around' = Around
        BY <1>1, <1>2, <2>1, AroundDescends
    <2> QED BY <1>5, <2>1, <2>2
<1>8. CASE EnterGroup \/ EnterLight
    <2>1. /\ Enters /\ UNCHANGED matrixVars /\ UNCHANGED drawn
          /\ Kind(Top.node) \in {"group", "light"} /\ ~Idle
        BY <1>8 DEF EnterGroup, EnterLight, Entering, Enters
    <2>2. Around = Outer(Top.node) /\ Around' = Top.node /\ Top.node \in Nodes
        BY <1>1, <2>1, AroundEnters, TopFacts
    <2>3. /\ ModelViewAt[Top.node] = ModelViewAt[Outer(Top.node)]
          /\ ProjectionAt[Top.node] = ProjectionAt[Outer(Top.node)]
        <3>1. Kind(Top.node) \notin {"camera", "transform"}
            BY <2>1
        <3> QED BY <1>1, <2>2, <3>1, Pushes
    <2> QED BY <1>5, <2>1, <2>2, <2>3
<1>9. CASE EnterCamera
    <2> DEFINE n == Top.node
    <2>1. /\ Enters /\ Kind(n) = "camera" /\ ~Idle /\ drawn' = drawn
          /\ modelView' = LoadMatrix(PushMatrix(modelView), <<n>>)
          /\ projection' = LoadMatrix(PushMatrix(projection), <<n>>)
          /\ glProjection' = Last(projection')
          /\ glModelView' = Last(modelView')
        BY <1>9 DEF EnterCamera, Entering, Enters
    <2>2. Around = Outer(n) /\ Around' = n /\ n \in Nodes
        BY <1>1, <2>1, AroundEnters, TopFacts
    <2>3. modelView' = ModelViewAt[n] /\ projection' = ProjectionAt[n]
        <3> HIDE DEF n
        <3> QED BY <1>1, <2>1, <2>2, Pushes
    <2>4. Last(ModelViewAt[n]) \in Seq(Nodes)
        BY <1>1, <2>2, TopsAreThePath, StackFacts
    <2> QED BY <1>1, <2>1, <2>2, <2>3, <2>4
<1>10. CASE EnterTransform
    <2> DEFINE n == Top.node
    <2>1. /\ Enters /\ Kind(n) = "transform" /\ ~Idle /\ drawn' = drawn
          /\ modelView' = Transformed(modelView, n)
          /\ projection' = projection /\ glProjection' = glProjection
          /\ glModelView' = Last(modelView')
        BY <1>10 DEF EnterTransform, Entering, Enters
    <2>2. Around = Outer(n) /\ Around' = n /\ n \in Nodes
        BY <1>1, <2>1, AroundEnters, TopFacts
    <2>3. modelView' = ModelViewAt[n] /\ projection' = ProjectionAt[n]
        <3> HIDE DEF n
        <3> QED BY <1>1, <2>1, <2>2, Pushes
    <2>4. Last(ModelViewAt[n]) \in Seq(Nodes)
        BY <1>1, <2>2, TopsAreThePath, StackFacts
    <2> QED BY <1>1, <2>1, <2>2, <2>3, <2>4
<1>11. CASE LeavePlain
    <2>1. /\ Returns /\ UNCHANGED matrixVars /\ UNCHANGED drawn
          /\ Kind(Top.node) \in {"group", "light"} /\ ChildrenDone
        BY <1>11 DEF LeavePlain, Leaving, ChildrenDone, Returns
    <2>2. Around = Top.node /\ Around' = Outer(Top.node) /\ Top.node \in Nodes
        BY <1>1, <1>2, <2>1, AroundReturns, LeavingFacts
    <2>3. /\ ModelViewAt[Top.node] = ModelViewAt[Outer(Top.node)]
          /\ ProjectionAt[Top.node] = ProjectionAt[Outer(Top.node)]
        <3>1. Kind(Top.node) \notin {"camera", "transform"}
            BY <2>1
        <3> QED BY <1>1, <2>2, <3>1, Pushes
    <2> QED BY <1>5, <2>1, <2>2, <2>3
<1>12. CASE LeaveCamera
    <2> DEFINE n == Top.node
    <2>1. /\ Returns /\ Kind(n) = "camera" /\ ChildrenDone /\ drawn' = drawn
          /\ modelView' = PopMatrix(modelView) /\ projection' = PopMatrix(projection)
          /\ glProjection' = Last(projection') /\ glModelView' = Last(modelView')
        BY <1>12 DEF LeaveCamera, Leaving, ChildrenDone, Returns, ReloadedProjection, ReloadedModelView
    <2>2. Around = n /\ Around' = Outer(n) /\ n \in Nodes /\ Outer(n) \in Nodes
        BY <1>1, <1>2, <2>1, AroundReturns, LeavingFacts, AroundInNodes
    <2>3. modelView' = ModelViewAt[Outer(n)] /\ projection' = ProjectionAt[Outer(n)]
        <3> HIDE DEF n
        <3> QED BY <1>1, <2>1, <2>2, Pops
    <2>4. Last(ModelViewAt[Outer(n)]) \in Seq(Nodes)
        BY <1>1, <2>2, TopsAreThePath, StackFacts
    <2> QED BY <1>1, <2>1, <2>2, <2>3, <2>4
<1>13. CASE LeaveTransform
    <2> DEFINE n == Top.node
    <2>1. /\ Returns /\ Kind(n) = "transform" /\ ChildrenDone /\ drawn' = drawn
          /\ modelView' = PopMatrix(modelView) /\ projection' = projection
          /\ glProjection' = glProjection /\ glModelView' = glModelView
        BY <1>13 DEF LeaveTransform, Leaving, ChildrenDone, Returns, AfterTransform
    <2>2. Around = n /\ Around' = Outer(n) /\ n \in Nodes
        BY <1>1, <1>2, <2>1, AroundReturns, LeavingFacts
    <2>3. modelView' = ModelViewAt[Outer(n)] /\ ProjectionAt[Outer(n)] = ProjectionAt[n]
        <3> HIDE DEF n
        <3> QED BY <1>1, <2>1, <2>2, Pops, Pushes
    <2> QED BY <1>1, <2>1, <2>2, <2>3
<1>14. CASE VisitGeometry
    <2> DEFINE n == Top.node
               d == [geometry |-> n, at |-> glModelView, through |-> glProjection]
    <2>1. /\ Returns /\ Kind(n) = "geometry" /\ ~Idle /\ Top.child = 0 /\ UNCHANGED matrixVars
          /\ drawn' = IF Draws(n) THEN Append(drawn, d) ELSE drawn
        BY <1>14 DEF VisitGeometry, Entering, Returns
    <2>2. Around = Outer(n) /\ Around' = Outer(n) /\ n \in Nodes /\ Outer(n) \in Nodes
        BY <1>1, <1>2, <2>1, AroundReturns, TopFacts, AroundInNodes
    <2>3. ProjectionAt[n] = ProjectionAt[Outer(n)]
        <3>1. Kind(n) \notin {"camera", "transform"}
            BY <2>1
        <3> HIDE DEF n
        <3> QED BY <1>1, <2>2, <3>1, Pushes
    <2>4. /\ glProjection = PathProjection[n] /\ glProjection \in Seq(Nodes)
        <3>1. Last(ProjectionAt[n]) = PathProjection[n] /\ Last(ProjectionAt[n]) \in Seq(Nodes)
            BY <1>1, <2>2, TopsAreThePath, StackFacts
        <3> QED BY <1>1, <2>2, <2>3, <3>1
    <2>5. d \in Drawings /\ d.geometry = n /\ d.through = glProjection
        BY <1>1, <2>2, <2>4 DEF Drawings
    <2> HIDE DEF d, n
    <2>6. /\ Append(drawn, d) \in Seq(Drawings)
          /\ \A i \in DOMAIN Append(drawn, d) :
                Append(drawn, d)[i].through = PathProjection[Append(drawn, d)[i].geometry]
        <3>1. /\ Append(drawn, d) \in Seq(Drawings) /\ Len(drawn) \in Nat
              /\ DOMAIN drawn = 1..Len(drawn)
              /\ DOMAIN Append(drawn, d) = 1..(Len(drawn) + 1)
              /\ Append(drawn, d)[Len(drawn) + 1] = d
              /\ \A i \in 1..Len(drawn) : Append(drawn, d)[i] = drawn[i]
            BY <1>1, <2>5
        <3>2. \A i \in 1..(Len(drawn) + 1) : i \in 1..Len(drawn) \/ i = Len(drawn) + 1
            BY <3>1
        <3> QED BY <1>1, <2>4, <2>5, <3>1, <3>2
    <2> QED BY <1>1, <2>1, <2>2, <2>6 DEF matrixVars
<1>15. CASE (\E n \in Nodes : SetVisibility(n) \/ ChangeLight(n) \/ ReplaceLight(n)) \/ UNCHANGED vars
    <2>1. UNCHANGED matrixVars /\ UNCHANGED drawn /\ UNCHANGED calls
        BY <1>15 DEF SetVisibility, ChangeLight, ReplaceLight, vars
    <2>2. Around' = Around
        BY <1>2, <2>1 DEF Around, Idle, Top, Outer
    <2> QED BY <1>5, <2>1, <2>2
<1> QED
    BY <1>6, <1>7, <1>8, <1>9, <1>10, <1>11, <1>12, <1>13, <1>14, <1>15 DEF Next, Visitor

\* The invariant of the matrices.
LEMMA MatricesAlways == Spec /\ Shallow => []Matrices
<1>1. Init /\ Shallow => Matrices
    BY MatricesStart
<1>2. Matrices /\ [Next]_vars => Matrices'
    BY MatricesKeep
<1> QED
    BY <1>1, <1>2, PTL DEF Spec

\* MatricesFollowThePath: every push of VisitCamera and VisitTransform has its
\* pop, in every graph no path of which has as many cameras and transforms as
\* the stacks are deep.
THEOREM MatricesAreThoseOfThePath == Spec /\ Shallow => []MatricesFollowThePath
<1>1. ASSUME Matrices PROVE MatricesFollowThePath
    <2>1. /\ Walk /\ scene \in Scenes
          /\ modelView = ModelViewAt[Around] /\ projection = ProjectionAt[Around]
        BY <1>1 DEF Matrices, Walk, OnPath
    <2>2. CASE Idle
        BY <2>1, <2>2, ModelViewAtExists, ProjectionAtExists
           DEF Around, IsModelViewAt, IsProjectionAt, MatricesFollowThePath
    <2>3. CASE ~Idle /\ Top.child > 0
        <3>1. Around = Top.node /\ Top.node \in Nodes
            BY <2>1, <2>3, TopFacts DEF Around
        <3> QED BY <2>1, <2>3, <3>1, TopsAreThePath DEF MatricesFollowThePath
    <2> QED BY <2>2, <2>3 DEF MatricesFollowThePath
<1> QED
    BY <1>1, MatricesAlways, PTL

\* StacksInsideArrays: such a graph never reaches the element behind the arrays
\* of GLMatrixStack, though the guard of PushMatrix would let it.
THEOREM StacksStayInside == Spec /\ Shallow => []StacksInsideArrays
<1>1. ASSUME Matrices PROVE StacksInsideArrays
    <2>1. /\ Around \in Nodes /\ scene \in Scenes /\ Shallow
          /\ modelView = ModelViewAt[Around] /\ projection = ProjectionAt[Around]
        BY <1>1, AroundInNodes DEF Matrices, Walk, OnPath
    <2>2. /\ Cardinality(Stacking(Around)) \in Nat
          /\ Cardinality(Stacking(Around)) < StackDepth
          /\ Len(modelView) <= Cardinality(Stacking(Around)) + 1
          /\ Len(projection) <= Cardinality(Stacking(Around)) + 1
        BY <2>1, StacksAreShallow DEF Shallow
    <2>3. Len(modelView) \in Nat /\ Len(projection) \in Nat
        BY <2>1, TopsAreThePath, StackFacts
    <2> QED BY <2>2, <2>3, StackDepthAssumption DEF StacksInsideArrays, InsideArray
<1> QED
    BY <1>1, MatricesAlways, PTL

\* DrawnThroughItsCamera: leaving a camera gives OpenGL the outer projection
\* back, so every geometry is projected through the nearest camera above it.
THEOREM TheNearestCameraProjects == Spec /\ Shallow => []DrawnThroughItsCamera
<1>1. Matrices => DrawnThroughItsCamera
    BY DEF Matrices
<1> QED
    BY <1>1, MatricesAlways, PTL
-----------------------------------------------------------------------------
(* The matrix OpenGL has, which leaving a transform does not restore.      *)

\* A transform that has just been entered, and a geometry that is alone below
\* its transform, find the visitor's matrix in OpenGL.
UpToDate ==
    ~Idle /\ (\/ Kind(Top.node) = "transform" /\ Top.child = 1
              \/ Kind(Top.node) = "geometry" /\ Top.child = 0)
        => glModelView = Last(modelView)

Restored == GeometriesAlone => UpToDate /\ DrawnWhereItBelongs

\* The shape of the graph does not change.
LEMMA AloneFixed ==
    UNCHANGED scene => (GeometriesAlone' <=> GeometriesAlone)
<1> SUFFICES ASSUME UNCHANGED scene PROVE GeometriesAlone' <=> GeometriesAlone
    OBVIOUS
<1>1. scene' = scene
    OBVIOUS
<1> QED
    BY <1>1 DEF GeometriesAlone, Kids, Kind

\* Nothing is drawn at the start.
LEMMA RestoredStarts == Init => Restored
<1> SUFFICES ASSUME Init PROVE UpToDate /\ DrawnWhereItBelongs
    BY DEF Restored
<1>1. Idle /\ drawn = <<>>
    BY DEF Init, Idle
<1> QED
    BY <1>1 DEF UpToDate, DrawnWhereItBelongs

\* Only a geometry can follow the entry of its transform.
LEMMA RestoredKeeps == Matrices /\ Matrices' /\ Restored /\ [Next]_vars => Restored'
<1> SUFFICES ASSUME Matrices, Matrices', Restored, [Next]_vars, GeometriesAlone'
             PROVE  UpToDate' /\ DrawnWhereItBelongs'
    BY DEF Restored
<1>1. /\ Walk /\ scene \in Scenes /\ UNCHANGED scene
      /\ modelView = ModelViewAt[Around]
      /\ drawn \in Seq(Drawings)
      /\ PathModelView' = PathModelView
      /\ \A n : Kind(n)' = Kind(n)
    BY Movements, TablesFixed DEF Matrices, Walk, OnPath, Kind
<1>2. GeometriesAlone /\ UpToDate /\ DrawnWhereItBelongs
    BY <1>1, AloneFixed DEF Restored
<1>3. ASSUME UNCHANGED drawn PROVE DrawnWhereItBelongs'
    BY <1>1, <1>2, <1>3 DEF DrawnWhereItBelongs
<1>4. ASSUME Returns, UNCHANGED scene, Top.child > 0 \/ Kind(Top.node) = "geometry"
      PROVE  UpToDate'
    <2>1. ~Idle' => Top'.child \in Nat \ {0, 1}
        BY <1>1, <1>4, AroundReturns
    <2> QED BY <2>1 DEF UpToDate
<1>5. CASE BeginFrame
    <2>1. Begins /\ drawn' = <<>>
        BY <1>5 DEF BeginFrame, Begins, Idle
    <2>2. Top'.node = 1 /\ Kind(1)' = "group"
        BY <1>1, <2>1, AroundBegins, TreeFacts DEF Kind
    <2>3. UpToDate'
        BY <1>1, <2>2, TreeFacts DEF UpToDate, Kind
    <2>4. DrawnWhereItBelongs'
        BY <2>1 DEF DrawnWhereItBelongs
    <2> QED BY <2>3, <2>4
<1>6. CASE TraverseChild
    <2> DEFINE n == Top.node
               k == Top'.node
    <2>1. Descends /\ UNCHANGED matrixVars /\ UNCHANGED drawn
        BY <1>6 DEF TraverseChild, Descends
    <2>2. /\ ~Idle /\ ~Idle' /\ Top'.child = 0 /\ k \in Nodes \ {1}
          /\ scene.par[k] = n /\ Top.child \in 1..Len(KidsTable[n]) /\ n \in Nodes
        BY <1>1, <2>1, AroundDescends, TopFacts DEF Descends
    <2>3. ASSUME Kind(k) = "geometry" PROVE glModelView = Last(modelView)
        <3>1. Kind(n) = "transform" /\ Kids(n) = <<k>>
            BY <1>2, <2>2, <2>3 DEF GeometriesAlone
        <3>2. KidsTable[n] = <<k>>
            BY <2>2, <3>1 DEF KidsTable
        <3>3. Top.child = 1
            BY <2>2, <3>2
        <3> QED BY <1>2, <2>2, <3>1, <3>3 DEF UpToDate
    <2>4. UpToDate'
        <3>1. /\ scene'.kind[k] = scene.kind[k]
              /\ glModelView' = glModelView /\ modelView' = modelView
            BY <1>1, <2>1 DEF matrixVars
        <3> QED BY <2>2, <2>3, <3>1 DEF UpToDate, Kind
    <2> QED BY <1>3, <2>1, <2>4
<1>7. CASE EnterGroup \/ EnterLight \/ EnterCamera
    <2>1. Enters /\ ~Idle /\ UNCHANGED drawn /\ Kind(Top.node) \in {"group", "light", "camera"}
        BY <1>7 DEF EnterGroup, EnterLight, EnterCamera, Enters, Entering
    <2>2. Top'.node = Top.node
        BY <1>1, <2>1, AroundEnters
    <2>3. scene'.kind[Top'.node] \in {"group", "light", "camera"}
        BY <1>1, <2>1, <2>2 DEF Kind
    <2>4. UpToDate'
        BY <2>3 DEF UpToDate, Kind
    <2> QED BY <1>3, <2>1, <2>4
<1>8. CASE EnterTransform
    BY <1>3, <1>8 DEF EnterTransform, UpToDate
<1>9. CASE LeavePlain \/ LeaveCamera \/ LeaveTransform
    <2>1. Returns /\ ChildrenDone /\ UNCHANGED drawn
        BY <1>9 DEF LeavePlain, LeaveCamera, LeaveTransform, Leaving, ChildrenDone, Returns
    <2>2. UpToDate'
        BY <1>1, <1>4, <2>1, LeavingFacts
    <2> QED BY <1>3, <2>1, <2>2
<1>10. CASE VisitGeometry
    <2> DEFINE n == Top.node
               d == [geometry |-> n, at |-> glModelView, through |-> glProjection]
    <2>1. /\ Returns /\ Kind(n) = "geometry" /\ ~Idle /\ Top.child = 0
          /\ drawn' = IF Draws(n) THEN Append(drawn, d) ELSE drawn
        BY <1>10 DEF VisitGeometry, Entering, Returns
    <2>2. UpToDate'
        BY <1>1, <1>4, <2>1
    <2>3. glModelView = Last(modelView)
        BY <1>2, <2>1 DEF UpToDate
    <2>4. Around = Outer(n) /\ n \in Nodes
        BY <1>1, <2>1, AroundReturns, TopFacts
    <2>5. ModelViewAt[n] = ModelViewAt[Outer(n)]
        <3>1. Kind(n) \notin {"camera", "transform"} /\ Shallow
            BY <2>1 DEF Matrices
        <3> HIDE DEF n
        <3> QED BY <1>1, <2>4, <3>1, Pushes
    <2>6. glModelView = PathModelView[n]
        BY <1>1, <2>3, <2>4, <2>5, TopsAreThePath
    <2>7. /\ drawn' \in Seq(Drawings) /\ d.geometry = n /\ d.at = glModelView
        BY DEF Matrices
    <2> HIDE DEF n, d
    <2>8. \A i \in DOMAIN drawn' : drawn'[i].at = PathModelView[drawn'[i].geometry]
        <3>1. CASE drawn' = Append(drawn, d)
            <4>1. /\ Len(drawn) \in Nat /\ DOMAIN drawn = 1..Len(drawn)
                  /\ DOMAIN drawn' = 1..(Len(drawn) + 1)
                  /\ drawn'[Len(drawn) + 1] = d
                  /\ \A i \in 1..Len(drawn) : drawn'[i] = drawn[i]
                BY <1>1, <3>1
            <4>2. \A i \in 1..(Len(drawn) + 1) : i \in 1..Len(drawn) \/ i = Len(drawn) + 1
                BY <4>1
            <4>3. \A i \in 1..Len(drawn) : drawn[i].at = PathModelView[drawn[i].geometry]
                BY <1>2, <4>1 DEF DrawnWhereItBelongs
            <4> QED BY <2>6, <2>7, <4>1, <4>2, <4>3
        <3>2. CASE drawn' = drawn
            BY <1>2, <3>2 DEF DrawnWhereItBelongs
        <3> QED BY <2>1, <3>1, <3>2
    <2>9. DrawnWhereItBelongs'
        BY <1>1, <2>8 DEF DrawnWhereItBelongs
    <2> QED BY <2>2, <2>9
<1>11. CASE (\E n \in Nodes : SetVisibility(n) \/ ChangeLight(n) \/ ReplaceLight(n)) \/ UNCHANGED vars
    <2>1. UNCHANGED matrixVars /\ UNCHANGED drawn /\ UNCHANGED calls
        BY <1>11 DEF SetVisibility, ChangeLight, ReplaceLight, vars
    <2>2. UpToDate'
        BY <1>1, <1>2, <2>1 DEF UpToDate, Idle, Top, Kind, matrixVars
    <2> QED BY <1>3, <2>1, <2>2
<1> QED
    BY <1>5, <1>6, <1>7, <1>8, <1>9, <1>10, <1>11 DEF Next, Visitor

\* ApplicationsAreDrawnRight: where every geometry is alone below its
\* transform, no drawing ever meets the matrix that LeaveTransform leaves
\* behind in OpenGL.
THEOREM GeometriesAloneAreDrawnRight == Spec /\ Shallow => []ApplicationsAreDrawnRight
<1>1. Init => Restored
    BY RestoredStarts
<1>2. Matrices /\ Matrices' /\ Restored /\ [Next]_vars => Restored'
    BY RestoredKeeps
<1>3. Restored => ApplicationsAreDrawnRight
    BY DEF Restored, ApplicationsAreDrawnRight
<1> QED
    BY <1>1, <1>2, <1>3, MatricesAlways, PTL DEF Spec
-----------------------------------------------------------------------------
(* The matrix under which OpenGL takes the position of a light.            *)

\* The nodes that are neither a camera nor below one.
Uncovered == {n \in Nodes : Kind(n) # "camera" /\ \A m \in Above[n] : Kind(m) # "camera"}

Still == LightsFirst => /\ Around \in Uncovered => glModelView = Identity
                        /\ \A i \in DOMAIN glLights : glLights[i].under = Identity

\* No camera is above a node iff it is none and none is above its parent.
LEMMA UncoveredUnfolds ==
    ASSUME scene \in Scenes, NEW n \in Nodes
    PROVE  /\ n \in Uncovered <=> Kind(n) # "camera" /\ Outer(n) \in Uncovered
           /\ Outer(n) \in Nodes
<1>1. CASE n = 1
    <2>1. Kind(1) = "group"
        BY TreeFacts DEF Kind
    <2> QED BY <1>1, <2>1 DEF Outer
<1>2. CASE n # 1
    <2>1. Outer(n) = scene.par[n] /\ Outer(n) \in Nodes
        BY <1>2, TreeFacts DEF Outer
    <2>2. Above[n] = {Outer(n)} \cup Above[Outer(n)]
        BY <1>2, <2>1, AboveUnfolds
    <2> QED BY <2>1, <2>2 DEF Uncovered
<1> QED
    BY <1>1, <1>2

\* Where a camera is above every transform, nothing is multiplied onto the
\* matrix of a node that no camera is above.
LEMMA UncoveredIsIdentity ==
    ASSUME scene \in Scenes, LightsFirst
    PROVE  \A n \in Uncovered : PathModelView[n] = Identity
<1> DEFINE P == {n \in Nodes : n \in Uncovered => PathModelView[n] = Identity}
<1>1. \A n \in Uncovered : Kind(n) # "camera" /\ Kind(n) # "transform" /\ n \in Nodes
    BY DEF Uncovered, LightsFirst
<1>2. \A n \in Uncovered : PathModelView[n] = IF n = 1 THEN Identity ELSE PathModelView[scene.par[n]]
    BY <1>1, ModelViewUnfolds
<1>3. 1 \in P
    BY <1>2, SizeAssumption DEF Nodes
<1>4. ASSUME NEW n \in Nodes \ {1}, scene.par[n] \in P PROVE n \in P
    <2>1. n \in Uncovered => scene.par[n] \in Uncovered
        BY UncoveredUnfolds DEF Outer
    <2> QED BY <1>2, <1>4, <2>1
<1>5. Nodes \subseteq P
    <2> HIDE DEF P
    <2> QED BY <1>3, <1>4, TreeInduction
<1> QED
    BY <1>1, <1>5

\* OpenGL starts with the identity.
LEMMA StillStarts == Init => Still
<1> SUFFICES ASSUME Init PROVE Still
    OBVIOUS
<1>1. glModelView = Identity /\ glLights = [i \in 0..(MaxLights-1) |-> Unset]
    BY DEF Init
<1>2. Unset.under = Identity
    BY DEF Unset
<1> QED
    BY <1>1, <1>2 DEF Still

\* Leaving the outermost camera gives OpenGL the identity back.
LEMMA StillKeeps == Matrices /\ Matrices' /\ Still /\ [Next]_vars => Still'
<1> SUFFICES ASSUME Matrices, Matrices', Still, [Next]_vars, LightsFirst'
             PROVE  /\ Around' \in Uncovered' => glModelView' = Identity
                    /\ \A i \in DOMAIN glLights' : glLights'[i].under = Identity
    BY DEF Still, Identity
<1>1. /\ Walk /\ scene \in Scenes /\ UNCHANGED scene
      /\ UNCHANGED Above /\ UNCHANGED PathModelView
    BY Movements, SceneFixed DEF Matrices, Walk, OnPath
<1>2. UNCHANGED Uncovered /\ LightsFirst
    BY <1>1 DEF Uncovered, LightsFirst, Kind
<1>3. /\ Around \in Uncovered => glModelView = Identity
      /\ \A i \in DOMAIN glLights : glLights[i].under = Identity
    BY <1>2 DEF Still
<1>4. ASSUME UNCHANGED glModelView, UNCHANGED glLights, Around' \in Uncovered => Around \in Uncovered
      PROVE  /\ Around' \in Uncovered' => glModelView' = Identity
             /\ \A i \in DOMAIN glLights' : glLights'[i].under = Identity
    BY <1>2, <1>3, <1>4
<1>5. CASE BeginFrame
    <2>1. Begins /\ UNCHANGED glModelView /\ UNCHANGED glLights
        BY <1>5 DEF BeginFrame, Begins, Idle, matrixVars, lightVars
    <2> QED BY <1>4, <2>1, AroundBegins
<1>6. CASE TraverseChild
    <2>1. Descends /\ UNCHANGED glModelView /\ UNCHANGED glLights
        BY <1>6 DEF TraverseChild, Descends, matrixVars, lightVars
    <2> QED BY <1>1, <1>4, <2>1, AroundDescends
<1>7. CASE EnterGroup
    <2>1. Enters /\ ~Idle /\ UNCHANGED glModelView /\ UNCHANGED glLights
        BY <1>7 DEF EnterGroup, Entering, Enters, matrixVars, lightVars
    <2>2. Around = Outer(Top.node) /\ Around' = Top.node /\ Top.node \in Nodes
        BY <1>1, <2>1, AroundEnters, TopFacts
    <2> QED BY <1>1, <1>4, <2>1, <2>2, UncoveredUnfolds
<1>8. CASE EnterLight
    <2> DEFINE n == Top.node
               l == Numbered(lights[n])
    <2>1. /\ Enters /\ ~Idle /\ UNCHANGED glModelView /\ Kind(n) = "light"
          /\ glLights' = Uploaded(n, l)
        BY <1>8 DEF EnterLight, Entering, Enters, matrixVars
    <2>2. Around = Outer(n) /\ Around' = n /\ n \in Nodes
        BY <1>1, <2>1, AroundEnters, TopFacts
    <2>3. n \in Uncovered
        BY <1>2, <2>1, <2>2 DEF Uncovered, LightsFirst
    <2>4. glModelView = Identity
        BY <1>1, <1>3, <2>2, <2>3, UncoveredUnfolds
    <2> HIDE DEF n, l
    <2>5. \A i \in DOMAIN glLights' : glLights'[i].under = Identity
        BY <1>3, <2>1, <2>4 DEF Uploaded
    <2> QED BY <2>1, <2>4, <2>5
<1>9. CASE EnterCamera \/ EnterTransform
    <2>1. Enters /\ ~Idle /\ Kind(Top.node) \in {"camera", "transform"} /\ UNCHANGED glLights
        BY <1>9 DEF EnterCamera, EnterTransform, Entering, Enters, lightVars
    <2>2. Around' = Top.node /\ Top.node \in Nodes
        BY <1>1, <2>1, AroundEnters, TopFacts
    <2>3. Top.node \notin Uncovered
        BY <1>2, <2>1, <2>2 DEF Uncovered, LightsFirst
    <2> QED BY <1>2, <1>3, <2>1, <2>2, <2>3
<1>10. CASE LeavePlain \/ LeaveTransform
    <2>1. /\ Returns /\ ChildrenDone /\ UNCHANGED glModelView /\ UNCHANGED glLights
          /\ Kind(Top.node) \in {"group", "light", "transform"}
        BY <1>10 DEF LeavePlain, LeaveTransform, Leaving, ChildrenDone, Returns, matrixVars, lightVars
    <2>2. Around = Top.node /\ Around' = Outer(Top.node) /\ Top.node \in Nodes
        BY <1>1, <2>1, AroundReturns, LeavingFacts
    <2>3. Outer(Top.node) \in Uncovered => Top.node \in Uncovered
        BY <1>1, <2>1, <2>2, UncoveredUnfolds
    <2> QED BY <1>4, <2>1, <2>2, <2>3
<1>11. CASE LeaveCamera
    <2> DEFINE n == Top.node
    <2>1. /\ Returns /\ ChildrenDone /\ UNCHANGED glLights /\ Kind(n) = "camera"
          /\ modelView' = PopMatrix(modelView) /\ glModelView' = Last(modelView')
        BY <1>11 DEF LeaveCamera, Leaving, ChildrenDone, Returns, lightVars, ReloadedModelView
    <2>2. Around = n /\ Around' = Outer(n) /\ n \in Nodes /\ Outer(n) \in Nodes
        BY <1>1, <2>1, AroundReturns, LeavingFacts, AroundInNodes
    <2>3. modelView' = ModelViewAt[Outer(n)]
        <3> HIDE DEF n
        <3> QED BY <1>1, <2>1, <2>2, Pops DEF Matrices
    <2>4. glModelView' = PathModelView[Outer(n)]
        BY <1>1, <2>1, <2>2, <2>3, TopsAreThePath
    <2> QED BY <1>1, <1>2, <1>3, <2>1, <2>2, <2>4, UncoveredIsIdentity
<1>12. CASE VisitGeometry
    <2>1. /\ Returns /\ ~Idle /\ Top.child = 0 /\ UNCHANGED glModelView /\ UNCHANGED glLights
        BY <1>12 DEF VisitGeometry, Entering, Returns, matrixVars, lightVars
    <2>2. Around' = Around
        BY <1>1, <2>1, AroundReturns
    <2> QED BY <1>4, <2>1, <2>2
<1>13. CASE (\E n \in Nodes : SetVisibility(n) \/ ChangeLight(n) \/ ReplaceLight(n)) \/ UNCHANGED vars
    <2>1. UNCHANGED glModelView /\ UNCHANGED glLights /\ UNCHANGED calls
        BY <1>13 DEF SetVisibility, ChangeLight, ReplaceLight, vars, matrixVars, lightVars
    <2>2. Around' = Around
        BY <1>1, <2>1 DEF Around, Idle, Top, Outer
    <2> QED BY <1>4, <2>1, <2>2
<1> QED
    BY <1>5, <1>6, <1>7, <1>8, <1>9, <1>10, <1>11, <1>12, <1>13 DEF Next, Visitor

\* LightsStandStill: where no camera or transform is above a light and a camera
\* is above every transform, OpenGL has the identity whenever it is given the
\* position of a light, in the first frame and in all later ones.
THEOREM LightsAreNotMoved == Spec /\ Shallow => []LightsStandStill
<1>1. Init => Still
    BY StillStarts
<1>2. Matrices /\ Matrices' /\ Still /\ [Next]_vars => Still'
    BY StillKeeps
<1>3. Still => LightsStandStill
    BY DEF Still, LightsStandStill
<1> QED
    BY <1>1, <1>2, <1>3, MatricesAlways, PTL DEF Spec
-----------------------------------------------------------------------------
(* The light units.                                                        *)

LightRecord == [state : BOOLEAN, number : Nat, changed : BOOLEAN, value : {0, 1}]

\* Every light that has a number has one below the counter and of its own.
Numbers ==
    /\ scene \in Scenes
    /\ lightCounter \in Nat
    /\ lights \in [LightNodes -> LightRecord]
    /\ \A n \in LightNodes : lights[n].state => lights[n].number < lightCounter
    /\ LightsHaveTheirOwnUnit

\* How a step changes the lights and what OpenGL knows of them.
Visits(n) ==
    LET l == Numbered(lights[n])
    IN  /\ n \in LightNodes
        /\ lightCounter' = CounterAfter(lights[n])
        /\ glLights' = Uploaded(n, l)
        /\ lights' = [lights EXCEPT ![n] = [l EXCEPT !.changed = FALSE]]
        /\ glEnabled' = glEnabled \cup ({l.number} \cap 0..(MaxLights-1))
        /\ UNCHANGED created
Sets(n) ==
    /\ n \in LightNodes
    /\ lights' = [lights EXCEPT ![n] = SetLight(n)]
    /\ UNCHANGED <<lightCounter, glLights, glEnabled, created>>
Renews(n) ==
    /\ n \in LightNodes /\ created < LightBudget /\ created' = created + 1
    /\ \E c \in InitialChanged : lights' = [lights EXCEPT ![n] = NewLight(c)]
    /\ UNCHANGED <<lightCounter, glLights, glEnabled>>

\* What a step can do to the lights.
LEMMA LightSteps ==
    ASSUME Walk, [Next]_vars
    PROVE  /\ UNCHANGED scene /\ UNCHANGED LightNodes
           /\ \/ \E n \in LightNodes : Visits(n) \/ Sets(n) \/ Renews(n)
              \/ UNCHANGED <<lightVars, created>>
<1>1. UNCHANGED scene /\ UNCHANGED LightNodes
    BY Movements DEF LightNodes, Kind
<1>2. CASE EnterLight
    <2>1. Visits(Top.node)
        <3>1. Top.node \in LightNodes
            BY <1>2, TopFacts DEF EnterLight, Entering, LightNodes
        <3> QED BY <1>2, <3>1 DEF EnterLight, Visits
    <2> QED BY <1>1, <2>1 DEF Visits
<1>3. CASE \E n \in Nodes : SetVisibility(n) \/ ChangeLight(n) \/ ReplaceLight(n)
    <2>1. PICK n \in Nodes : SetVisibility(n) \/ ChangeLight(n) \/ ReplaceLight(n)
        BY <1>3
    <2>2. ChangeLight(n) => Sets(n)
        BY DEF ChangeLight, Sets
    <2>3. ReplaceLight(n) => Renews(n)
        BY DEF ReplaceLight, Renews
    <2>4. SetVisibility(n) => UNCHANGED <<lightVars, created>>
        BY DEF SetVisibility
    <2> QED BY <1>1, <2>1, <2>2, <2>3, <2>4 DEF Sets, Renews
<1>4. CASE \/ BeginFrame \/ TraverseChild \/ EnterGroup \/ LeavePlain \/ EnterCamera \/ LeaveCamera
           \/ EnterTransform \/ LeaveTransform \/ VisitGeometry \/ UNCHANGED vars
    <2>1. UNCHANGED <<lightVars, created>>
        BY <1>4 DEF BeginFrame, TraverseChild, EnterGroup, LeavePlain, EnterCamera, LeaveCamera,
                    EnterTransform, LeaveTransform, VisitGeometry, vars
    <2> QED BY <1>1, <2>1
<1> QED
    BY <1>2, <1>3, <1>4 DEF Next, Visitor

\* No light has a number at the start.
LEMMA NumbersStart == Init => Numbers
<1> SUFFICES ASSUME Init PROVE Numbers
    OBVIOUS
<1>1. PICK c \in [LightNodes -> InitialChanged] : lights = [n \in LightNodes |-> NewLight(c[n])]
    BY DEF Init
<1>2. \A b \in InitialChanged : NewLight(b) \in LightRecord /\ NewLight(b).state = FALSE
    BY ChangedAssumption DEF NewLight, LightRecord
<1>3. \A n \in LightNodes : lights[n] \in LightRecord /\ lights[n].state = FALSE
    BY <1>1, <1>2
<1>4. lights \in [LightNodes -> LightRecord]
    BY <1>1, <1>3
<1> QED
    BY <1>3, <1>4 DEF Init, Numbers, LightsHaveTheirOwnUnit

\* A light after a step, and the lights the step does not touch.
LEMMA VisitedLight ==
    ASSUME Numbers, NEW n \in LightNodes, Visits(n)
    PROVE  /\ lights' \in [LightNodes -> LightRecord]
           /\ \A m \in LightNodes \ {n} : lights'[m] = lights[m]
           /\ lights'[n].state = TRUE /\ lights'[n].changed = FALSE
           /\ lights'[n].value = lights[n].value
           /\ lights'[n].number = IF lights[n].state THEN lights[n].number ELSE lightCounter
           /\ lightCounter' = IF lights[n].state THEN lightCounter ELSE lightCounter + 1
<1> DEFINE l == Numbered(lights[n])
           r == [l EXCEPT !.changed = FALSE]
<1>1. lights[n] \in LightRecord /\ lights \in [LightNodes -> LightRecord] /\ lightCounter \in Nat
    BY DEF Numbers
<1>2. /\ l \in LightRecord /\ l.state = TRUE /\ l.value = lights[n].value
      /\ l.number = IF lights[n].state THEN lights[n].number ELSE lightCounter
    BY <1>1 DEF Numbered, LightRecord
<1> HIDE DEF l
<1>3. /\ r \in LightRecord /\ r.state = l.state /\ r.value = l.value
      /\ r.number = l.number /\ r.changed = FALSE
    BY <1>2 DEF LightRecord
<1>4. lights' = [lights EXCEPT ![n] = r]
    BY DEF Visits, l
<1> HIDE DEF r
<1>5. /\ lights' \in [LightNodes -> LightRecord] /\ lights'[n] = r
      /\ \A m \in LightNodes \ {n} : lights'[m] = lights[m]
    BY <1>1, <1>3, <1>4
<1> QED
    BY <1>2, <1>3, <1>5 DEF Visits, CounterAfter

\* A number is only given together with an increment of the counter.
LEMMA NumbersKeep == Walk /\ Numbers /\ [Next]_vars => Numbers'
<1> SUFFICES ASSUME Walk, Numbers, [Next]_vars PROVE Numbers'
    OBVIOUS
<1>1. /\ UNCHANGED scene /\ LightNodes' = LightNodes
      /\ scene \in Scenes /\ lightCounter \in Nat /\ lights \in [LightNodes -> LightRecord]
      /\ \A n \in LightNodes : lights[n].state => lights[n].number < lightCounter
      /\ \A m, n \in LightNodes :
            m # n /\ lights[m].state /\ lights[n].state => lights[m].number # lights[n].number
    BY LightSteps DEF Numbers, LightsHaveTheirOwnUnit
<1>2. SUFFICES
        /\ lightCounter' \in Nat /\ lights' \in [LightNodes -> LightRecord]
        /\ \A n \in LightNodes : lights'[n].state => lights'[n].number < lightCounter'
        /\ \A m, n \in LightNodes :
              m # n /\ lights'[m].state /\ lights'[n].state => lights'[m].number # lights'[n].number
    BY <1>1 DEF Numbers, LightsHaveTheirOwnUnit
<1>3. \A n \in LightNodes : lights[n].number \in Nat
    BY <1>1 DEF LightRecord
<1>4. ASSUME NEW n \in LightNodes, Visits(n)
      PROVE  /\ lightCounter' \in Nat /\ lights' \in [LightNodes -> LightRecord]
             /\ \A k \in LightNodes : lights'[k].state => lights'[k].number < lightCounter'
             /\ \A m, k \in LightNodes :
                   m # k /\ lights'[m].state /\ lights'[k].state => lights'[m].number # lights'[k].number
    <2>1. /\ lights' \in [LightNodes -> LightRecord]
          /\ \A m \in LightNodes \ {n} : lights'[m] = lights[m]
          /\ lights'[n].number = IF lights[n].state THEN lights[n].number ELSE lightCounter
          /\ lightCounter' = IF lights[n].state THEN lightCounter ELSE lightCounter + 1
        BY <1>4, VisitedLight
    <2>2. CASE lights[n].state
        BY <1>1, <2>1, <2>2
    <2>3. CASE ~lights[n].state
        BY <1>1, <1>3, <2>1, <2>3
    <2> QED BY <2>2, <2>3
<1>5. ASSUME NEW n \in LightNodes, NEW r \in LightRecord, lights' = [lights EXCEPT ![n] = r],
             r.state => lights[n].state /\ r.number = lights[n].number, UNCHANGED lightCounter
      PROVE  /\ lightCounter' \in Nat /\ lights' \in [LightNodes -> LightRecord]
             /\ \A k \in LightNodes : lights'[k].state => lights'[k].number < lightCounter'
             /\ \A m, k \in LightNodes :
                   m # k /\ lights'[m].state /\ lights'[k].state => lights'[m].number # lights'[k].number
    <2>1. /\ lights' \in [LightNodes -> LightRecord] /\ lights'[n] = r
          /\ \A m \in LightNodes \ {n} : lights'[m] = lights[m]
        BY <1>1, <1>5
    <2>2. \A m \in LightNodes :
             lights'[m].state => lights[m].state /\ lights'[m].number = lights[m].number
        BY <1>5, <2>1
    <2> QED BY <1>1, <1>5, <2>1, <2>2
<1>6. ASSUME NEW n \in LightNodes, Sets(n)
      PROVE  \E r \in LightRecord : /\ lights' = [lights EXCEPT ![n] = r]
                                    /\ r.state = lights[n].state /\ r.number = lights[n].number
    <2>1. lights[n] \in LightRecord
        BY <1>1
    <2>2. \A v \in {0, 1} : 1 - v \in {0, 1}
        OBVIOUS
    <2>3. SetLight(n) \in LightRecord /\ SetLight(n).state = lights[n].state
          /\ SetLight(n).number = lights[n].number
        BY <2>1, <2>2 DEF SetLight, LightRecord
    <2> QED BY <1>6, <2>3 DEF Sets
<1>7. ASSUME NEW n \in LightNodes, Renews(n)
      PROVE  \E r \in LightRecord : lights' = [lights EXCEPT ![n] = r] /\ r.state = FALSE
    <2>1. PICK c \in InitialChanged : lights' = [lights EXCEPT ![n] = NewLight(c)]
        BY <1>7 DEF Renews
    <2>2. NewLight(c) \in LightRecord /\ NewLight(c).state = FALSE
        BY ChangedAssumption DEF NewLight, LightRecord
    <2> QED BY <2>1, <2>2
<1>8. CASE \E n \in LightNodes : Visits(n) \/ Sets(n) \/ Renews(n)
    <2>1. PICK n \in LightNodes : Visits(n) \/ Sets(n) \/ Renews(n)
        BY <1>8
    <2>2. Sets(n) \/ Renews(n) => UNCHANGED lightCounter
        BY DEF Sets, Renews
    <2> QED BY <1>4, <1>5, <1>6, <1>7, <2>1, <2>2
<1>9. CASE UNCHANGED <<lightVars, created>>
    BY <1>1, <1>9 DEF lightVars
<1> QED
    BY <1>8, <1>9, LightSteps

\* LightsHaveTheirOwnUnit: a light keeps the number it was given and the counter
\* only grows, so no light, of any number of lights that come and go, takes the
\* unit of another.
THEOREM NoUnitIsShared == Spec => []LightsHaveTheirOwnUnit
<1>1. Init => Walk /\ Numbers
    BY WalkStarts, NumbersStart
<1>2. Walk /\ Numbers /\ [Next]_vars => Walk' /\ Numbers'
    BY WalkKeeps, NumbersKeep
<1>3. Numbers => LightsHaveTheirOwnUnit
    BY DEF Numbers
<1> QED
    BY <1>1, <1>2, <1>3, PTL DEF Spec

\* The lights that no visit has numbered yet.
Unnumbered == {n \in LightNodes : ~lights[n].state}

\* The lights of the first frame are within the number of lights built.
FewLights == Cardinality(LightNodes) <= LightBudget

Uploads ==
    /\ Walk /\ Numbers
    /\ created \in 0..LightBudget
    /\ lightCounter + Cardinality(Unnumbered) <= created
    /\ DOMAIN glLights = 0..(MaxLights-1)
    /\ glEnabled \subseteq 0..(MaxLights-1)
    /\ \A n \in Unnumbered : lights[n].changed
    /\ LightsAreUploaded

\* There are finitely many lights.
LEMMA LightNodesFinite ==
    ASSUME scene \in Scenes
    PROVE  /\ IsFiniteSet(LightNodes) /\ Cardinality(LightNodes) \in Nat
           /\ \A X \in SUBSET LightNodes : IsFiniteSet(X) /\ Cardinality(X) \in Nat
<1>1. IsFiniteSet(Nodes)
    BY SizeAssumption, FS_Interval DEF Nodes
<1>2. IsFiniteSet(LightNodes)
    BY <1>1, FS_Subset DEF LightNodes
<1> QED
    BY <1>2, FS_Subset, FS_CardinalityType

\* Every light of the first frame is marked as changed.
LEMMA UploadsStart == InitialChanged = {TRUE} /\ Init /\ FewLights => Uploads
<1> SUFFICES ASSUME InitialChanged = {TRUE}, Init, FewLights PROVE Uploads
    OBVIOUS
<1>1. Walk /\ Numbers /\ scene \in Scenes
    BY WalkStarts, NumbersStart DEF Init
<1>2. PICK c \in [LightNodes -> InitialChanged] : lights = [n \in LightNodes |-> NewLight(c[n])]
    BY DEF Init
<1>3. \A n \in LightNodes : lights[n].state = FALSE /\ lights[n].changed = TRUE
    BY <1>2 DEF NewLight
<1>4. Unnumbered = LightNodes
    BY <1>3 DEF Unnumbered
<1>5. Cardinality(LightNodes) \in Nat /\ created = Cardinality(LightNodes) /\ lightCounter = 0
    BY <1>1, LightNodesFinite DEF Init
<1>6. created \in 0..LightBudget /\ lightCounter + Cardinality(Unnumbered) <= created
    BY <1>4, <1>5, LightsAssumption DEF FewLights
<1>7. LightsAreUploaded
    BY <1>3 DEF LightsAreUploaded
<1> QED
    BY <1>1, <1>3, <1>4, <1>6, <1>7 DEF Uploads, Init

\* A visit that clears the mark has uploaded the values.
LEMMA UploadsKeep ==
    InitialChanged = {TRUE} /\ LightBudget <= MaxLights /\ Uploads /\ [Next]_vars => Uploads'
<1> SUFFICES ASSUME InitialChanged = {TRUE}, LightBudget <= MaxLights, Uploads, [Next]_vars
             PROVE  Uploads'
    OBVIOUS
<1>1. /\ Walk /\ Numbers /\ Walk' /\ Numbers' /\ scene \in Scenes
      /\ UNCHANGED scene /\ LightNodes' = LightNodes
      /\ \/ \E n \in LightNodes : Visits(n) \/ Sets(n) \/ Renews(n)
         \/ UNCHANGED <<lightVars, created>>
    BY WalkKeeps, NumbersKeep, LightSteps DEF Uploads, Numbers
<1>2. /\ lightCounter \in Nat /\ lights \in [LightNodes -> LightRecord]
      /\ \A n \in LightNodes : lights[n].state => lights[n].number < lightCounter
      /\ \A m, n \in LightNodes :
            m # n /\ lights[m].state /\ lights[n].state => lights[m].number # lights[n].number
      /\ \A n \in LightNodes : lights[n].number \in Nat /\ lights[n].state \in BOOLEAN
    BY <1>1 DEF Numbers, LightsHaveTheirOwnUnit, LightRecord
<1>3. /\ created \in 0..LightBudget
      /\ lightCounter + Cardinality(Unnumbered) <= created
      /\ DOMAIN glLights = 0..(MaxLights-1) /\ glEnabled \subseteq 0..(MaxLights-1)
      /\ \A n \in LightNodes : ~lights[n].state => lights[n].changed
      /\ \A n \in LightNodes : lights[n].state /\ ~lights[n].changed =>
            /\ glLights[lights[n].number].of = n
            /\ glLights[lights[n].number].value = lights[n].value
            /\ lights[n].number \in glEnabled
    BY DEF Uploads, LightsAreUploaded, Unnumbered
<1>4. /\ Unnumbered \in SUBSET LightNodes /\ Unnumbered' \in SUBSET LightNodes
      /\ \A X \in SUBSET LightNodes : IsFiniteSet(X) /\ Cardinality(X) \in Nat
    BY <1>1, LightNodesFinite DEF Unnumbered
<1>5. SUFFICES
        /\ created' \in 0..LightBudget
        /\ lightCounter' + Cardinality(Unnumbered') <= created'
        /\ DOMAIN glLights' = 0..(MaxLights-1) /\ glEnabled' \subseteq 0..(MaxLights-1)
        /\ \A n \in LightNodes : ~lights'[n].state => lights'[n].changed
        /\ \A n \in LightNodes : lights'[n].state /\ ~lights'[n].changed =>
              /\ glLights'[lights'[n].number].of = n
              /\ glLights'[lights'[n].number].value = lights'[n].value
              /\ lights'[n].number \in glEnabled'
    BY <1>1 DEF Uploads, LightsAreUploaded, Unnumbered
<1>6. ASSUME NEW n \in LightNodes, Visits(n)
      PROVE  /\ created' \in 0..LightBudget
             /\ lightCounter' + Cardinality(Unnumbered') <= created'
             /\ DOMAIN glLights' = 0..(MaxLights-1) /\ glEnabled' \subseteq 0..(MaxLights-1)
             /\ \A k \in LightNodes : ~lights'[k].state => lights'[k].changed
             /\ \A k \in LightNodes : lights'[k].state /\ ~lights'[k].changed =>
                   /\ glLights'[lights'[k].number].of = k
                   /\ glLights'[lights'[k].number].value = lights'[k].value
                   /\ lights'[k].number \in glEnabled'
    <2> DEFINE l == Numbered(lights[n])
               u == [of |-> n, value |-> l.value, under |-> glModelView]
    <2>1. /\ lights' \in [LightNodes -> LightRecord]
          /\ \A m \in LightNodes \ {n} : lights'[m] = lights[m]
          /\ lights'[n].state = TRUE /\ lights'[n].changed = FALSE
          /\ lights'[n].value = lights[n].value
          /\ lights'[n].number = IF lights[n].state THEN lights[n].number ELSE lightCounter
          /\ lightCounter' = IF lights[n].state THEN lightCounter ELSE lightCounter + 1
        BY <1>1, <1>6, VisitedLight
    <2>2. /\ l.number = lights'[n].number /\ l.value = lights[n].value
          /\ l.changed = lights[n].changed
        <3>1. lights[n] \in LightRecord
            BY <1>2
        <3> QED BY <2>1, <3>1 DEF Numbered, LightRecord
    <2>3. /\ glLights' = IF l.changed /\ l.number < MaxLights
                         THEN [glLights EXCEPT ![l.number] = u] ELSE glLights
          /\ glEnabled' = glEnabled \cup ({l.number} \cap 0..(MaxLights-1))
          /\ created' = created
        BY <1>6 DEF Visits, Uploaded
    <2> HIDE DEF l
    <2>4. Unnumbered' = Unnumbered \ {n}
        BY <1>1, <2>1 DEF Unnumbered
    <2>5. lightCounter' + Cardinality(Unnumbered') <= created'
        <3>1. CASE lights[n].state
            <4>1. Unnumbered' = Unnumbered
                BY <2>4, <3>1 DEF Unnumbered
            <4>2. lightCounter' = lightCounter
                BY <2>1, <3>1
            <4> QED BY <1>3, <2>3, <4>1, <4>2
        <3>2. CASE ~lights[n].state
            <4>1. n \in Unnumbered
                BY <3>2 DEF Unnumbered
            <4>2. Cardinality(Unnumbered \ {n}) = Cardinality(Unnumbered) - 1
                BY <1>4, <4>1, FS_RemoveElement
            <4>3. Cardinality(Unnumbered') = Cardinality(Unnumbered) - 1 /\ Cardinality(Unnumbered) \in Nat
                BY <1>4, <2>4, <4>2
            <4>4. lightCounter' = lightCounter + 1
                BY <2>1, <3>2
            <4> QED BY <1>2, <1>3, <2>3, <4>3, <4>4, LightsAssumption
        <3> QED BY <3>1, <3>2
    <2>6. l.number \in 0..(MaxLights-1) /\ l.number < MaxLights
        <3>1. lightCounter' \in Nat /\ lights'[n].number < lightCounter' /\ lights'[n].number \in Nat
            BY <1>2, <2>1
        <3>2. Cardinality(Unnumbered') \in Nat
            BY <1>4
        <3>3. lightCounter' <= created'
            BY <1>3, <2>3, <2>5, <3>1, <3>2, LightsAssumption
        <3> QED BY <1>3, <2>2, <2>3, <3>1, <3>3, LightsAssumption
    <2>7. DOMAIN glLights' = 0..(MaxLights-1) /\ glEnabled' \subseteq 0..(MaxLights-1)
        BY <1>3, <2>3
    <2>8. \A k \in LightNodes : ~lights'[k].state => lights'[k].changed
        BY <1>3, <2>1
    <2>9. /\ glLights'[l.number].of = n /\ glLights'[l.number].value = lights[n].value
          /\ l.number \in glEnabled'
        <3>1. CASE lights[n].changed
            <4>1. glLights' = [glLights EXCEPT ![l.number] = u]
                BY <2>2, <2>3, <2>6, <3>1
            <4>2. glLights'[l.number] = u
                BY <1>3, <2>6, <4>1
            <4> QED BY <2>2, <2>3, <2>6, <4>2
        <3>2. CASE ~lights[n].changed
            <4>1. lights[n].state
                BY <1>3, <3>2
            <4>2. l.number = lights[n].number /\ glLights' = glLights
                BY <2>1, <2>2, <2>3, <3>2, <4>1
            <4> QED BY <1>3, <2>3, <3>2, <4>1, <4>2
        <3> QED BY <3>1, <3>2
    <2>10. ASSUME NEW k \in LightNodes \ {n}, lights[k].state
           PROVE  glLights'[lights[k].number] = glLights[lights[k].number]
        <3>1. lights[k].number # l.number
            BY <1>2, <2>1, <2>2, <2>10
        <3> QED BY <2>3, <3>1, <1>3
    <2>11. ASSUME NEW k \in LightNodes, lights'[k].state, ~lights'[k].changed
           PROVE  /\ glLights'[lights'[k].number].of = k
                  /\ glLights'[lights'[k].number].value = lights'[k].value
                  /\ lights'[k].number \in glEnabled'
        <3>1. CASE k = n
            BY <2>1, <2>2, <2>9, <3>1
        <3>2. CASE k # n
            <4>1. lights'[k] = lights[k] /\ glLights'[lights[k].number] = glLights[lights[k].number]
                BY <2>1, <2>10, <2>11, <3>2
            <4>2. /\ glLights[lights[k].number].of = k
                  /\ glLights[lights[k].number].value = lights[k].value
                  /\ lights[k].number \in glEnabled
                BY <1>3, <2>11, <4>1
            <4> QED BY <2>3, <4>1, <4>2
        <3> QED BY <3>1, <3>2
    <2> QED BY <1>3, <2>3, <2>5, <2>7, <2>8, <2>11
<1>7. ASSUME NEW n \in LightNodes, Sets(n)
      PROVE  /\ created' \in 0..LightBudget
             /\ lightCounter' + Cardinality(Unnumbered') <= created'
             /\ DOMAIN glLights' = 0..(MaxLights-1) /\ glEnabled' \subseteq 0..(MaxLights-1)
             /\ \A k \in LightNodes : ~lights'[k].state => lights'[k].changed
             /\ \A k \in LightNodes : lights'[k].state /\ ~lights'[k].changed =>
                   /\ glLights'[lights'[k].number].of = k
                   /\ glLights'[lights'[k].number].value = lights'[k].value
                   /\ lights'[k].number \in glEnabled'
    <2>1. /\ \A m \in LightNodes \ {n} : lights'[m] = lights[m]
          /\ lights'[n].changed = TRUE /\ lights'[n].state = lights[n].state
        <3>1. lights[n] \in LightRecord
            BY <1>2
        <3>2. SetLight(n).changed = TRUE /\ SetLight(n).state = lights[n].state
            BY <3>1 DEF SetLight, LightRecord
        <3> QED BY <1>2, <1>7, <3>2 DEF Sets
    <2>2. Unnumbered' = Unnumbered
        BY <1>1, <2>1 DEF Unnumbered
    <2>3. UNCHANGED <<lightCounter, glLights, glEnabled, created>>
        BY <1>7 DEF Sets
    <2> QED BY <1>3, <2>1, <2>2, <2>3
<1>8. ASSUME NEW n \in LightNodes, Renews(n)
      PROVE  /\ created' \in 0..LightBudget
             /\ lightCounter' + Cardinality(Unnumbered') <= created'
             /\ DOMAIN glLights' = 0..(MaxLights-1) /\ glEnabled' \subseteq 0..(MaxLights-1)
             /\ \A k \in LightNodes : ~lights'[k].state => lights'[k].changed
             /\ \A k \in LightNodes : lights'[k].state /\ ~lights'[k].changed =>
                   /\ glLights'[lights'[k].number].of = k
                   /\ glLights'[lights'[k].number].value = lights'[k].value
                   /\ lights'[k].number \in glEnabled'
    <2>1. /\ \A m \in LightNodes \ {n} : lights'[m] = lights[m]
          /\ lights'[n].changed = TRUE /\ lights'[n].state = FALSE
        <3>1. lights' = [lights EXCEPT ![n] = NewLight(TRUE)]
            BY <1>8 DEF Renews
        <3>2. lights'[n] = NewLight(TRUE) /\ \A m \in LightNodes \ {n} : lights'[m] = lights[m]
            BY <1>2, <3>1
        <3> QED BY <3>2 DEF NewLight
    <2>2. Unnumbered' = Unnumbered \cup {n}
        BY <1>1, <2>1 DEF Unnumbered
    <2>3. Cardinality(Unnumbered') <= Cardinality(Unnumbered) + 1
        <3>1. Cardinality(Unnumbered \cup {n}) \in {Cardinality(Unnumbered), Cardinality(Unnumbered) + 1}
            BY <1>4, FS_AddElement
        <3>2. Cardinality(Unnumbered) \in Nat
            BY <1>4
        <3> QED BY <2>2, <3>1, <3>2
    <2>4. /\ UNCHANGED <<lightCounter, glLights, glEnabled>>
          /\ created < LightBudget /\ created' = created + 1
        BY <1>8 DEF Renews
    <2>5. created' \in 0..LightBudget /\ lightCounter' + Cardinality(Unnumbered') <= created'
        <3>1. Cardinality(Unnumbered) \in Nat /\ Cardinality(Unnumbered') \in Nat
            BY <1>4
        <3> QED BY <1>2, <1>3, <2>3, <2>4, <3>1, LightsAssumption
    <2> QED BY <1>3, <2>1, <2>4, <2>5
<1>9. CASE UNCHANGED <<lightVars, created>>
    <2>1. Unnumbered' = Unnumbered
        BY <1>1, <1>9 DEF Unnumbered, lightVars
    <2> QED BY <1>3, <1>9, <2>1 DEF lightVars
<1> QED
    BY <1>1, <1>6, <1>7, <1>8, <1>9

\* LightsAreUploaded: when a new light is marked as changed and no more lights
\* are ever built than OpenGL has units, the Changed flag hides no update.
THEOREM NoUpdateIsHidden ==
    ASSUME InitialChanged = {TRUE}, LightBudget <= MaxLights
    PROVE  Spec /\ FewLights => []LightsAreUploaded
<1>1. Init /\ FewLights => Uploads
    BY UploadsStart
<1>2. Uploads /\ [Next]_vars => Uploads'
    BY UploadsKeep
<1>3. Uploads => LightsAreUploaded
    BY DEF Uploads
<1> QED
    BY <1>1, <1>2, <1>3, PTL DEF Spec
-----------------------------------------------------------------------------
(* The types.                                                              *)

VisibleOK == scene \in Scenes /\ visible \subseteq {n \in Nodes : Kind(n) = "geometry"}

\* Only geometries are shown or hidden.
LEMMA VisibleKeeps == VisibleOK /\ [Next]_vars => VisibleOK'
<1> SUFFICES ASSUME VisibleOK, [Next]_vars PROVE VisibleOK'
    OBVIOUS
<1>1. scene' = scene /\ \A n : Kind(n)' = Kind(n)
    BY Movements DEF Kind
<1>2. visible' = visible \/ \E n \in Nodes : /\ Kind(n) = "geometry"
                                             /\ visible' = (visible \cup {n}) \ (visible \cap {n})
    BY DEF Next, Visitor, BeginFrame, TraverseChild, EnterGroup, LeavePlain, EnterLight, EnterCamera,
           LeaveCamera, EnterTransform, LeaveTransform, VisitGeometry, SetVisibility, ChangeLight,
           ReplaceLight, vars
<1> QED
    BY <1>1, <1>2 DEF VisibleOK, Kind

\* TypeOK: in particular the position in the children of a node never runs more
\* than one past the last of them, and no matrix is popped off the last one.
THEOREM TypeCorrect ==
    ASSUME InitialChanged = {TRUE}, LightBudget <= MaxLights
    PROVE  Spec /\ Shallow /\ FewLights => []TypeOK
<1>1. Init /\ FewLights => Uploads
    BY UploadsStart
<1>2. Uploads /\ [Next]_vars => Uploads'
    BY UploadsKeep
<1>3. Init => VisibleOK
    BY DEF Init, VisibleOK
<1>4. VisibleOK /\ [Next]_vars => VisibleOK'
    BY VisibleKeeps
<1>5. ASSUME Uploads, Matrices, VisibleOK PROVE TypeOK
    <2>1. Walk /\ scene \in Scenes
        BY <1>5 DEF Matrices, Walk, OnPath
    <2>2. calls \in Seq([node : Nodes, child : 0..(Size+1)])
        <3>1. calls \in Seq(CallRecord)
            BY <2>1 DEF Walk, OnPath
        <3>2. ASSUME NEW i \in 1..Len(calls)
              PROVE  calls[i] \in [node : Nodes, child : 0..(Size+1)]
            <4>1. calls[i] \in CallRecord /\ calls[i].child <= Len(KidsTable[calls[i].node]) + 1
                BY <2>1, <3>1, ElementOfSeq DEF Walk, OnPath
            <4>2. calls[i].node \in Nodes /\ calls[i].child \in Nat
                BY <4>1 DEF CallRecord
            <4>3. Len(KidsTable[calls[i].node]) \in 0..Size
                BY <2>1, <4>2, KidsFacts DEF KidsTable
            <4>4. calls[i].child \in 0..(Size+1)
                BY <4>1, <4>2, <4>3, SizeAssumption
            <4> QED BY <4>1, <4>2, <4>4 DEF CallRecord
        <3> DEFINE R == [node : Nodes, child : 0..(Size+1)]
        <3> HIDE DEF R
        <3>3. calls \in [1..Len(calls) -> R] /\ Len(calls) \in Nat
            BY <3>1, <3>2 DEF R
        <3>4. calls \in Seq(R)
            BY <3>3
        <3> QED BY <3>4 DEF R
    <2>3. modelView # <<>> /\ projection # <<>>
        <3>1. Around \in Nodes
            BY <2>1, AroundInNodes
        <3> QED BY <1>5, <2>1, <3>1, TopsAreThePath DEF Matrices, Stacks
    <2>4. lightCounter \in 0..LightBudget
        <3>1. Cardinality(Unnumbered) \in Nat
            <4>1. Unnumbered \in SUBSET LightNodes
                BY DEF Unnumbered
            <4> QED BY <2>1, <4>1, LightNodesFinite
        <3>2. lightCounter \in Nat /\ lightCounter + Cardinality(Unnumbered) <= created /\ created \in 0..LightBudget
            BY <1>5 DEF Uploads, Numbers
        <3> QED BY <3>1, <3>2, LightsAssumption
    <2>5. lights \in [LightNodes -> LightRecord] /\ glEnabled \subseteq 0..(MaxLights-1)
        BY <1>5 DEF Uploads, Numbers
    <2>6. visible \subseteq {n \in Nodes : Kind(n) = "geometry"}
        BY <1>5 DEF VisibleOK
    <2> QED BY <2>1, <2>2, <2>3, <2>4, <2>5, <2>6 DEF TypeOK, LightRecord
<1> QED
    BY <1>1, <1>2, <1>3, <1>4, <1>5, MatricesAlways, PTL DEF Spec

-----------------------------------------------------------------------------
(* What is drawn: the visible geometries the walk has left behind.         *)

\* The children of a node are all the nodes it is the parent of, by number.
LEMMA KidsAreAll ==
    ASSUME scene \in Scenes, NEW n \in Nodes
    PROVE  /\ KidsTable[n] \in Seq(Nodes \ {1})
           /\ Len(KidsTable[n]) \in Nat
           /\ \A i, j \in 1..Len(KidsTable[n]) : i < j => KidsTable[n][i] < KidsTable[n][j]
           /\ \A k \in Nodes \ {1} : scene.par[k] = n =>
                 \E i \in 1..Len(KidsTable[n]) : KidsTable[n][i] = k
<1> DEFINE own == {m \in Nodes \ {1} : scene.par[m] = n}
           c == Cardinality(own)
           ks == Kids(n)
<1>1. IsFiniteSet(Nodes) /\ own \subseteq Nodes /\ own \in SUBSET (1..Size)
    BY SizeAssumption, FS_Interval DEF Nodes
<1>2. IsFiniteSet(own) /\ c \in Nat
    BY <1>1, FS_Subset, FS_CardinalityType
<1>3. \E f \in [1..c -> own] : Increasing(f, own)
    <2>1. PICK f : Increasing(f, own)
        BY <1>1, EnumerationExists, SizeAssumption
    <2> QED
        BY <2>1 DEF Increasing
<1>4. Increasing(ks, own) /\ ks \in [1..c -> own]
    BY <1>3 DEF Kids
<1>5. \A i, j \in 1..c : i < j => ks[i] < ks[j]
    BY <1>4 DEF Increasing
<1>6. ks \in Injection(1..c, own)
    <2>1. \A i \in 1..c : ks[i] \in Nat
        BY <1>1, <1>4 DEF Nodes
    <2>2. \A i, j \in 1..c : i # j => ks[i] # ks[j]
        <3> SUFFICES ASSUME NEW i \in 1..c, NEW j \in 1..c, i # j PROVE ks[i] # ks[j]
            OBVIOUS
        <3>1. i < j \/ j < i
            BY <1>2
        <3> HIDE DEF c, ks, own
        <3> QED BY <1>5, <2>1, <3>1
    <2> HIDE DEF c, ks, own
    <2> QED BY <1>4, <2>2 DEF Injection, IsInjective
<1>7. Cardinality(1..c) = c
    BY <1>2, FS_Interval
<1>8. ks \in Surjection(1..c, own)
    <2> HIDE DEF c, ks, own
    <2>1. Cardinality(1..c) = Cardinality(own)
        BY <1>7 DEF c
    <2> QED BY <1>2, <1>6, <2>1, FS_Injection
<1>9. \A k \in own : \E i \in 1..c : ks[i] = k
    <2> HIDE DEF c, ks, own
    <2> QED BY <1>8 DEF Surjection
<1>10. Len(ks) = c /\ ks \in Seq(own)
    <2> HIDE DEF c, ks
    <2> QED BY <1>2, <1>4
<1>11. KidsTable[n] = ks
    BY DEF KidsTable
<1>12. ks \in Seq(Nodes \ {1})
    <2> HIDE DEF c, ks
    <2> QED BY <1>2, <1>4
<1> HIDE DEF c, ks
<1> QED
    BY <1>2, <1>5, <1>9, <1>10, <1>11, <1>12

\* What is above a node has a smaller number; the root is above every other
\* node; and what is above a node is so by one of its own children.
LEMMA AboveFacts ==
    ASSUME scene \in Scenes
    PROVE  \A n \in Nodes :
              /\ Above[n] \subseteq Nodes
              /\ \A m \in Above[n] : m < n
              /\ n # 1 => 1 \in Above[n]
              /\ \A m \in Above[n] : \E k \in {n} \cup Above[n] : k # 1 /\ scene.par[k] = m
<1> DEFINE Fact(n) ==
              /\ Above[n] \subseteq Nodes
              /\ \A m \in Above[n] : m < n
              /\ n # 1 => 1 \in Above[n]
              /\ \A m \in Above[n] : \E k \in {n} \cup Above[n] : k # 1 /\ scene.par[k] = m
           P == {n \in Nodes : Fact(n)}
<1>1. 1 \in Nodes
    BY SizeAssumption DEF Nodes
<1>2. 1 \in P
    <2>1. Above[1] = {}
        BY <1>1, AboveUnfolds
    <2> QED BY <1>1, <2>1
<1>3. ASSUME NEW n \in Nodes \ {1}, scene.par[n] \in P PROVE n \in P
    <2> DEFINE p == scene.par[n]
    <2>1. p \in Nodes /\ p < n /\ Fact(p) /\ p \in Nat /\ n \in Nat
        BY <1>3, TreeFacts DEF Nodes
    <2>2. Above[n] = {p} \cup Above[p]
        BY AboveUnfolds
    <2>3. Above[n] \subseteq Nodes /\ \A m \in Above[n] : m < n
        <3>1. \A m \in Above[p] : m < p /\ m \in Nat
            BY <2>1 DEF Nodes
        <3> HIDE DEF p
        <3> QED BY <2>1, <2>2, <3>1
    <2>4. 1 \in Above[n]
        BY <2>1, <2>2
    <2>5. \A m \in Above[n] : \E k \in {n} \cup Above[n] : k # 1 /\ scene.par[k] = m
        BY <2>1, <2>2
    <2> QED BY <2>3, <2>4, <2>5
<1> HIDE DEF Fact
<1>4. \A n \in Nodes \ {1} : scene.par[n] \in P => n \in P
    BY <1>3
<1>5. Nodes \subseteq P
    <2> HIDE DEF P
    <2> QED BY <1>2, <1>4, TreeInduction
<1>6. \A n \in Nodes : Fact(n)
    BY <1>5
<1> QED
    BY <1>6 DEF Fact

\* What is above something above a node is above it.
LEMMA AboveIsTransitive ==
    ASSUME scene \in Scenes
    PROVE  \A n \in Nodes : \A m \in Above[n] : Above[m] \subseteq Above[n]
<1> DEFINE P == {n \in Nodes : \A m \in Above[n] : Above[m] \subseteq Above[n]}
<1>1. 1 \in Nodes
    BY SizeAssumption DEF Nodes
<1>2. 1 \in P
    <2>1. Above[1] = {}
        BY <1>1, AboveUnfolds
    <2> QED BY <1>1, <2>1
<1>3. ASSUME NEW n \in Nodes \ {1}, scene.par[n] \in P PROVE n \in P
    <2>1. Above[n] = {scene.par[n]} \cup Above[scene.par[n]]
        BY AboveUnfolds
    <2> QED BY <1>3, <2>1
<1>4. \A n \in Nodes \ {1} : scene.par[n] \in P => n \in P
    BY <1>3
<1>5. Nodes \subseteq P
    <2> HIDE DEF P
    <2> QED BY <1>2, <1>4, TreeInduction
<1> QED
    BY <1>5

\* A path goes by one child of each of its nodes, so no node comes before
\* itself: a sequence ordered by ComesBefore holds no node twice.
LEMMA NoneBeforeItself ==
    ASSUME scene \in Scenes
    PROVE  \A n \in Nodes : ~ComesBefore(n, n)
<1> DEFINE Fact(n) == \A a, b \in {n} \cup Above[n] :
                          a # 1 /\ b # 1 /\ scene.par[a] = scene.par[b] => a = b
           P == {n \in Nodes : Fact(n)}
<1>1. 1 \in Nodes
    BY SizeAssumption DEF Nodes
<1>2. 1 \in P
    <2>1. Above[1] = {}
        BY <1>1, AboveUnfolds
    <2> QED BY <1>1, <2>1
<1>3. ASSUME NEW n \in Nodes \ {1}, scene.par[n] \in P PROVE n \in P
    <2>1. Above[n] = {scene.par[n]} \cup Above[scene.par[n]] /\ scene.par[n] \in Nodes
        BY AboveUnfolds, TreeFacts
    <2>2. ASSUME NEW b \in Above[n], b # 1 PROVE scene.par[b] # scene.par[n]
        <3>1. b \in Nodes /\ (b = scene.par[n] \/ b < scene.par[n])
            BY <2>1, AboveFacts
        <3>2. scene.par[b] < b
            BY <2>2, <3>1, TreeFacts
        <3>3. scene.par[b] \in Nat /\ scene.par[n] \in Nat /\ b \in Nat
            BY <2>2, <2>1, <3>1, TreeFacts DEF Nodes
        <3> QED BY <3>1, <3>2, <3>3
    <2>3. Fact(scene.par[n])
        BY <1>3
    <2>4. Fact(n)
        BY <2>1, <2>2, <2>3
    <2> QED BY <2>4
<1> HIDE DEF Fact
<1>4. \A n \in Nodes \ {1} : scene.par[n] \in P => n \in P
    BY <1>3
<1>5. Nodes \subseteq P
    <2> HIDE DEF P
    <2> QED BY <1>2, <1>4, TreeInduction
<1>6. ASSUME NEW n \in Nodes PROVE ~ComesBefore(n, n)
    <2>1. Fact(n)
        BY <1>5
    <2>2. {n} \cup Above[n] \subseteq Nat
        BY AboveFacts DEF Nodes
    <2> QED BY <2>1, <2>2 DEF Fact, ComesBefore
<1> QED
    BY <1>6

\* A call visits the child before its caller's position, and a geometry has
\* not begun with its children: it never does.
Nested ==
    /\ \A i \in 1..(Len(calls) - 1) :
          calls[i+1].node = KidsTable[calls[i].node][calls[i].child - 1]
    /\ \A i \in 1..Len(calls) : Kind(calls[i].node) = "geometry" => calls[i].child = 0

\* How a step of the walk goes with what is drawn.
LEMMA DrawingSteps ==
    ASSUME [Next]_vars
    PROVE  /\ UNCHANGED scene
           /\ \/ Begins /\ drawn' = <<>> /\ UNCHANGED visible
              \/ Descends /\ UNCHANGED <<drawn, visible>>
              \/ Enters /\ Kind(Top.node) # "geometry" /\ UNCHANGED <<drawn, visible>>
              \/ /\ Returns /\ Top.child > Len(Kids(Top.node))
                 /\ Kind(Top.node) # "geometry" /\ UNCHANGED <<drawn, visible>>
              \/ VisitGeometry
              \/ Idle /\ UNCHANGED <<calls, drawn>>
              \/ UNCHANGED <<calls, drawn, visible>>
<1> USE DEF Begins, Descends, Enters, Returns
<1>1. CASE BeginFrame \/ TraverseChild
    BY <1>1 DEF BeginFrame, TraverseChild, Idle
<1>2. CASE EnterGroup \/ EnterLight \/ EnterCamera \/ EnterTransform
    BY <1>2 DEF EnterGroup, EnterLight, EnterCamera, EnterTransform, Entering
<1>3. CASE LeavePlain \/ LeaveCamera \/ LeaveTransform
    BY <1>3 DEF LeavePlain, LeaveCamera, LeaveTransform, Leaving, ChildrenDone
<1>4. CASE VisitGeometry
    BY <1>4 DEF VisitGeometry
<1>5. CASE \E n \in Nodes : SetVisibility(n) \/ ChangeLight(n) \/ ReplaceLight(n)
    BY <1>5 DEF SetVisibility, ChangeLight, ReplaceLight
<1>6. CASE UNCHANGED vars
    BY <1>6 DEF vars
<1> QED
    BY <1>1, <1>2, <1>3, <1>4, <1>5, <1>6 DEF Next, Visitor

LEMMA NestedKeeps ==
    ASSUME Walk, Nested, [Next]_vars
    PROVE  Nested'
<1> DEFINE n == Len(calls)
<1>1. scene' = scene /\ KidsTable' = KidsTable
    BY Movements, SceneFixed
<1>2. CASE Begins
    <2>1. Len(calls') = 1 /\ calls'[1].child = 0
        BY <1>2 DEF Begins, Call
    <2>2. \A i \in 1..Len(calls') : i = 1
        BY <2>1
    <2>3. 1..(Len(calls') - 1) = {}
        BY <2>1
    <2> QED BY <2>1, <2>2, <2>3 DEF Nested
<1>3. CASE Descends
    <2>1. /\ n \in Nat \ {0} /\ Top = calls[n] /\ Top.child \in Nat
        BY <1>3, TopFacts DEF Descends
    <2>2. /\ Len(calls') = n + 1
          /\ \A i \in 1..n : calls'[i].node = calls[i].node
          /\ \A i \in 1..(n-1) : calls'[i] = calls[i]
          /\ calls'[n].child = Top.child + 1
          /\ Top.child \in 1..Len(KidsTable[Top.node])
          /\ calls'[n+1].node = KidsTable[Top.node][Top.child]
          /\ calls'[n+1].child = 0
        <3>1. PICK k : /\ calls'[n + 1] = [node |-> k, child |-> 0]
                       /\ k = KidsTable[Top.node][Top.child]
            BY <1>3, AfterDescent
        <3>2. calls'[n+1].node = k /\ calls'[n+1].child = 0
            BY <3>1
        <3> QED BY <1>3, <3>1, <3>2, AfterDescent
    <2>3. Kind(Top.node) # "geometry"
        BY <2>1, <2>2 DEF Nested
    <2> HIDE DEF n
    <2>4. ASSUME NEW i \in 1..n
          PROVE  /\ calls'[i+1].node = KidsTable[calls'[i].node][calls'[i].child - 1]
                 /\ Kind(calls'[i].node) = "geometry" => calls'[i].child = 0
        <3>1. CASE i = n
            <4>1. calls'[i].child - 1 = Top.child
                BY <2>1, <2>2, <3>1
            <4>2. calls'[i].node = Top.node
                BY <2>1, <2>2, <3>1
            <4> QED BY <4>1, <4>2, <2>2, <2>3, <3>1
        <3>2. CASE i # n
            <4>1. i \in 1..(n-1) /\ i + 1 \in 1..n
                BY <2>1, <3>2
            <4>2. calls'[i] = calls[i] /\ calls'[i+1].node = calls[i+1].node
                BY <2>2, <4>1
            <4> QED BY <4>1, <4>2 DEF Nested, n
        <3> QED BY <3>1, <3>2
    <2>5. Len(calls') - 1 = n /\ \A i \in 1..Len(calls') : i \in 1..n \/ i = n + 1
        BY <2>1, <2>2
    <2>6. Kind(calls'[n+1].node) = "geometry" => calls'[n+1].child = 0
        BY <2>2
    <2>7. \A k : Kind(k)' = Kind(k)
        BY <1>1 DEF Kind
    <2>8. \A i \in 1..Len(calls') : Kind(calls'[i].node) = "geometry" => calls'[i].child = 0
        BY <2>4, <2>5, <2>6
    <2> QED BY <1>1, <2>4, <2>5, <2>8 DEF Nested, Kind
<1>4. CASE Enters /\ Kind(Top.node) # "geometry"
    <2>1. n \in Nat \ {0} /\ Top = calls[n]
        BY <1>4, TopFacts DEF Enters
    <2>2. /\ Len(calls') = n
          /\ \A i \in 1..n : calls'[i].node = calls[i].node
          /\ \A i \in 1..(n-1) : calls'[i] = calls[i]
        BY <1>4, AfterEntry
    <2> HIDE DEF n
    <2>3. ASSUME NEW i \in 1..(n-1)
          PROVE  /\ calls'[i+1].node = KidsTable[calls'[i].node][calls'[i].child - 1]
                 /\ Kind(calls'[i].node) = "geometry" => calls'[i].child = 0
        <3>1. i \in 1..n /\ i + 1 \in 1..n
            BY <2>1
        <3> QED BY <2>2, <3>1 DEF Nested, n
    <2>4. \A i \in 1..n : i \in 1..(n-1) \/ i = n
        BY <2>1
    <2>5. Kind(calls'[n].node) # "geometry"
        BY <2>1, <2>2, <1>4
    <2> QED BY <1>1, <2>2, <2>3, <2>4, <2>5 DEF Nested, Kind
<1>5. CASE Returns
    <2>1. n \in Nat \ {0}
        BY <1>5, TopFacts DEF Returns
    <2>2. Len(calls') = n - 1 /\ \A i \in 1..(n-1) : calls'[i] = calls[i]
        BY <1>5, AfterReturn
    <2> HIDE DEF n
    <2>3. ASSUME NEW i \in 1..((n-1)-1)
          PROVE  calls'[i+1].node = KidsTable[calls'[i].node][calls'[i].child - 1]
        <3>1. i \in 1..(n-1) /\ i + 1 \in 1..(n-1)
            BY <2>1
        <3> QED BY <2>2, <3>1 DEF Nested, n
    <2>4. ASSUME NEW i \in 1..(n-1)
          PROVE  Kind(calls'[i].node) = "geometry" => calls'[i].child = 0
        <3>1. i \in 1..n
            BY <2>1
        <3> QED BY <2>2, <3>1 DEF Nested, n
    <2> QED BY <1>1, <2>2, <2>3, <2>4 DEF Nested, Kind
<1>6. CASE UNCHANGED calls
    BY <1>1, <1>6 DEF Nested, Kind
<1>7. VisitGeometry => Returns
    BY DEF VisitGeometry, Entering, Returns
<1> QED
    BY <1>2, <1>3, <1>4, <1>5, <1>6, <1>7, DrawingSteps

\* What a running call has done with: it is still at the child it has called.
Behind(cs, i) == IF i < Len(cs) THEN cs[i].child - 1 ELSE cs[i].child
PassedIn(cs, i, n) ==
    \E j \in 1..Len(KidsTable[cs[i].node]) :
        j < Behind(cs, i) /\ KidsTable[cs[i].node][j] \in {n} \cup Above[n]

\* The nodes the walk has left behind.
Passed(cs, n) == \E i \in 1..Len(cs) : PassedIn(cs, i, n)

\* Those among them that are shown have been drawn, in their order.
Pictured ==
    /\ \E S : drawn \in Seq(S)
    /\ ~Idle =>
         /\ \A n : (\E i \in DOMAIN drawn : drawn[i].geometry = n)
                       <=> (n \in Nodes /\ Shown(n) /\ Passed(calls, n))
         /\ \A i, j \in DOMAIN drawn :
               i < j => ComesBefore(drawn[i].geometry, drawn[j].geometry)

\* Going down leaves nothing behind.
LEMMA DescentPasses ==
    ASSUME Walk, Descends, NEW n
    PROVE  Passed(calls', n) <=> Passed(calls, n)
<1> DEFINE m == Len(calls)
<1>1. m \in Nat \ {0} /\ Top = calls[m] /\ Top.child \in Nat
    BY TopFacts DEF Descends
<1>2. /\ Len(calls') = m + 1
      /\ \A i \in 1..m : calls'[i].node = calls[i].node
      /\ \A i \in 1..(m-1) : calls'[i] = calls[i]
      /\ calls'[m].child = Top.child + 1
    BY AfterDescent
<1>3. calls'[m+1].child = 0
    <2>1. PICK k : calls'[m + 1] = [node |-> k, child |-> 0]
        BY AfterDescent
    <2> QED BY <2>1
<1> HIDE DEF m
<1>4. \A i \in 1..m : Behind(calls', i) = Behind(calls, i)
    <2> SUFFICES ASSUME NEW i \in 1..m PROVE Behind(calls', i) = Behind(calls, i)
        OBVIOUS
    <2>1. CASE i = m
        <3>1. Behind(calls', i) = (Top.child + 1) - 1 /\ Behind(calls, i) = Top.child
            BY <1>1, <1>2, <2>1 DEF Behind, m
        <3> QED BY <1>1, <3>1
    <2>2. CASE i # m
        <3>1. i \in 1..(m-1) /\ i < m /\ i < m + 1
            BY <1>1, <2>2
        <3> QED BY <1>2, <3>1 DEF Behind, m
    <2> QED BY <2>1, <2>2
<1>5. \A i \in 1..m : PassedIn(calls', i, n) <=> PassedIn(calls, i, n)
    BY <1>2, <1>4 DEF PassedIn
<1>6. ~PassedIn(calls', m + 1, n)
    <2>1. Behind(calls', m + 1) = 0
        BY <1>1, <1>2, <1>3 DEF Behind
    <2>2. \A j \in 1..Len(KidsTable[calls'[m+1].node]) : ~(j < 0)
        OBVIOUS
    <2> QED BY <2>1, <2>2 DEF PassedIn
<1>7. \A i : i \in 1..(m + 1) <=> i \in 1..m \/ i = m + 1
    BY <1>1
<1> QED
    BY <1>2, <1>5, <1>6, <1>7 DEF Passed, m

\* Neither does getting to the first child.
LEMMA EntryPasses ==
    ASSUME Walk, Enters, NEW n
    PROVE  Passed(calls', n) <=> Passed(calls, n)
<1> DEFINE m == Len(calls)
<1>1. m \in Nat \ {0} /\ Top = calls[m] /\ Top.child = 0
    BY TopFacts DEF Enters
<1>2. /\ Len(calls') = m
      /\ \A i \in 1..m : calls'[i].node = calls[i].node
      /\ \A i \in 1..(m-1) : calls'[i] = calls[i]
      /\ calls'[m].child = 1
    BY AfterEntry
<1> HIDE DEF m
<1>3. \A i \in 1..(m-1) : PassedIn(calls', i, n) <=> PassedIn(calls, i, n)
    <2> SUFFICES ASSUME NEW i \in 1..(m-1)
                 PROVE  PassedIn(calls', i, n) <=> PassedIn(calls, i, n)
        OBVIOUS
    <2>1. calls'[i] = calls[i] /\ Behind(calls', i) = Behind(calls, i)
        BY <1>2 DEF Behind, m
    <2> QED BY <2>1 DEF PassedIn
<1>4. ~PassedIn(calls', m, n) /\ ~PassedIn(calls, m, n)
    <2>1. Behind(calls', m) = 1 /\ Behind(calls, m) = 0
        BY <1>1, <1>2 DEF Behind, m
    <2>2. \A j \in 1..Len(KidsTable[calls[m].node]) : ~(j < 1) /\ ~(j < 0)
        OBVIOUS
    <2> QED BY <1>1, <1>2, <2>1, <2>2 DEF PassedIn
<1>5. \A i : i \in 1..m <=> i \in 1..(m-1) \/ i = m
    BY <1>1
<1> QED
    BY <1>2, <1>3, <1>4, <1>5 DEF Passed, m

\* Whoever returns is left behind, with all below it.
LEMMA ReturnPasses ==
    ASSUME Walk, Nested, Returns, Len(calls) # 1, NEW n
    PROVE  Passed(calls', n) <=> \/ \E i \in 1..(Len(calls)-1) : PassedIn(calls, i, n)
                                 \/ Top.node \in {n} \cup Above[n]
<1> DEFINE m == Len(calls)
<1>1. /\ m \in Nat \ {0} /\ Top = calls[m] /\ m - 1 \in 1..m
      /\ calls[m-1].child > 1
    BY TopFacts, TopPlace DEF Returns
<1>2. Len(calls') = m - 1 /\ \A i \in 1..(m-1) : calls'[i] = calls[i]
    BY AfterReturn
<1>3. Top.node = KidsTable[calls[m-1].node][calls[m-1].child - 1]
    <2>1. m - 1 \in 1..(m - 1) /\ (m - 1) + 1 = m
        BY <1>1
    <2> HIDE DEF m
    <2> QED BY <1>1, <2>1 DEF Nested, m
<1>4. calls[m-1].child \in Nat /\ calls[m-1].child <= Len(KidsTable[calls[m-1].node]) + 1
      /\ Len(KidsTable[calls[m-1].node]) \in Nat
    <2>1. calls[m-1] \in CallRecord /\ calls[m-1].child <= Len(KidsTable[calls[m-1].node]) + 1
        BY <1>1, ElementOfSeq DEF Walk, OnPath
    <2>2. calls[m-1].node \in Nodes /\ calls[m-1].child \in Nat
        BY <2>1 DEF CallRecord
    <2> QED BY <2>1, <2>2, KidsAreAll DEF Walk, OnPath
<1> HIDE DEF m
<1>5. \A i \in 1..((m-1)-1) : PassedIn(calls', i, n) <=> PassedIn(calls, i, n)
    <2> SUFFICES ASSUME NEW i \in 1..((m-1)-1)
                 PROVE  PassedIn(calls', i, n) <=> PassedIn(calls, i, n)
        OBVIOUS
    <2>1. i \in 1..(m-1) /\ i < m - 1 /\ i < m
        BY <1>1
    <2> QED BY <1>2, <2>1 DEF PassedIn, Behind, m
<1>6. PassedIn(calls', m - 1, n) <=> PassedIn(calls, m - 1, n) \/ Top.node \in {n} \cup Above[n]
    <2> DEFINE c == calls[m-1].child
               ks == KidsTable[calls[m-1].node]
    <2>1. calls'[m-1] = calls[m-1] /\ Behind(calls', m - 1) = c /\ Behind(calls, m - 1) = c - 1
        BY <1>1, <1>2 DEF Behind, m
    <2>2. c - 1 \in 1..Len(ks) /\ \A j \in 1..Len(ks) : j < c <=> (j < c - 1 \/ j = c - 1)
        <3> HIDE DEF c, ks
        <3>1. c \in Nat /\ c > 1 /\ c <= Len(ks) + 1 /\ Len(ks) \in Nat
            BY <1>1, <1>4 DEF c, ks
        <3> QED BY <3>1
    <2> HIDE DEF c
    <2> QED BY <1>3, <2>1, <2>2 DEF PassedIn, c
<1>7. \A i : i \in 1..(m-1) <=> i \in 1..((m-1)-1) \/ i = m - 1
    BY <1>1
<1>8. Passed(calls', n) <=> \/ \E i \in 1..(m-1) : PassedIn(calls, i, n)
                            \/ Top.node \in {n} \cup Above[n]
    BY <1>2, <1>5, <1>6, <1>7 DEF Passed
<1> QED
    BY <1>8 DEF m

\* A call that has done with all its children has left behind what is below it.
LEMMA LastChildPasses ==
    ASSUME Walk, ~Idle, Top.child > Len(Kids(Top.node)), NEW n \in Nodes
    PROVE  PassedIn(calls, Len(calls), n) <=> Top.node \in Above[n]
<1> DEFINE m == Len(calls)
           ks == KidsTable[Top.node]
<1>1. /\ m \in Nat \ {0} /\ Top = calls[m] /\ Top.node \in Nodes /\ Top.child \in Nat
    BY TopFacts
<1>2. scene \in Scenes
    BY DEF Walk, OnPath
<1>3. ks = Kids(Top.node)
    BY <1>1 DEF KidsTable
<1>4. /\ ks \in Seq(Nodes \ {1}) /\ Len(ks) \in Nat
      /\ \A k \in Nodes \ {1} : scene.par[k] = Top.node => \E i \in 1..Len(ks) : ks[i] = k
      /\ \A i \in 1..Len(ks) : scene.par[ks[i]] = Top.node
    BY <1>1, <1>2, <1>3, KidsAreAll, KidsFacts
<1>5. Behind(calls, m) = Top.child
    BY <1>1 DEF Behind
<1>6. \A j \in 1..Len(ks) : j < Behind(calls, m)
    BY <1>1, <1>3, <1>4, <1>5
<1>7. PassedIn(calls, m, n) <=> \E j \in 1..Len(ks) : ks[j] \in {n} \cup Above[n]
    <2> HIDE DEF m
    <2> QED BY <1>1, <1>6 DEF PassedIn
<1>8. ASSUME Top.node \in Above[n] PROVE \E j \in 1..Len(ks) : ks[j] \in {n} \cup Above[n]
    <2>1. PICK k \in {n} \cup Above[n] : k # 1 /\ scene.par[k] = Top.node
        BY <1>2, <1>8, AboveFacts
    <2>2. k \in Nodes \ {1}
        BY <1>2, <2>1, AboveFacts
    <2> QED BY <1>4, <2>1, <2>2
<1>9. ASSUME NEW j \in 1..Len(ks), ks[j] \in {n} \cup Above[n] PROVE Top.node \in Above[n]
    <2>1. ks[j] \in Nodes \ {1} /\ scene.par[ks[j]] = Top.node
        <3> HIDE DEF ks
        <3> QED BY <1>4
    <2>2. Above[ks[j]] = {Top.node} \cup Above[Top.node]
        BY <1>2, <2>1, AboveUnfolds
    <2>3. CASE ks[j] = n
        BY <2>2, <2>3
    <2>4. CASE ks[j] \in Above[n]
        BY <1>2, <2>2, <2>4, AboveIsTransitive
    <2> QED BY <1>9, <2>3, <2>4
<1> QED
    BY <1>7, <1>8, <1>9

\* A node that has just been called has nothing behind it below itself, and
\* what the walk has left behind comes before it.
LEMMA CalledNext ==
    ASSUME Walk, Nested, ~Idle, Top.child = 0
    PROVE  /\ \A n : ~PassedIn(calls, Len(calls), n)
           /\ \A n \in Nodes : Passed(calls, n) => ComesBefore(n, Top.node)
           /\ \A x \in Above[Top.node] : Kind(x) # "geometry"
<1> DEFINE m == Len(calls)
<1>1. m \in Nat \ {0} /\ Top = calls[m] /\ Top.node \in Nodes /\ scene \in Scenes
    BY TopFacts DEF Walk, OnPath
<1>2. ASSUME NEW n PROVE ~PassedIn(calls, m, n)
    <2>1. Behind(calls, m) = 0
        BY <1>1 DEF Behind
    <2>2. \A j \in 1..Len(KidsTable[calls[m].node]) : ~(j < 0)
        OBVIOUS
    <2> QED BY <2>1, <2>2 DEF PassedIn
<1>3. \A x : x \in Above[Top.node] <=> \E j \in 1..(m-1) : calls[j].node = x
    <2>1. m \in 1..Len(calls)
        BY <1>1
    <2> HIDE DEF m
    <2>2. \A x : x \in Above[calls[m].node] <=> \E j \in 1..(m-1) : calls[j].node = x
        BY <2>1 DEF Walk, OnPath
    <2> QED BY <1>1, <2>2
<1>4. \A j \in 1..(m-1) : calls[j].child > 1 /\ Kind(calls[j].node) # "geometry"
    <2> SUFFICES ASSUME NEW j \in 1..(m-1)
                 PROVE  calls[j].child > 1 /\ Kind(calls[j].node) # "geometry"
        OBVIOUS
    <2>1. j \in 1..Len(calls) /\ j < Len(calls)
        BY <1>1
    <2>2. calls[j].child > 1
        BY <2>1 DEF Walk, OnPath
    <2> QED BY <2>1, <2>2 DEF Nested
<1>5. ASSUME NEW n \in Nodes, Passed(calls, n) PROVE ComesBefore(n, Top.node)
    <2>1. PICK i \in 1..m : PassedIn(calls, i, n)
        BY <1>5 DEF Passed
    <2>2. i \in 1..(m-1) /\ i < m /\ i + 1 \in 1..m
        <3>1. i # m
            BY <1>2, <2>1
        <3> QED BY <1>1, <3>1
    <2> DEFINE c == calls[i].child
               ks == KidsTable[calls[i].node]
    <2>3. calls[i].node \in Nodes /\ c \in Nat /\ c > 1 /\ c <= Len(ks) + 1
        <3>1. calls[i] \in CallRecord /\ c <= Len(ks) + 1
            BY ElementOfSeq DEF Walk, OnPath
        <3> QED BY <1>4, <2>2, <3>1 DEF CallRecord
    <2>4. /\ ks \in Seq(Nodes \ {1}) /\ Len(ks) \in Nat
          /\ \A a, b \in 1..Len(ks) : a < b => ks[a] < ks[b]
          /\ \A a \in 1..Len(ks) : scene.par[ks[a]] = calls[i].node
        BY <1>1, <2>3, KidsAreAll, KidsFacts DEF KidsTable
    <2>5. PICK j \in 1..Len(ks) : j < c - 1 /\ ks[j] \in {n} \cup Above[n]
        BY <2>1, <2>2 DEF PassedIn, Behind
    <2>6. calls[i+1].node = ks[c-1]
        BY <2>2 DEF Nested
    <2> HIDE DEF c, ks
    <2>7. c - 1 \in 1..Len(ks)
        BY <2>3, <2>4
    <2>8. ks[c-1] \in {Top.node} \cup Above[Top.node]
        <3>1. CASE i + 1 = m
            BY <1>1, <2>6, <3>1
        <3>2. CASE i + 1 # m
            <4>1. i + 1 \in 1..(m-1)
                BY <1>1, <2>2, <3>2
            <4> QED BY <1>3, <2>6, <4>1
        <3> QED BY <3>1, <3>2
    <2>9. /\ ks[j] # 1 /\ ks[c-1] # 1
          /\ scene.par[ks[j]] = scene.par[ks[c-1]] /\ ks[j] < ks[c-1]
        BY <2>4, <2>5, <2>7
    <2> QED BY <2>5, <2>8, <2>9 DEF ComesBefore
<1> QED
    BY <1>2, <1>3, <1>4, <1>5

\* What is drawn stays a sequence.
LEMMA DrawnStaysASequence ==
    ASSUME NEW S, drawn \in Seq(S), [Next]_vars
    PROVE  \E T : drawn' \in Seq(T)
<1>1. \A x : Append(drawn, x) \in Seq(S \cup {x})
    <2> SUFFICES ASSUME NEW x PROVE Append(drawn, x) \in Seq(S \cup {x})
        OBVIOUS
    <2>1. drawn \in Seq(S \cup {x})
        BY ElementOfSeq
    <2> QED BY <2>1
<1>2. CASE VisitGeometry
    BY <1>1, <1>2 DEF VisitGeometry
<1>3. CASE drawn' = <<>>
    BY <1>3
<1>4. CASE drawn' = drawn
    BY <1>4
<1> QED
    BY <1>2, <1>3, <1>4, DrawingSteps

\* A step leaves what is drawn to be what the walk has left behind.
LEMMA PicturedKeeps ==
    ASSUME Walk, Nested, Pictured, [Next]_vars
    PROVE  Pictured'
<1>1. /\ scene' = scene /\ KidsTable' = KidsTable /\ Above' = Above
      /\ scene \in Scenes /\ 1 \in Nodes
    BY Movements, SceneFixed, SizeAssumption DEF Walk, OnPath, Nodes
<1>2. visible' = visible => \A n : Shown(n)' <=> Shown(n)
    BY <1>1 DEF Shown, Kind
<1>3. \A m, n : ComesBefore(m, n)' <=> ComesBefore(m, n)
    BY <1>1 DEF ComesBefore
<1>4. PICK S : drawn \in Seq(S)
    BY DEF Pictured
<1>5. \A n : Passed(calls, n)' <=> Passed(calls', n)
    BY <1>1 DEF Passed, PassedIn, Behind
<1>6. ASSUME drawn' = drawn, visible' = visible, ~Idle,
             \A n \in Nodes : Shown(n) => (Passed(calls', n) <=> Passed(calls, n))
      PROVE  Pictured'
    <2>1. /\ \A n : (\E i \in DOMAIN drawn : drawn[i].geometry = n)
                        <=> (n \in Nodes /\ Shown(n) /\ Passed(calls, n))
          /\ \A i, j \in DOMAIN drawn :
                i < j => ComesBefore(drawn[i].geometry, drawn[j].geometry)
        BY <1>6 DEF Pictured
    <2>2. \A n : (\E i \in DOMAIN drawn' : drawn'[i].geometry = n)
                        <=> (n \in Nodes /\ Shown(n)' /\ Passed(calls, n)')
        BY <1>2, <1>5, <1>6, <2>1
    <2>3. \A i, j \in DOMAIN drawn' :
                i < j => ComesBefore(drawn[i].geometry, drawn[j].geometry)'
        BY <1>3, <1>6, <2>1
    <2>4. \E T : drawn' \in Seq(T)
        BY <1>4, <1>6
    <2>5. Nodes' = Nodes
        BY DEF Nodes
    <2> QED BY <2>2, <2>3, <2>4, <2>5 DEF Pictured
<1>7. CASE Begins /\ drawn' = <<>>
    <2>1. Len(calls') = 1 /\ calls'[1].child = 0
        BY <1>7 DEF Begins, Call
    <2>2. \A i \in 1..Len(calls') : i = 1
        BY <2>1
    <2>3. Behind(calls', 1) = 0
        BY <2>1 DEF Behind
    <2>4. \A n : ~Passed(calls', n)
        <3>1. \A j \in 1..Len(KidsTable[calls'[1].node]) : ~(j < 0)
            OBVIOUS
        <3> QED BY <2>2, <2>3, <3>1 DEF Passed, PassedIn
    <2>5. DOMAIN drawn' = {} /\ drawn' \in Seq({})
        BY <1>7
    <2> QED BY <1>5, <2>4, <2>5 DEF Pictured
<1>8. CASE Descends /\ UNCHANGED <<drawn, visible>>
    BY <1>6, <1>8, DescentPasses DEF Descends
<1>9. CASE Enters /\ UNCHANGED <<drawn, visible>>
    BY <1>6, <1>9, EntryPasses DEF Enters
<1>10. CASE Returns /\ Len(calls) = 1
    <2>1. Len(calls') = 0
        BY <1>10, AfterReturn
    <2>2. calls' = <<>>
        BY <1>10, <2>1, AfterReturn, EmptySeq
    <2>3. \E T : drawn' \in Seq(T)
        BY <1>4, DrawnStaysASequence
    <2> QED BY <2>2, <2>3 DEF Pictured, Idle
<1>11. CASE /\ Returns /\ Top.child > Len(Kids(Top.node)) /\ Len(calls) # 1
            /\ Kind(Top.node) # "geometry" /\ UNCHANGED <<drawn, visible>>
    <2> DEFINE m == Len(calls)
    <2>1. m \in Nat \ {0} /\ ~Idle
        BY <1>11, TopFacts DEF Returns
    <2>2. ASSUME NEW n \in Nodes, Shown(n) PROVE Passed(calls', n) <=> Passed(calls, n)
        <3>1. Passed(calls', n) <=> \/ \E i \in 1..(m-1) : PassedIn(calls, i, n)
                                    \/ Top.node \in {n} \cup Above[n]
            BY <1>11, ReturnPasses
        <3>2. PassedIn(calls, m, n) <=> Top.node \in Above[n]
            BY <1>11, <2>1, LastChildPasses
        <3>3. n # Top.node
            BY <1>11, <2>2 DEF Shown
        <3>4. \A i : i \in 1..m <=> i \in 1..(m-1) \/ i = m
            BY <2>1
        <3> QED BY <3>1, <3>2, <3>3, <3>4 DEF Passed
    <2> QED BY <1>6, <1>11, <2>1, <2>2
<1>12. CASE VisitGeometry /\ Len(calls) # 1
    <2> DEFINE m == Len(calls)
               g == Top.node
               entry == [geometry |-> g, at |-> glModelView, through |-> glProjection]
    <2>1. /\ ~Idle /\ Returns /\ Top.child = 0 /\ Kind(g) = "geometry"
          /\ visible' = visible
          /\ drawn' = IF g \in visible THEN Append(drawn, entry) ELSE drawn
        BY <1>12 DEF VisitGeometry, Entering, Returns, Draws
    <2>2. m \in Nat \ {0} /\ g \in Nodes
        BY <2>1, TopFacts
    <2>3. /\ \A n : ~PassedIn(calls, m, n)
          /\ \A n \in Nodes : Passed(calls, n) => ComesBefore(n, g)
          /\ \A x \in Above[g] : Kind(x) # "geometry"
        BY <2>1, CalledNext
    <2>4. Shown(g) <=> g \in visible
        BY <2>1, <2>3 DEF Shown
    <2>5. ASSUME NEW n \in Nodes, Shown(n)
          PROVE  Passed(calls', n) <=> Passed(calls, n) \/ n = g
        <3>1. Passed(calls', n) <=> \/ \E i \in 1..(m-1) : PassedIn(calls, i, n)
                                    \/ g \in {n} \cup Above[n]
            BY <1>12, <2>1, ReturnPasses
        <3>2. g \notin Above[n]
            BY <2>1, <2>5 DEF Shown
        <3>3. \A i : i \in 1..m <=> i \in 1..(m-1) \/ i = m
            BY <2>2
        <3> QED BY <2>3, <3>1, <3>2, <3>3 DEF Passed
    <2>6. CASE g \notin visible
        <3>1. \A n \in Nodes : Shown(n) => (Passed(calls', n) <=> Passed(calls, n))
            BY <2>4, <2>5, <2>6
        <3> QED BY <1>6, <2>1, <2>6, <3>1
    <2>7. CASE g \in visible
        <3> DEFINE k == Len(drawn)
        <3> HIDE DEF entry
        <3>1. drawn' = Append(drawn, entry)
            BY <2>1, <2>7
        <3>2. drawn \in Seq(S \cup {entry}) /\ k \in Nat /\ DOMAIN drawn = 1..k
            <4>1. \A i \in 1..Len(drawn) : drawn[i] \in S
                BY <1>4, ElementOfSeq
            <4> QED BY <1>4, <4>1
        <3>3. /\ drawn' \in Seq(S \cup {entry})
              /\ DOMAIN drawn' = 1..(k + 1)
              /\ drawn'[k + 1] = entry
              /\ \A i \in 1..k : drawn'[i] = drawn[i]
            BY <3>1, <3>2
        <3>4. entry.geometry = g
            BY DEF entry
        <3>5. /\ \A n : (\E i \in 1..k : drawn[i].geometry = n)
                            <=> (n \in Nodes /\ Shown(n) /\ Passed(calls, n))
              /\ \A i, j \in 1..k :
                    i < j => ComesBefore(drawn[i].geometry, drawn[j].geometry)
            BY <2>1, <3>2 DEF Pictured
        <3> HIDE DEF k
        <3>6. \A i : i \in 1..(k+1) <=> i \in 1..k \/ i = k + 1
            BY <3>2
        <3>7. \A n : (\E i \in DOMAIN drawn' : drawn'[i].geometry = n)
                            <=> (n \in Nodes /\ Shown(n)' /\ Passed(calls, n)')
            <4> SUFFICES ASSUME NEW n
                         PROVE  (\E i \in DOMAIN drawn' : drawn'[i].geometry = n)
                                    <=> (n \in Nodes /\ Shown(n)' /\ Passed(calls, n)')
                OBVIOUS
            <4>1. (\E i \in DOMAIN drawn' : drawn'[i].geometry = n)
                     <=> (\E i \in 1..k : drawn[i].geometry = n) \/ n = g
                BY <3>3, <3>4, <3>6
            <4>2. n \in Nodes /\ Shown(n) =>
                     (Passed(calls', n) <=> Passed(calls, n) \/ n = g)
                BY <2>5
            <4> QED BY <1>2, <1>5, <2>1, <2>2, <2>4, <2>7, <3>5, <4>1, <4>2
        <3>8. \A i, j \in DOMAIN drawn' :
                    i < j => ComesBefore(drawn'[i].geometry, drawn'[j].geometry)
            <4> SUFFICES ASSUME NEW i \in 1..(k+1), NEW j \in 1..(k+1), i < j
                         PROVE  ComesBefore(drawn'[i].geometry, drawn'[j].geometry)
                BY <3>3
            <4>1. i \in 1..k
                BY <3>2
            <4>2. CASE j \in 1..k
                BY <3>3, <3>5, <4>1, <4>2
            <4>3. CASE j = k + 1
                <5>1. drawn[i].geometry \in Nodes /\ Passed(calls, drawn[i].geometry)
                    BY <3>5, <4>1
                <5> QED BY <2>3, <3>3, <3>4, <4>1, <4>3, <5>1
            <4> QED BY <3>6, <4>2, <4>3
        <3>9. \A i, j \in DOMAIN drawn' :
                    i < j => ComesBefore(drawn[i].geometry, drawn[j].geometry)'
            BY <1>3, <3>8
        <3>10. Nodes' = Nodes
            BY DEF Nodes
        <3> QED BY <3>3, <3>7, <3>9, <3>10 DEF Pictured
    <2> QED BY <2>6, <2>7
<1>13. CASE UNCHANGED <<calls, drawn>> /\ (Idle \/ UNCHANGED visible)
    <2>1. CASE Idle
        BY <1>4, <1>13, <2>1 DEF Pictured, Idle
    <2>2. CASE ~Idle
        BY <1>6, <1>13, <2>2
    <2> QED BY <2>1, <2>2
<1>14. VisitGeometry => Returns
    BY DEF VisitGeometry, Entering, Returns
<1> QED
    BY <1>7, <1>8, <1>9, <1>10, <1>11, <1>12, <1>13, <1>14, DrawingSteps

\* Pictured starts, since nothing is drawn and no call is running.
LEMMA PicturedStarts == Init => Nested /\ Pictured
<1> SUFFICES ASSUME Init PROVE Nested /\ Pictured
    OBVIOUS
<1>1. calls = <<>> /\ drawn = <<>>
    BY DEF Init
<1>2. Len(calls) = 0 /\ 1..Len(calls) = {} /\ 1..(Len(calls) - 1) = {} /\ drawn \in Seq({})
    BY <1>1
<1> QED
    BY <1>1, <1>2 DEF Nested, Pictured, Idle

\* FrameShowsTheScene: when Visit returns, every visible geometry that is not
\* hidden below another has been drawn once, in the order of the graph, and
\* nothing else has been; over graphs of any size and shape, with any stack.
THEOREM VisibleAreDrawnInOrder == Spec => FrameShowsTheScene
<1> DEFINE Inv == Walk /\ Nested /\ Pictured
           Ends == calls # <<>> /\ calls' = <<>>
           Shows ==
              LET inFrame == [i \in DOMAIN drawn' |-> drawn'[i].geometry]
              IN  /\ {inFrame[i] : i \in DOMAIN inFrame} = {n \in Nodes : Shown(n)}
                  /\ \A i, j \in DOMAIN inFrame : i < j => ComesBefore(inFrame[i], inFrame[j])
<1>1. Init => Inv
    BY WalkStarts, PicturedStarts
<1>2. Inv /\ [Next]_vars => Inv'
    BY WalkKeeps, NestedKeeps, PicturedKeeps
<1>3. ASSUME Inv, [Next]_vars, Ends PROVE Shows
    <2>1. ~Idle /\ scene \in Scenes /\ 1 \in Nodes
        BY <1>3, SizeAssumption DEF Idle, Walk, OnPath, Nodes
    <2>2. /\ Len(calls) \in Nat \ {0} /\ Top = calls[Len(calls)]
          /\ Len(calls) = 1 => Top.node = 1
        BY <1>3, <2>1, TopFacts, TopPlace
    <2>3. calls' = <<>> /\ Len(calls') = 0
        BY <1>3
    <2>4. ~Begins /\ ~Descends /\ ~Enters
        <3>1. ~Begins
            BY <2>1 DEF Begins, Idle
        <3>2. Descends => Len(calls') = Len(calls) + 1
            BY <1>3, AfterDescent
        <3>3. Enters => Len(calls') = Len(calls)
            BY <1>3, AfterEntry
        <3> QED BY <2>2, <2>3, <3>1, <3>2, <3>3
    <2>5. Returns /\ Len(calls) = 1
        <3>1. Returns
            BY <1>3, <2>4, Movements
        <3>2. Len(calls') = Len(calls) - 1
            BY <1>3, <3>1, AfterReturn
        <3> QED BY <2>2, <2>3, <3>1, <3>2
    <2>6. Top.node = 1 /\ Kind(Top.node) = "group"
        BY <2>1, <2>2, <2>5, TreeFacts DEF Kind
    <2>7. Top.child > Len(Kids(Top.node)) /\ drawn' = drawn
        <3>1. ~VisitGeometry
            BY <2>6 DEF VisitGeometry, Entering
        <3>2. ~UNCHANGED calls
            BY <1>3
        <3> QED BY <1>3, <2>4, <3>1, <3>2, DrawingSteps
    <2>8. ASSUME NEW n \in Nodes, Shown(n) PROVE Passed(calls, n)
        <3>1. n # 1
            BY <2>6, <2>8 DEF Shown
        <3>2. PassedIn(calls, 1, n)
            BY <1>3, <2>1, <2>5, <2>6, <2>7, <3>1, LastChildPasses, AboveFacts
        <3> QED BY <2>5, <3>2 DEF Passed
    <2>9. /\ \A n : (\E i \in DOMAIN drawn : drawn[i].geometry = n) <=> (n \in Nodes /\ Shown(n))
          /\ \A i, j \in DOMAIN drawn :
                i < j => ComesBefore(drawn[i].geometry, drawn[j].geometry)
        BY <1>3, <2>1, <2>8 DEF Pictured
    <2> DEFINE inFrame == [i \in DOMAIN drawn |-> drawn[i].geometry]
    <2>10. /\ {inFrame[i] : i \in DOMAIN inFrame} = {n \in Nodes : Shown(n)}
           /\ \A i, j \in DOMAIN inFrame : i < j => ComesBefore(inFrame[i], inFrame[j])
        BY <2>9
    <2> QED BY <2>7, <2>10
<1>4. Walk /\ Nested /\ Pictured /\ [Next]_vars =>
         [calls # <<>> /\ calls' = <<>> =>
            LET inFrame == [i \in DOMAIN drawn' |-> drawn'[i].geometry]
            IN  /\ {inFrame[i] : i \in DOMAIN inFrame} = {n \in Nodes : Shown(n)}
                /\ \A i, j \in DOMAIN inFrame : i < j => ComesBefore(inFrame[i], inFrame[j])]_vars
    BY <1>3
<1> QED
    BY <1>1, <1>2, <1>4, PTL DEF Spec, FrameShowsTheScene
============================================================================
