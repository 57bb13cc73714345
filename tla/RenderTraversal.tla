------------------------- MODULE RenderTraversal -------------------------
(***************************************************************************)
(* RenderVisitorOpenGL1 drawing a scene graph, frame after frame.          *)
(*                                                                         *)
(* The recursion Accept - VisitX - TraverseChildren is an explicit stack   *)
(* of calls, so that the two matrix stacks of the visitor, the matrices    *)
(* loaded into OpenGL and the lights can be related to the position in the *)
(* graph at every moment.  Between frames the application changes the      *)
(* visibility of geometries, changes lights and replaces them.             *)
(*                                                                         *)
(* OpenGL itself is external: the two current matrices, what was uploaded  *)
(* to each light unit and which units are enabled.                         *)
(***************************************************************************)
EXTENDS Naturals, Sequences, FiniteSets, SequencesExt, ChildList, MatrixStack

CONSTANTS
    Size,            \* number of nodes; node 1 is the root
    Scenes,          \* the graphs to draw
    InitialChanged,  \* what the constructor of Light leaves in Changed
    MaxLights,       \* light units of the OpenGL implementation
    LightBudget,     \* bound: lights constructed during a run
    MaxFrames        \* bound: frames drawn during a run

Nodes == 1..Size
Kinds == {"group", "light", "camera", "transform", "geometry"}

\* An ordered tree: a node's parent is numbered below it, and its children
\* are ordered by their numbers.  The root is the Group of BaseApplication.
Trees == [par : {f \in [Nodes \ {1} -> Nodes] : \A n \in Nodes \ {1} : f[n] < n},
          kind : {k \in [Nodes -> Kinds] : k[1] = "group"}]

ASSUME SizeAssumption == Size \in Nat \ {0}
ASSUME ScenesAssumption == Scenes \subseteq Trees
ASSUME ChangedAssumption == InitialChanged \subseteq BOOLEAN
ASSUME LightsAssumption == MaxLights \in Nat /\ LightBudget \in Nat

VARIABLES
    scene,         \* the graph: parent and class of every node
    visible,       \* the geometries that are shown
    lights,        \* per light: _state set, LightNumber, Changed, its values
    created,       \* lights constructed so far
    calls,         \* running VisitX calls, outermost first
    modelView,     \* _modelViewMatrix
    projection,    \* _projectionMatrix
    lightCounter,  \* LightCounter
    glModelView,   \* the matrices loaded into OpenGL
    glProjection,
    glLights,      \* per light unit: whose values it was given, which, and
                   \* under which matrix OpenGL put its position
    glEnabled,     \* the enabled light units
    drawn,         \* the geometries drawn in this frame, and with what
    frame

lightVars == <<lights, lightCounter, glLights, glEnabled>>
matrixVars == <<modelView, projection, glModelView, glProjection>>
vars == <<scene, visible, created, calls, drawn, frame, lightVars, matrixVars>>

Kind(n) == scene.kind[n]
Kids(n) ==
    LET own == {m \in Nodes \ {1} : scene.par[m] = n}
    IN  CHOOSE f \in [1..Cardinality(own) -> own] : Increasing(f, own)
LightNodes == {n \in Nodes : Kind(n) = "light"}

\* The values of a light are 0 or 1; a unit that was never given any is Unset.
Unset == [of |-> 0, value |-> 0, under |-> Identity]
NewLight(c) == [state |-> FALSE, number |-> 0, changed |-> c, value |-> 0]

Idle == calls = <<>>
Top == calls[Len(calls)]
\* A call that has been made but has not run its first statement is at 0.
Call(n) == [node |-> n, child |-> 0]
Entering(k) == ~Idle /\ Top.child = 0 /\ Kind(Top.node) = k
AtChild(i) == [calls EXCEPT ![Len(calls)].child = i]
\* it == end() in TraverseChildren.  Mutant: the loop goes one too far.
ChildrenDone_Late == ~Idle /\ Top.child > Len(Kids(Top.node)) + 1
ChildrenDone == ~Idle /\ Top.child > Len(Kids(Top.node))
Leaving(k) == ChildrenDone /\ Kind(Top.node) = k

Init ==
    /\ scene \in Scenes
    /\ visible = {n \in Nodes : Kind(n) = "geometry"}
    /\ \E c \in [LightNodes -> InitialChanged] :
          lights = [n \in LightNodes |-> NewLight(c[n])]
    /\ created = Cardinality(LightNodes)
    /\ calls = <<>>
    /\ modelView = FreshStack /\ projection = FreshStack
    /\ glModelView = Identity /\ glProjection = Identity
    /\ lightCounter = 0
    /\ glLights = [i \in 0..(MaxLights-1) |-> Unset]
    /\ glEnabled = {}
    /\ drawn = <<>>
    /\ frame = 0
-----------------------------------------------------------------------------
(* Visit and Traverse: the counters are reset, the root accepts.           *)
BeginFrame ==
    /\ Idle /\ frame < MaxFrames
    /\ frame' = frame + 1
    /\ drawn' = <<>>
    /\ calls' = <<Call(1)>>
    /\ UNCHANGED <<scene, visible, created, lightVars, matrixVars>>

\* One round of the loop of TraverseChildren.
TraverseChild ==
    /\ ~Idle /\ Top.child \in DOMAIN Kids(Top.node)
    /\ calls' = Append(AtChild(Top.child + 1), Call(Kids(Top.node)[Top.child]))
    /\ UNCHANGED <<scene, visible, created, drawn, frame, lightVars, matrixVars>>

EnterGroup ==
    /\ Entering("group")
    /\ calls' = AtChild(1)
    /\ UNCHANGED <<scene, visible, created, drawn, frame, lightVars, matrixVars>>

\* Groups and lights have nothing left to do after their children.
LeavePlain ==
    /\ Leaving("group") \/ Leaving("light")
    /\ calls' = Front(calls)
    /\ UNCHANGED <<scene, visible, created, drawn, frame, lightVars, matrixVars>>

\* A light seen for the first time takes the next number.
Numbered(l) ==
    IF l.state THEN l ELSE [l EXCEPT !.state = TRUE, !.number = lightCounter]

\* LightCounter after visiting l.
\* Mutants: every visit counts, or none does.
CounterAfter_Every(l) == lightCounter + 1
CounterAfter_Kept(l) == lightCounter
CounterAfter(l) == IF l.state THEN lightCounter ELSE lightCounter + 1

\* glLightfv on a unit OpenGL does not have is an error and has no effect.
Uploaded(n, l) ==
    IF l.changed /\ l.number < MaxLights
    THEN [glLights EXCEPT ![l.number] = [of |-> n, value |-> l.value, under |-> glModelView]]
    ELSE glLights

EnterLight ==
    /\ Entering("light")
    /\ LET n == Top.node
           l == Numbered(lights[n])
       IN  /\ lightCounter' = CounterAfter(lights[n])
           /\ glLights' = Uploaded(n, l)
           /\ lights' = [lights EXCEPT ![n] = [l EXCEPT !.changed = FALSE]]
           /\ glEnabled' = glEnabled \cup ({l.number} \cap 0..(MaxLights-1))
    /\ calls' = AtChild(1)
    /\ UNCHANGED <<scene, visible, created, drawn, frame, matrixVars>>

\* The camera replaces both current matrices and loads them into OpenGL.
EnterCamera ==
    /\ Entering("camera")
    /\ modelView' = LoadMatrix(PushMatrix(modelView), <<Top.node>>)
    /\ projection' = LoadMatrix(PushMatrix(projection), <<Top.node>>)
    /\ glProjection' = Last(projection')
    /\ glModelView' = Last(modelView')
    /\ calls' = AtChild(1)
    /\ UNCHANGED <<scene, visible, created, drawn, frame, lightVars>>

\* What OpenGL is given when a camera is left.
\* Mutants: the one or the other matrix is not loaded back.
ReloadedProjection_Kept(p) == glProjection
ReloadedProjection(p) == Last(p)
ReloadedModelView_Kept(m) == glModelView
ReloadedModelView(m) == Last(m)

LeaveCamera ==
    /\ Leaving("camera")
    /\ projection' = PopMatrix(projection)
    /\ modelView' = PopMatrix(modelView)
    /\ glProjection' = ReloadedProjection(projection')
    /\ glModelView' = ReloadedModelView(modelView')
    /\ calls' = Front(calls)
    /\ UNCHANGED <<scene, visible, created, drawn, frame, lightVars>>

\* A transform multiplies onto the current matrix.
\* Mutant: it is loaded instead.
Transformed_Loaded(s, n) == LoadMatrix(PushMatrix(s), <<n>>)
Transformed(s, n) == MultMatrix(PushMatrix(s), n)

EnterTransform ==
    /\ Entering("transform")
    /\ modelView' = Transformed(modelView, Top.node)
    /\ glModelView' = Last(modelView')
    /\ calls' = AtChild(1)
    /\ UNCHANGED <<scene, visible, created, drawn, frame, projection, glProjection, lightVars>>

\* Mutant: the matrix is not popped.
AfterTransform_Kept(s) == s
AfterTransform(s) == PopMatrix(s)

\* The visitor's own matrix is restored; OpenGL keeps the one it has.
LeaveTransform ==
    /\ Leaving("transform")
    /\ modelView' = AfterTransform(modelView)
    /\ calls' = Front(calls)
    /\ UNCHANGED <<scene, visible, created, drawn, frame, projection,
                   glModelView, glProjection, lightVars>>

\* An invisible geometry is skipped; the children of a geometry always are.
\* Mutant: what is invisible is drawn as well.
Draws_Always(n) == TRUE
Draws(n) == n \in visible

VisitGeometry ==
    /\ Entering("geometry")
    /\ drawn' = IF Draws(Top.node)
                THEN Append(drawn, [geometry |-> Top.node, at |-> glModelView,
                                    through |-> glProjection])
                ELSE drawn
    /\ calls' = Front(calls)
    /\ UNCHANGED <<scene, visible, created, frame, lightVars, matrixVars>>
-----------------------------------------------------------------------------
(* What the application does between two frames.                           *)
SetVisibility(n) ==
    /\ Idle /\ frame > 0
    /\ Kind(n) = "geometry"
    /\ visible' = (visible \cup {n}) \ (visible \cap {n})
    /\ UNCHANGED <<scene, created, calls, drawn, frame, lightVars, matrixVars>>

\* SetPosition, SetAmbient, SetDiffuse, SetSpecular.
\* Mutant: the setter does not mark the light.
SetLight_Unmarked(n) == [lights[n] EXCEPT !.value = 1 - @]
SetLight(n) == [lights[n] EXCEPT !.value = 1 - @, !.changed = TRUE]

ChangeLight(n) ==
    /\ Idle /\ frame > 0
    /\ n \in LightNodes
    /\ lights' = [lights EXCEPT ![n] = SetLight(n)]
    /\ UNCHANGED <<scene, visible, created, calls, drawn, frame, lightCounter,
                   glLights, glEnabled, matrixVars>>

\* The light is removed from the graph and a new one added in its place; the
\* visitor is not told.
ReplaceLight(n) ==
    /\ Idle /\ frame > 0
    /\ n \in LightNodes /\ created < LightBudget
    /\ created' = created + 1
    /\ \E c \in InitialChanged : lights' = [lights EXCEPT ![n] = NewLight(c)]
    /\ UNCHANGED <<scene, visible, calls, drawn, frame, lightCounter,
                   glLights, glEnabled, matrixVars>>

Visitor ==
    \/ TraverseChild \/ EnterGroup \/ LeavePlain \/ EnterLight
    \/ EnterCamera \/ LeaveCamera \/ EnterTransform \/ LeaveTransform
    \/ VisitGeometry

Next == \/ BeginFrame \/ Visitor
        \/ \E n \in Nodes : SetVisibility(n) \/ ChangeLight(n) \/ ReplaceLight(n)

Spec == Init /\ [][Next]_vars

\* The visitor runs to its end once called: Visit is a synchronous call.
FairSpec == Spec /\ WF_vars(Visitor)
-----------------------------------------------------------------------------
TypeOK ==
    /\ scene \in Scenes
    /\ visible \subseteq {n \in Nodes : Kind(n) = "geometry"}
    /\ lights \in [LightNodes -> [state : BOOLEAN, number : Nat, changed : BOOLEAN, value : {0, 1}]]
    /\ calls \in Seq([node : Nodes, child : 0..(Size+1)])
    /\ modelView # <<>> /\ projection # <<>>
    /\ lightCounter \in 0..LightBudget
    /\ glEnabled \subseteq 0..(MaxLights-1)

\* The matrices a node is to be drawn with, from the graph alone: the nearest
\* camera above replaces, the transforms below it multiply.
PathModelView ==
    LET at[n \in Nodes] ==
            LET above == IF n = 1 THEN Identity ELSE at[scene.par[n]]
            IN  CASE Kind(n) = "camera"    -> <<n>>
                  [] Kind(n) = "transform" -> Append(above, n)
                  [] OTHER                 -> above
    IN  at

PathProjection ==
    LET at[n \in Nodes] ==
            IF Kind(n) = "camera" THEN <<n>>
            ELSE IF n = 1 THEN Identity ELSE at[scene.par[n]]
    IN  at

\* Every push of VisitCamera and VisitTransform has its pop: whatever the
\* visitor is at, its matrices are those of the path to it, and after the
\* frame both stacks are as the constructor left them.
MatricesFollowThePath ==
    IF Idle THEN modelView = FreshStack /\ projection = FreshStack
    ELSE Top.child > 0 => /\ Last(modelView) = PathModelView[Top.node]
                          /\ Last(projection) = PathProjection[Top.node]

\* The stack pointers stay inside the arrays, frame after frame.
StacksInsideArrays == InsideArray(modelView) /\ InsideArray(projection)

\* Every geometry is projected through the nearest camera above it: leaving
\* a camera gives OpenGL the outer projection back.
DrawnThroughItsCamera ==
    \A i \in DOMAIN drawn : drawn[i].through = PathProjection[drawn[i].geometry]

\* Every geometry is drawn with the product of the transforms above it.
DrawnWhereItBelongs ==
    \A i \in DOMAIN drawn : drawn[i].at = PathModelView[drawn[i].geometry]

\* The shape every application of the repository gives its graph: a geometry
\* is the only child of a transform.
GeometriesAlone ==
    \A n \in Nodes \ {1} : Kind(n) = "geometry" =>
        Kind(scene.par[n]) = "transform" /\ Kids(scene.par[n]) = <<n>>

\* In graphs of that shape no geometry ever meets the matrix that leaving a
\* transform forgets in OpenGL.
ApplicationsAreDrawnRight == GeometriesAlone => DrawnWhereItBelongs

Above ==
    LET of[n \in Nodes] == IF n = 1 THEN {} ELSE {scene.par[n]} \cup of[scene.par[n]]
    IN  of

Shown(n) ==
    /\ Kind(n) = "geometry" /\ n \in visible
    /\ \A m \in Above[n] : Kind(m) # "geometry"

\* Of two nodes, neither above the other, m comes first: where the paths to
\* them part, the one to m goes by the earlier child.
ComesBefore(m, n) ==
    \E a \in {m} \cup Above[m], b \in {n} \cup Above[n] :
        a # 1 /\ b # 1 /\ scene.par[a] = scene.par[b] /\ a < b

\* A frame draws each visible geometry once, in the order of the graph, and
\* nothing else; what hangs below a geometry is never reached.
FrameShowsTheScene ==
    [][calls # <<>> /\ calls' = <<>> =>
         LET inFrame == [i \in DOMAIN drawn' |-> drawn'[i].geometry]
         IN  /\ {inFrame[i] : i \in DOMAIN inFrame} = {n \in Nodes : Shown(n)}
             /\ \A i, j \in DOMAIN inFrame : i < j => ComesBefore(inFrame[i], inFrame[j])]_vars

\* Two lights never share a unit, also after lights have been replaced.
LightsHaveTheirOwnUnit ==
    \A m, n \in LightNodes :
        m # n /\ lights[m].state /\ lights[n].state => lights[m].number # lights[n].number

\* A light that was visited and not changed since shines with its present
\* values: the Changed flag never hides an update from OpenGL.
LightsAreUploaded ==
    \A n \in LightNodes :
        lights[n].state /\ ~lights[n].changed =>
            /\ glLights[lights[n].number].of = n
            /\ glLights[lights[n].number].value = lights[n].value
            /\ lights[n].number \in glEnabled

\* The shape SimpleApplication begins a graph with, and which all showcases
\* but AddRemoveChild keep: no camera or transform is above a light, and a
\* camera is above every transform.
LightsFirst ==
    \A n \in Nodes :
        /\ Kind(n) = "light" => \A m \in Above[n] : Kind(m) \in {"group", "light"}
        /\ Kind(n) = "transform" => \E m \in Above[n] : Kind(m) = "camera"

\* In graphs of that shape OpenGL takes the position of a light as it is, at
\* whatever frame it is uploaded: nothing a camera or a transform loaded in
\* the frame before is left when the light is visited.
LightsStandStill == LightsFirst => \A i \in DOMAIN glLights : glLights[i].under = Identity

\* Every frame that is begun is finished.
FrameEnds == ~Idle ~> Idle
==========================================================================
