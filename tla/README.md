# 3D-Scenegraph: models, checks and proofs

TLA+ models of the scene graph library under `src/Src`, TLC configurations that
check them on small instances, and TLAPS proofs of what holds for every
instance. Paths below are relative to `src/`.

The program is a C++ scene graph over fixed-function OpenGL and GLUT. It is
single threaded. What makes it hard is ownership (raw pointers, recursive
destructors), a recursive visitor with state of its own that has to agree with
OpenGL's, data that is sent to OpenGL only when a flag says so, and GLUT
callbacks that arrive in any order.

## 1. The system

| Component | State | Operations | Interacts with | Hard | Correct when |
|---|---|---|---|---|---|
| Node, CompositeNode (`Src/Graph/Node.cpp`, `CompositeNode.hpp`) | `_name`, `_parent`, `_children` | constructor, SetName, SetParent, AddChild, RemoveChild by pointer and by name, destructor, GetByName, iterators | every node class derives from it; visitors walk the lists | recursive destructors run over raw pointers that other lists may hold | no node is used or deleted after its destruction; parents and lists agree; a removal takes exactly the subtree it was asked for; a lookup finds the first node of a name |
| Node classes (Group, Transform, Camera, Light, Geometry) | matrix; frustum; `Changed`, `_state`, light values; mesh, visibility | setters and getters, Accept | double dispatch with a NodeVisitor | Light's `Changed` is a protocol between setters, constructor and renderer | each change is seen by the next frame |
| RenderVisitorOpenGL1 | two matrix stacks, light counter, frame counters | Visit, Traverse, TraverseChildren, Visit&lt;Class&gt; | called by BaseApplication; loads matrices and lights into OpenGL | pushes and pops spread over nested calls; OpenGL holds copies | matrices are those of the path; all and only the visible geometries are drawn, once, in order |
| GLMatrixStack (`Src/Include/GLMatrixStack.h`) | array, stack pointer | Push, Pop, Load, Mult | used by the renderer | limit of the array; silent under- and overflow | pointer inside the array |
| State, OpenGLState | lists of enables and disables, material | Enable, Disable, SetMaterial, Merge, =, copy, Apply | held by lights and geometries | lists allocated on demand; aliasing; order of Apply | the last call for a capability decides |
| BaseApplication, SimpleApplication | PauseFlag, FrameCounter, root node, camera | Start, RenderBase, ResizeBase, TimerS, HandleKeysSimple | GLUT calls it; it calls the application's Init, Update, HandleKeys | order of timers, redisplays and keys; two platforms | frames go on; a pause loses and repeats no update |
| InputManager | two multimaps: keys to actions, actions to callbacks | AddBinding, AddListener, AddGlobalListener, HandleKeys | GLUT, SimpleApplication | callbacks may register more callbacks | a key reaches each of its listeners |
| Showcases AddRemoveChild, PongGame | counters; ball, bats, GameOver | Init, Update, HandleKeys | the framework, the graph | sequences of hundreds of frames with keys in between | the graph shows the counted cubes; ball and bat stay in the court |
| OpenGLDrawing | last material pointer, three counters | Draw*, SetDrawingColorAndMaterial | called by VisitGeometry | what is remembered and what OpenGL holds must not come apart | every face is drawn with its own material, or it is known when not; the counters are those of one frame |
| Update visitors, transform strategies | strategy, matrix, material to set | Visit*, Apply, factory | TestGraphApp applies two of them in every frame | uninitialised members; results of lookups that may be 0 | the addressed transform, and no other, is changed |
| Mesh, Material, Datatypes | vectors of vertices and faces, names | accessors, Scale, destructor | loaders and primitives fill it, VisitGeometry reads it | counts and vectors must match | each index below a count is valid |
| Mesh loaders | the mesh and material being built | Load, ReadMaterialFile, ReadFace, IsPolygonConvex | MeshFileLoader opens the file; the mesh owns what was read | lines in any order; a material is kept aside until the next begins | the mesh is what the file says; each material is owned once; convex faces are found convex; Load returns |
| Cube, Torus, Sphere | none | Init | Mesh | index arithmetic at the seam | closed surface, all faces wound alike |

Vendored code (GLTools, math3d, GLEW, glog, nvwa), the old OBJ loader and the
shader renderer (neither in the Makefile) are out of scope, except
GLMatrixStack, on which the renderer rests.

## 2. Modules

| Module | Models | Uses |
|---|---|---|
| `ChildList` | `list::remove` on a list of pointers | |
| `Forest` | abstract specification: an ordered forest with Plant, Graft, Prune | ChildList |
| `SceneGraph` | Node.cpp and CompositeNode.hpp, destructors call by call | ChildList, instance of Forest |
| `MatrixStack` | GLMatrixStack | |
| `RenderTraversal` | RenderVisitorOpenGL1 over any tree, frame after frame, with what applications change in between | MatrixStack |
| `RenderState` | State and OpenGLState::Apply | |
| `Application` | BaseApplication and SimpleApplication under GLUT | |
| `AddRemoveChild`, `PongGame` | the two showcases with behaviour of their own | Application |
| `Polygons` | faces as sequences of corners: the loader's convexity test, and the reference definitions of convex, closed and oriented | |
| `Primitives` | the faces of Cube, Torus and Sphere | Polygons |
| `ObjLoader` | MeshLoaderObj: OBJ and MTL files line by line | Polygons |
| `MeshShow` | a loaded file and a primitive, drawn frame after frame through OpenGLDrawing | ObjLoader, Primitives |
| `MC*` | symmetry, sets of trees, assumptions on the numbers, for TLC | the module of the same name |
| `ChildListProofs`, `SceneGraphProofs`, `RenderTraversalProofs`, `RenderStateProofs`, `ApplicationProofs`, `AddRemoveChildProofs`, `PongGameProofs`, `MeshShowProofs` | lemmas and theorems | the module of the same name |

### SceneGraph

`alive` is the set of addresses with a node; `name`, `parent` and `children`
are the members of the same names. A recursive destructor is a stack `dtor` of
activations with the position of their loop: `DeleteNextChild` is one round of
the loop in `~CompositeNode`, `FinishDestructor` its end. Client calls are
possible only while no destructor runs. An address can be reused after delete;
one without a node has a name, `Blank`, that stands for nothing in the code. The
constructor without a name means to number the nodes but moves a pointer along
the literal "Node" (`Node.cpp:9`); for the model it gives some name, as the other
does.
`GetByName` changes nothing; it is a recursive function over the state. The
nodes above and below a node are the least closed sets (`Ancestry`, `Subtree`).
`broken` becomes TRUE where the code would touch a destroyed node; this is
undefined behaviour, so nothing more is modelled after it.

Both RemoveChild end in `RemoveAndDelete`: the pointer is removed from the list
and the node deleted if the list has become shorter. The search by name that
finds nothing goes that way too, with a null pointer (`SearchedChild`).

`CarefulClient` is what the applications do: they add nodes that have no
parent, never above themselves, delete only roots and do not call SetParent.
It is an assumption about the callers (`MayAdd`, `MayDelete`): AddChild tests
nothing of the kind, so no property claims that there are no rings. With it
FALSE the client may do anything the interface permits. A client's own copies of
pointers are outside of the model: it names a node only while one lives there.

`Forest` is the promise: the graph is a set of nodes with ordered children,
and a removal prunes a whole subtree in one step. The refinement mapping
leaves out the nodes a running deletion is going to destroy: the entry into
the outermost destructor is the abstract Prune, all later steps of all nested
destructors stutter.

### RenderTraversal and MatrixStack

`calls` is the recursion Accept, VisitX, TraverseChildren: a node and the
position of its loop, 0 before the first statement of VisitX has run. There is
an action for entering and one for leaving each class, and one for a round of
TraverseChildren. `modelView` and `projection` are the visitor's stacks;
`glModelView`, `glProjection`, `glLights` and `glEnabled` are what OpenGL was
given; `glLights` keeps under which matrix a position was given, since that is
the one OpenGL transforms it by. A matrix is the sequence of the nodes whose matrices were multiplied,
so two matrices are equal here exactly when they are the same product of the
same factors. Values of lights are 0 or 1 and every setter changes them.
Between frames the application toggles the visibility of geometries, changes
lights, and replaces a light by a new one in its place. The bounds are
`MaxFrames`, `LightBudget` (lights constructed in a run) and `Size`. A transform
that is moved between frames, as PongGame and TestGraphApp do, keeps its name, so
what depends on its having moved is not seen (see 5).

### RenderState

The lists are sets. A missing list of enables behaves like an empty one in all
code, a missing list of disables does not (Merge walks it unasked), so
`hasDisables` is kept. `broken` marks null, freed and uninitialised pointers.
`EnablesOnly` restricts Merge to arguments without disables, which is all the
repository does (the light's default state has enables only).

### Application, AddRemoveChild, PongGame

One action per GLUT callback. GLUT is external: it fires an armed timer and
delivers a posted redisplay, and brings keys, changes of size and closing the
window at any time. A frame is one step, since nothing interleaves with it.
`FrameCounter` is kept modulo `FrameModulus`: the code counts in an int and
uses only the remainder by 10. `Linux` selects the branch of the `#if`s. Pong's
lengths are in hundredths and added exactly; the code adds floats. Where a
float comparison, or the choice between `abs` of int and of float, may go
either way (`Lost`), the model allows both.

### ObjLoader, Primitives and MeshShow

`file` is what has been read so far, and its next line is chosen when it is
read: so every file of the given kinds of lines is covered, and what the mesh
should be is defined of the lines themselves, apart from the loader. A line is
a keyword and what matters of the rest: the corners of a face, the name of a
material, the library. A keyword without a blank takes the following line for
its own (`Swallowed`), as in the code, which reads up to the next blank. There
is one action per branch of Load and of ReadMaterialFile; `library` is the line
of the library being read, `pending` its material that is not yet in the map.
A material's address is the line that made it. Of a material's values those
that OpenGL is given are kept, and apart only as far as lines change them
differently: Ka and Kd set one `color` (d and Tr are read like them, though
OpenGL is not given the transparency), Ks sets `specular`, the colour of the
highlight, and clears the shininess, Ns sets the shininess.

ReadFace tests nothing: an index that is none of the vertices read so far leaves
the vector, and so do the first three indices of a face with fewer. `broken` marks
this and a write through a pointer to a material that is not set. Nothing is
assumed of the files: faces may stray, libraries may describe what they have
not named.

`IsPolygonConvex` is the code's test on integer points. A primitive's corner is
named by its two angles, equal after a turn, or as a pole; the rounding of sine
and cosine is left out.

`DrawFrame` is one whole frame, since nothing comes in between: the faces of
the file, then the primitive, each through `SetDrawingColorAndMaterial` with
the address that was remembered last and what OpenGL holds. Primitives come and
go between frames as in AddRemoveChild. Each makes its material on the heap and
`~Mesh` frees it, so the address of a new one is any of `Heap`, the remembered
one included. The materials of the file stay alive, so a heap address is never
theirs. One primitive is there at a time, and files are loaded before the first
frame, as in all applications. `mistaken` is for the properties: the material of
the current primitive lies at the remembered address while OpenGL holds other
values.

## 3. Runs

| Run | Shows | Bounds, and why they are enough |
|---|---|---|
| `scene_graph` | careful clients: no use after free, links agree at every step of every destructor, refinement of Forest, deletions end, a lookup by name finds the first living node of that name, a removal by name takes the first child of that name and otherwise nothing (`OnlyTheNamedGoes`) | 4 nodes: a chain of depth 4, a node with 3 children, two trees, reuse of an address; 2 names: found at first or later position, or not |
| `scene_graph_any_client` | whatever the client does, a destructor that finishes has outlived all its children | 3 nodes, lists of 2: doubles, rings, two parents |
| `scene_graph_two_lists` | **violated**: a node stays in its earlier parent's list | |
| `render` | see below | every tree of 4 nodes (5 classes), application-like trees of 5; 2 frames with any changes between them, 3 light units |
| `render_stale_matrix` | **violated**: a geometry after a transform inherits its matrix | |
| `render_unset_changed` | **violated**: a light whose `Changed` starts FALSE is never uploaded | |
| `render_state` | the last call decides; Apply has the documented outcome | 2 states, 3 capabilities, 1 material; each call concerns one or two states and capabilities are independent |
| `render_state_merge` | **violated**: Merge drops the disables of its argument | |
| `add_remove_child` | exactly the counted cubes are shown; the number of frames shown decides what the graph is, whatever pauses and skipped frames come between (`NoUpdateIsLostOrRepeated`); frames and turns go on | the numbers of the code, 10 and 10; the frame counter goes round after 220 frames, a whole cycle of 22 updates |
| `pong_game` | ball and bat in the court, the computer meets the ball, the ball comes back | speeds and steps of the code, a court scaled from 375 x 410 to 45 x 56 with no position exactly on a limit, as in the code |
| `mesh_show` | see below | 5 points of a pentagon; 7 faces (triangle, quad, polygon, two crossed, one with index 0, one with two corners); 4 libraries (two materials; a name twice, a swallowed line, Ns before Ks; an attribute before any name; one that cannot be opened); any 4 lines after 4 vertices: enough for a library, a usemtl and two faces, for two libraries that define the same name, or for a face before its last vertex; beside a primitive any 2 lines; cube, torus of 3 by 2, sphere of 3 by 3; 2 heap addresses, so that a new primitive gets the remembered one or another |
| `obj_last_face` | **violated**: a face as last line without a newline is never read to its end | one triangle |

`render` checks: matrices follow the path and are back to the start after the
frame (`MatricesFollowThePath`), stack pointers stay inside arrays no deeper
than the tree (`StacksInsideArrays`), each geometry is projected through the
nearest camera above it (`DrawnThroughItsCamera`), application-like graphs are
drawn with the right model matrices (`ApplicationsAreDrawnRight`), lights have
distinct units (`LightsHaveTheirOwnUnit`) and their current values
(`LightsAreUploaded`, with `Changed` initialised), a frame draws the visible
geometries, each once, in the order of the graph (`FrameShowsTheScene`) and ends (`FrameEnds`), and in
graphs that begin as SimpleApplication begins them no matrix left over moves a
light (`LightsStandStill`). In
`render` the stacks have four elements, where the code has 64: just enough for
the trees with most cameras and transforms above each other, so one matrix
left over by any frame would not fit. No frame of the run pushes onto a full
stack, as no application does: what happens then (one push goes
through and writes behind the array, further ones are dropped without a word, the
pops are not) is in `MatrixStack`, and excluded from the theorems by `Shallow`,
but exercised by no run. Nor do lights run out of units.

`mesh_show` checks of the loaded mesh: the loader leaves a vector or writes
through an unset pointer exactly when the lines read so far have a face that
strays from the vertices before it, or a library that describes a material before
it names one (`BreaksExactlyAtFaults`); until then the faces are those of the
file, in order, with the material the last known usemtl asked for
(`FacesAreAsWritten`), the map holds every material made, once
(`MeshOwnsItsMaterials`), and each has what its own lines say, Ks and Ns in
either order (`MaterialsAreAsWritten`). Of each frame: a strictly convex face of
the file is on the screen in the colours of its material
(`ConvexFacesAreShown`), whatever primitives came and went at whatever
addresses; a primitive is drawn in its own values if and only if its material was
not put at the remembered address with other values, or a face of the file is
drawn before it (`PrimitivesInTheirMaterial`); and the counters count that frame
only (`CountersAreOfTheFrame`). Of the primitives: along every edge an even
number of faces meet, and but for the bottom of the cube all are wound alike
(`PrimitivesAreClosed`). `MCMeshShow` also assumes, and so lets TLC evaluate, that
its usemtl lines and primitives meet the hypotheses of the proofs, and that no
strictly convex quadrilateral of a 3 by 3 grid is taken for concave.

Deadlock is checked in `scene_graph`. The other runs switch it off: frames and
lights are bounded, applications end, and after undefined behaviour, which the
files of `mesh_show` can bring about, nothing is said of the program.

### Fairness

`WF(Destructor)` and `WF(Visitor)`: a destructor or visit that has been
entered is a synchronous call, so it runs on. `WF` of Start, TimerS, Frame and
SkipFrame: GLUT fires an armed timer and delivers a posted redisplay.
`WF(Load)`: reading a file is one call, which goes on until it returns. No
fairness is assumed for keys, resizing or any call of a client. The liveness
properties of applications are about runs that stay open and from some time on
unpaused; otherwise nothing has to happen.

### Findings

1. AddChild of a node with a parent leaves it in both lists, contrary to
   `CompositeNode.hpp:27` and `Tests/TestCompositeNode.cpp:41`; both parents
   will delete it.
2. VisitTransform restores its own matrix but not OpenGL's
   (`RenderVisitorOpenGL1.cpp:222`; VisitCamera does both). The repository's
   applications do not notice, since each geometry is the only child of a
   transform: `ApplicationsAreDrawnRight` holds.
3. `Light(string)` does not initialise `Changed`, though `Light.cpp:4` says so.
4. `State::Merge` walks its own disables instead of its argument's.
5. ReadFace waits for the newline after a face (`MeshLoaderObj.cpp:440`): if
   the file ends there, Load never returns, though `MeshLoaderObj.cpp:22`
   promises a mesh or 0.

Read in the code, where it differs from a comment or a test, or from what one
would expect, but too shallow for a run:
- SetParent accepts the node itself (`Node.cpp:28`, `Tests/TestNode.cpp:28` say
  it does not); `TestCompositeNode.cpp:77-80` deletes children before the parent
  that still lists them; RemoveChild by name does not reset the parent it
  promises to reset (`CompositeNode.hpp:55`), it deletes the node.
- On Linux Esc only declares `glutLeaveMainLoop` (`SimpleApplication.cpp:96`);
  the codes of the keys Y and Z are those of X (`InputManager.h:40`).
- A file that cannot be opened gives an empty mesh, not 0
  (`MeshFileLoader.cpp:11`): only `bad()` is asked for, which opening does not
  set.
- Names of materials keep a carriage return (`RemoveLineBreaks` removes tabs and
  newlines), so an MTL file with CRLF and an OBJ file without do not match.
- An attribute before the first newmtl is written through an uninitialised
  pointer, and an index of a face is looked up unchecked
  (`MeshLoaderObj.cpp:444`): both are modelled, and `BreaksExactlyAtFaults` says
  when they happen. Ks after Ns takes the shininess away; a material of a library
  that is called Proto is hidden by the loader's own.
- A material on the heap can get the address of a freed one that is remembered as
  the last (`OpenGLDrawing.cpp:10`): a sphere made after a torus was deleted may
  be drawn as the torus was, in every frame until something else is drawn first.
  `PrimitivesInTheirMaterial` says exactly when. AddRemoveChild makes cubes only,
  all of the same values, so there it does not show.
- Darts that turn back once along each axis pass for convex; concave faces are
  loaded and never drawn (`RenderVisitorOpenGL1.cpp:204`, a TODO);
  GetQuadConcaveCount counts the others (`Mesh.cpp:164`).
- The bottom of the cube is wound inwards, so it is culled; the torus draws the
  first segment of each ring twice.
- The renderer ignores RemoveDiffuse, RemoveSpecular and the transparency of a
  material; a material changed in place after it was drawn last may not be sent
  again (`OpenGLDrawing.cpp:10`).
- In a graph with transforms outside of any camera, as AddRemoveChild's, a light
  that is uploaded in a later frame is placed under the matrix the last
  transform left.

## 4. Proofs

All theorems hold for any values of the constants that meet the named
assumptions.

*SceneGraphProofs*, for any finite number of nodes (`NodesAssumption`) and lists
of any length.
- Whatever the client does: `TypeCorrect`, and `NothingLeaks`
  (`ChildrenDieFirst`), no destructor returns before those of all nodes in its
  list. The invariant `AnyInv` says of the running destructors that each was
  called by the one before it in the stack, for the child just before its loop
  position (`CallsNest`), and that children the loop has passed are dead, but for
  the one whose destructor runs now (`PassedChildrenAreGone`).
- For a careful client: `NoDoubleDelete` (`NoUndefinedBehaviour`) and
  `LinksStayConsistent` (`LinksConsistent`). Neither is inductive alone, since a
  running destructor is in the middle of breaking the links. `IInv` adds to both
  that the caller of a destructor is the parent of its node (`CalledByParent`)
  and that the node whose deletion was asked for is in no living list
  (`DoomedIsUnlisted`). With these the next child of the innermost loop is alive
  and not in the stack (otherwise it would be listed twice or have two parents),
  so `Delete` never meets a dead node.
- `RemovalByNameIsExact` (`OnlyTheNamedGoes`), from `IInv`: with all listed
  children alive the search reads names only, a null pointer is in no list, and
  the node it finds is in the list once.
- The two theorems that follow need that there are no rings. AddChild closing
  none is the assumption `MayAdd`; the lemma `AcyclicPreserved` shows that no
  destructor, removal or renaming makes one either. `GraphInv` is `IInv` with
  that. What is above a node, and what is below it, are least closed sets in the
  model, so that a fact about them is proved by giving a set that is closed:
  `Chain` is such a set for any values of the links, and the lemmas about it say
  what adding one link and taking away nodes do to it.
- `GraphImplementsForest` (`ImplementsForest`): every step of the destructors,
  however deep, is a step of the abstract `Forest` or none. The entry into the
  outermost destructor prunes the subtree; a later one stutters, since the node
  it destroys is below the doomed one, and nothing that is not below it is
  touched.
- `LookupStaysRight` (`LookupFindsTheFirst`): `GetByName` is a table by depth, one
  row for each round of calls. If the calls on the children answer right, so does
  the one at their parent (`FoundAtIsFirst`); without rings the part below a child
  is smaller, so a row as deep as there are nodes answers right everywhere.

There is one lemma per action. `ChildListProofs` proves what `list::remove`
leaves of a list (`WithoutProperties`) from the enumeration of a set of positions.

*RenderTraversalProofs.* For graphs of any size and shape and any number of
frames and lights. Of the graphs it assumes `Shallow`, that no path has as many
cameras and transforms as the stacks have elements (`StackDepth`, 64 in the
code), wherever the stacks matter:
- `MatricesAreThoseOfThePath` (`MatricesFollowThePath`), `StacksStayInside`
  (`StacksInsideArrays`), `TheNearestCameraProjects` (`DrawnThroughItsCamera`).
  The invariant `Walk` says that the running calls are a path of the graph from
  its root, each in the children of the one before. `Matrices` says that both
  stacks are those tabulated for the innermost node being visited; a table is a
  recursive function over the tree, and that one exists (`Recursion`), and that
  what passes from parents to children holds everywhere (`TreeInduction`), is
  proved from the smallest node at which it would fail.
- `VisibleAreDrawnInOrder` (`FrameShowsTheScene`), without `Shallow`. The order
  of the graph is stated without a list of all nodes: m comes before n where
  their paths part and m's goes by the earlier child (`ComesBefore`), which is
  shown to be irreflexive, so nothing is drawn twice. The invariant `Pictured`
  says that what is drawn is what the walk has left behind (`Passed`): the
  subtrees of the children before each running call's position. For that each
  call has to be at the child its caller is at (`Nested`). Going down leaves
  nothing behind, a geometry that returns leaves itself, and the return from any
  other node moves what lay behind its call to what lies behind its caller's.
- `GeometriesAloneAreDrawnRight` (`ApplicationsAreDrawnRight`) adds `Restored`
  and `UpToDate`: OpenGL has the top of the stack except after a transform.
- `LightsAreNotMoved` (`LightsStandStill`) adds `Still`: outside of cameras
  OpenGL has the identity.
- `NoUnitIsShared` (`LightsHaveTheirOwnUnit`), without assumptions: numbers that
  were given lie below the counter, and it only grows.
- `NoUpdateIsHidden` (`LightsAreUploaded`) assumes `InitialChanged = {TRUE}`,
  without which it is false (finding 3), and that no more lights are built than
  there are units (`LightBudget <= MaxLights`, `FewLights`). Its invariant
  counts: the numbers given and the lights still without one are together no
  more than the lights built.
- `TypeCorrect` (`TypeOK`), under all these assumptions.

*MeshShowProofs*, for any points, faces, libraries, heaps and primitives, and
files of any length. The theorems follow the data.
- `FaultsAreWhatBreaks` (`BreaksExactlyAtFaults`), for any files. `FaultInv` adds
  that `vertices` is the number of v lines read and that a library without a
  pending material has shown no newmtl; that a fault, once read, stays one is
  `FaultsStay`.
- Also for any files: `EveryMaterialIsOwned` (`MeshOwnsItsMaterials`), by
  `OwnInv`: the map holds the definitions of the libraries read so far, in the
  order of their lines, and only `pending`, the latest, is outside;
  `MaterialsAreDescribed` (`MaterialsAreAsWritten`), by `DescriptionInv`: a
  material in the map is finished, and `pending` is described by the lines from
  its newmtl to the line being read.
- For files in which no usemtl asks for the loader's own material
  (`ProtoIsNotAsked`, which TLC evaluates on those of `mesh_show`):
  `FacesAreRead` (`FacesAreAsWritten`). `UseInv` says that Load's current material
  is the one the last known usemtl asks for, so each face is put at the end of the
  vector of its kind with the right one.
- `ConvexPolygonsPass`: a strictly convex polygon with any number of corners, at
  any integer points, passes `IsPolygonConvex`. Along each axis the walk may turn
  back twice; of three corners where it does, two would be on the same side, and
  convexity makes each of them farther out than the other. With it
  `ConvexFacesReachTheScreen` (`ConvexFacesAreShown`): in every frame such a face
  is on the screen in the values of its material, for files as before. `ShowInv`
  has the reason that skipping an upload does no harm to a file: OpenGL holds the
  values of the material at the address given last if it is one of the file's.
- `PrimitivesKeepTheirMaterial` (`PrimitivesInTheirMaterial`), for any files:
  if the remembered address is that of the heap the current primitive has,
  OpenGL has its values unless it was `mistaken`, and then they stay wrong until
  a face of the file comes between.
- `TypeCorrect` (`TypeOK`), for any files: the remembered address is null, on the
  heap, or that of a material in the map.
- `CountersCountTheFrame` (`CountersAreOfTheFrame`), for files as before, from
  the faces being partitioned into the vectors.
- `PrimitivesCloseUp` (`PrimitivesAreClosed`), for the cube, every torus of two
  rings and two segments or more, and every sphere with two stacks or more
  (`Solid`; with fewer, triangles would fall together). A dart is a triangle of
  the grid with one of its edges. Each has a mate, on the neighbouring triangle,
  that runs along the same edge the other way (`MatesMeet`), across the seams
  where the angles have gone round, except for edges that shrink to a point at
  the poles. Mating is one to one, so every edge is run along as often one way as
  the other (`Mating`). The cube's twenty-four edges are counted.

The recursive functions of the model (what a library says of a material, what
drawing a vector of faces does) are shown to exist where they are used: of the
numbers up to which one does not exist the least would have a predecessor.

*AddRemoveChildProofs*, for any number of cubes and any period: `ExactlyTheCubes`
(`ShowsTheCubes`), where removal by name has to meet the cube added last;
`UpdatesKeepStep` (`NoUpdateIsLostOrRepeated`), where the modulus of the frame
counter is a multiple of a whole cycle: the updates so far, counted by dividing
the number of frames, and the counter go round together; `TypeCorrect`. It and
PongGameProofs rest on `ApplicationProofs`, the facts about the framework both showcases share.

*RenderStateProofs.* `LastCallDecides` (`NeverBoth`), inductive together with
the type invariant, whose part "what is not allocated holds nothing" is needed
for Merge; from it `OrderOfApplyIsImmaterial` (`AppliesAsDocumented`): since no
capability is in both lists, enabling first and disabling first agree.
Neither needs `EnablesOnly`.

*PongGameProofs.* `BallNeverEscapes`, `BatNeverEscapes`, `ComputerNeverMisses`,
for any court, speed and step with `Speed <= 2*Top` and `Speed <= 2*Side`. The
position alone is not inductive: `Heading` adds that a ball behind a wall is
on its way back, and then one step of at most the court's width cannot leave
by the other side. `TypeCorrect`.

Only model-checked is
liveness (`DeletionEnds`, `FrameEnds`, `FramesGoOn`, `CubesComeAndGo`,
`BallComesBack`), which is out of the prover's reach. Every other property of the
passing runs is stated by a theorem.

## 5. Not modelled

- `Contains`, printing and generated names of nodes: they change no state but a
  counter.
- The numbers in matrices, vectors, colours and frustums, and the formats of
  numbers in files; time measurement, logging and error text.
- The update visitors and transform strategies: a sketch in the source, whose
  `Traverse` has no body (`UpdateVisitor.cpp:57`). TestGraphApp runs two of them
  in every frame, each on one transform it looks up by name.
- The motion of transforms, which TestGraphApp and PongGame change between frames:
  a matrix is named by its node in the models. Pong's positions are in `PongGame`.
- Bindings and listeners of InputManager: no application adds one.
- Calls of a client through pointers to nodes it has itself had deleted.
- What no code calls: Scale, Translate and Rotate of GLMatrixStack, DrawPoint,
  DrawLine, DrawTriangles, the concave accessors of Mesh, ReadVector3f.
- Camera keys of SimpleApplication, destructors of applications.
- Nothing is claimed of the unit of a light that was removed, though it is in
  the state: it stays enabled, and no comment says otherwise.
- The fixed graphs of ObjectsLoader, SimpleGeometry, SkeletonApp and
  TestGraphApp appear as the shape `ApplicationTrees`, their meshes as MeshShow.
- OpenGLFixedAdapter (no state), code outside the Makefile, and vendored code
  (GLEW, glog, GLTools, math3d, nvwa). The vendored files are by far the larger
  part of the repository's lines, so the models cover most of the program's own
  logic but a small share of all lines.

## 6. What could follow

1. Transforms that move between frames, with lights below them: the position of
   such a light is stale until it changes.
2. `ShowsTheCubes` and `SceneGraph` composed, so that the cubes are nodes with
   owners.

## 7. Running

In this directory, `tlc -config scene_graph.cfg MCSceneGraph` (and likewise
for the other configurations, see `PROJECT.json`), and `tlapm
SceneGraphProofs.tla` for the proofs.
