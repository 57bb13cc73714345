----------------------------- MODULE MeshShow -----------------------------
(***************************************************************************)
(* A mesh on its way to the screen, as in the showcases ObjectsLoader,     *)
(* SimpleGeometry and AddRemoveChild: a file is loaded (ObjLoader), a      *)
(* primitive comes and goes beside it (Primitives), and the renderer draws *)
(* both, frame after frame, through OpenGLDrawing, which remembers the     *)
(* address of the material OpenGL was given last and does not give it      *)
(* again.                                                                  *)
(*                                                                         *)
(* What OpenGL holds as the current material is external.  A primitive     *)
(* makes its material on the heap, and ~Mesh frees it: the address may be  *)
(* handed out again to the material of the next, of the same class or of   *)
(* another.                                                                *)
(***************************************************************************)
EXTENDS ObjLoader, Primitives

CONSTANTS
    Shapes,      \* the primitives the application makes
    Heap,        \* the addresses their materials may be given
    MixedLines,  \* bound: lines of a file that is shown beside a primitive
    FrameModulus \* frame is counted modulo this number

ASSUME ShapesAssumption ==
    \A p \in Shapes :
        /\ p.shape \in {"cube", "torus", "sphere"}
        /\ p.shape # "cube" => p.m \in Nat \ {0} /\ p.n \in Nat \ {0}

\* Never the address of a material that came from a file, and is still there.
ASSUME HeapAssumption == \A at \in Heap : at \in Int \X Int /\ at[1] < 0

\* Primitives that enclose something: a torus has two rings at least, of two
\* segments, and a sphere has a circle between its poles.
Solid ==
    \A p \in Shapes :
        /\ p.shape = "torus" => p.m >= 2 /\ p.n >= 2
        /\ p.shape = "sphere" => p.n >= 2

\* So that a new frame has another number.
ASSUME FrameModulusAssumption == FrameModulus \in Nat \ {0, 1}

VARIABLES
    primitive,            \* the primitive in the graph, if any
    address,              \* where its material is
    mistaken,             \* is that remembered, from a material with other values?
    LastMaterialPointer,
    glMaterial,           \* what OpenGL draws with
    shown,                \* the faces of the file drawn in this frame, and with what
    shownPrimitive,       \* what the primitive was drawn with in this frame
    counters,             \* TriangleCounter, QuadCounter, PolygonCounter
    frame

primitiveVars == <<primitive, address, mistaken>>
glVars == <<LastMaterialPointer, glMaterial, shown, shownPrimitive, counters, frame>>
showVars == <<primitiveVars, glVars>>
vars == <<loaderVars, showVars>>

NoShape == [shape |-> "none"]
Null == <<>>

\* Each class of primitive has a default material, which every primitive
\* copies: a colour, and an address of its own.
MaterialOf(p, at) ==
    [name |-> p.shape, at |-> at, color |-> p.shape, specular |-> FALSE, shine |-> 0]

FacesOf(p) ==
    CASE p.shape = "none"   -> <<>>
      [] p.shape = "cube"   -> CubeQuads
      [] p.shape = "torus"  -> TorusTriangles(p.m, p.n)
      [] p.shape = "sphere" -> SphereTriangles(p.m, p.n)

Values(m) == [color |-> m.color, specular |-> m.specular, shine |-> m.shine]
\* The values OpenGL starts with.
Untouched == [color |-> "default", specular |-> FALSE, shine |-> 0]

ShowInit ==
    /\ Init
    /\ primitive = NoShape /\ address = Null /\ mistaken = FALSE
    /\ LastMaterialPointer = Null
    /\ glMaterial = Untouched
    /\ shown = {} /\ shownPrimitive = {}
    /\ counters = [triangles |-> 0, quads |-> 0, polygons |-> 0]
    /\ frame = 0

Load == LoadStep /\ UNCHANGED showVars

\* A primitive is put into the graph, or deleted with its mesh.  Only one is
\* there at a time, so that every address of the heap is free for the next.
\* mistaken is for the properties: nothing in the code is aware of it.
AddPrimitive ==
    /\ status = "loaded" /\ primitive = NoShape
    /\ Len(file) <= Prelude + MixedLines
    /\ primitive' \in Shapes /\ address' \in Heap
    /\ mistaken' = (/\ LastMaterialPointer = address'
                    /\ glMaterial # Values(MaterialOf(primitive', address')))
    /\ UNCHANGED <<loaderVars, glVars>>

RemovePrimitive ==
    /\ status = "loaded" /\ primitive # NoShape
    /\ primitive' = NoShape /\ address' = Null /\ mistaken' = FALSE
    /\ UNCHANGED <<loaderVars, glVars>>

\* What is remembered, and what OpenGL has.  Mutant: only the
\* first material is uploaded.
SetDrawingColorAndMaterial_Once(gl, m) ==
    IF gl.last # Null THEN gl ELSE [last |-> m.at, values |-> Values(m)]
SetDrawingColorAndMaterial(gl, m) ==
    IF gl.last = m.at THEN gl ELSE [last |-> m.at, values |-> Values(m)]

MaterialAt(a) == CHOOSE m \in ToSet(materials) : m.at = a

\* One face after the other: set its material, draw it.
DrawFace(gl, f) ==
    LET set == SetDrawingColorAndMaterial(gl, MaterialAt(f.mat))
    IN  [last |-> set.last, values |-> set.values,
         shown |-> gl.shown \cup {[corners |-> f.corners, with |-> set.values]}]

\* VisitGeometry: triangles, quads, polygons.  Mutant: no polygons.
Drawn_NoPolygons == surfaces.triangles \o surfaces.quads
Drawn == surfaces.triangles \o surfaces.quads \o surfaces.polygons

\* Traverse resets the counters.  Mutant: it does not.
CountersBefore_Kept == counters
CountersBefore == [triangles |-> 0, quads |-> 0, polygons |-> 0]

CountersAfter ==
    LET own == FacesOf(primitive)
        isCube == primitive.shape = "cube"
    IN  [triangles |-> CountersBefore.triangles + Len(surfaces.triangles)
                       + (IF isCube THEN 0 ELSE Len(own)),
         quads |-> CountersBefore.quads + Len(surfaces.quads) + (IF isCube THEN Len(own) ELSE 0),
         polygons |-> CountersBefore.polygons + Len(surfaces.polygons)]

\* The loaded mesh is drawn, face after face.
MeshDrawn ==
    LET start == [last |-> LastMaterialPointer, values |-> glMaterial, shown |-> {}]
        after[k \in 0..Len(Drawn)] ==
            IF k = 0 THEN start ELSE DrawFace(after[k-1], Drawn[k])
    IN  after[Len(Drawn)]

DrawFrame ==
    /\ status = "loaded"
    /\ frame' = (frame + 1) % FrameModulus
    /\ LET loaded == MeshDrawn
           all == IF primitive = NoShape THEN loaded
                  ELSE SetDrawingColorAndMaterial(loaded, MaterialOf(primitive, address))
       IN  /\ LastMaterialPointer' = all.last
           /\ glMaterial' = all.values
           /\ shown' = loaded.shown
           /\ shownPrimitive' = IF primitive = NoShape THEN {} ELSE {all.values}
    /\ counters' = CountersAfter
    /\ UNCHANGED <<loaderVars, primitiveVars>>

Next == Load \/ AddPrimitive \/ RemovePrimitive \/ DrawFrame

Spec == ShowInit /\ [][Next]_vars

\* Load is a call: it goes on until it returns.
FairSpec == Spec /\ WF_vars(Load)
-----------------------------------------------------------------------------
(* What the lines of a file say, whatever the loader makes of them.        *)

LinesOf(k) == {i \in DOMAIN file : file[i].kind = k /\ ~Swallowed(file, i)}

\* The f line i lists fewer than three corners, or one that is no vertex of
\* the lines before it: 0, a number from the end, or a vertex given later.
StraysIn(i) ==
    LET c == file[i].corners
        given == Cardinality({l \in LinesOf("v") : l < i})
    IN  Len(c) < 3 \/ \E k \in DOMAIN c : c[k] \notin 1..given

\* Line k of the library in line i describes a material before any is named.
NamelessIn(i, k) ==
    LET lib == file[i].lib
    IN  /\ Stands(lib, k, {"color", "Ks", "Ns"})
        /\ \A j \in 1..(k-1) : ~Stands(lib, j, {"newmtl"})

\* The lines of the library in line i that have been read.
LinesRead(i) ==
    {k \in DOMAIN file[i].lib : i = Len(file) /\ library > 0 => k < library}

\* Every newmtl line, as line of the file and line of its library.
Definitions ==
    UNION {{<<l, j>> : j \in {j \in DOMAIN file[l].lib :
                file[l].lib[j].kind = "newmtl" /\ ~Swallowed(file[l].lib, j)}} :
           l \in LinesOf("mtllib")}
NameAt(d) == file[d[1]].lib[d[2]].name

\* Where the libraries read before line i define the name.
DefinitionsBefore(i, nm) == {d \in Definitions : d[1] < i /\ NameAt(d) = nm}

Earlier(d, e) == d[1] < e[1] \/ (d[1] = e[1] /\ d[2] <= e[2])

\* The f line i wears what the last usemtl with a known name asked for.
MaterialFor(i) ==
    LET known == {k \in LinesOf("usemtl") : k < i /\ DefinitionsBefore(k, file[k].name) # {}}
    IN  IF known = {} THEN <<0, 0>>
        ELSE LET last == CHOOSE k \in known : \A l \in known : l <= k
                 all == DefinitionsBefore(last, file[last].name)
             IN  CHOOSE d \in all : \A e \in all : Earlier(d, e)

WrittenFace(i) ==
    [corners |-> [k \in DOMAIN file[i].corners |-> file[i].corners[k] - 1], mat |-> MaterialFor(i)]

\* The f lines whose faces belong into that vector, and the place of one there.
FaceLines(k) == {i \in LinesOf("f") : Kind(WrittenFace(i).corners) = k}
PlaceOf(i, k) == Cardinality({l \in FaceLines(k) : l <= i})

\* The lines that describe the material begun in line j.
Block(lib, j) ==
    {k \in (j+1)..Len(lib) : \A l \in (j+1)..k : lib[l].kind # "newmtl" \/ Swallowed(lib, l)}
Says(lib, j, k) == \E l \in Block(lib, j) : lib[l].kind = k /\ ~Swallowed(lib, l)

\* An Ns line counts unless a Ks line comes after it, which takes the
\* shininess away again.
Shines(lib, j) ==
    \E k \in Block(lib, j) :
        /\ Stands(lib, k, {"Ns"})
        /\ \A l \in Block(lib, j) : Stands(lib, l, {"Ks"}) => l < k

AsWritten(lib, j) ==
    [color |-> IF Says(lib, j, "color") THEN "own" ELSE "grey",
     specular |-> Says(lib, j, "Ks"),
     shine |-> IF Shines(lib, j) THEN 1 ELSE 0]
-----------------------------------------------------------------------------
TypeOK ==
    /\ LoaderTypeOK
    /\ primitive \in Shapes \cup {NoShape}
    /\ address \in IF primitive = NoShape THEN {Null} ELSE Heap
    /\ mistaken \in BOOLEAN
    /\ LastMaterialPointer \in
          {Null} \cup Heap \cup {materials[i].at : i \in DOMAIN materials}
    /\ frame \in 0..(FrameModulus-1)

\* Load leaves _vertices, or writes through the pointer to a material it has
\* not set, exactly when the lines read so far have an f line that strays or a
\* library that describes a material before naming one.  No other file brings
\* it there, however lines are mixed, swallowed or repeated and whatever was
\* read before; and no such line passes unharmed, since nothing tests for it.
BreaksExactlyAtFaults ==
    broken <=> \/ \E i \in LinesOf("f") : StraysIn(i)
               \/ \E i \in LinesOf("mtllib") : \E k \in LinesRead(i) : NamelessIn(i, k)

\* Every face of the file is in the mesh, in order, with its own corners and
\* the material the last usemtl that is known asked for, whatever libraries
\* come in between and however often a name is defined.
FacesAreAsWritten ==
    ~broken => \A k \in DOMAIN surfaces :
        /\ Len(surfaces[k]) = Cardinality(FaceLines(k))
        /\ \A i \in FaceLines(k) : surfaces[k][PlaceOf(i, k)] = WrittenFace(i)

\* The map, which ~Mesh deletes by, holds every material that was made, once,
\* and the faces use no other; only the one being read is still outside.
MeshOwnsItsMaterials ==
    LET made == {d \in Definitions : d[1] = Len(file) /\ library > 0 => d[2] < library}
        held == [i \in DOMAIN materials |-> materials[i].at]
    IN  /\ Len(held) = Cardinality(ToSet(held))
        /\ {<<0, 0>>} \cup made = ToSet(held) \cup (IF pending = NoMaterial THEN {} ELSE {pending.at})
        /\ \A k \in DOMAIN surfaces : \A i \in DOMAIN surfaces[k] : surfaces[k][i].mat \in ToSet(held)

\* Every material has the colour, the highlight and the shininess its own
\* lines give it, and nothing of its neighbours.
MaterialsAreAsWritten ==
    \A i \in 2..Len(materials) :
        LET lib == file[materials[i].at[1]].lib
            j == materials[i].at[2]
        IN  /\ materials[i].name = lib[j].name
            /\ Values(materials[i]) = AsWritten(lib, j)

\* A strictly convex face of the file is on the screen, in the colours its
\* material was given in the library: neither the convexity test, nor the
\* renderer, nor the skipped uploads of materials lose or recolour it.
ConvexFacesAreShown ==
    [][frame' # frame =>
        \A i \in LinesOf("f") :
            LET face == WrittenFace(i)
                points == [k \in DOMAIN face.corners |-> Points[face.corners[k] + 1]]
                lib == file[face.mat[1]].lib
                values == IF face.mat = <<0, 0>> THEN Values(Proto) ELSE AsWritten(lib, face.mat[2])
            IN  StrictlyConvex(points)
                    => [corners |-> face.corners, with |-> values] \in shown']_vars

\* A primitive is drawn in its own values in every frame, whatever was drawn
\* before it and whether or not OpenGL is given them again; except when its
\* material was put where the remembered one of a deleted primitive of another
\* class had been, and no face of the file is drawn before it.  Then it is
\* drawn in the values of the deleted one in every frame.
PrimitivesInTheirMaterial ==
    [][frame' # frame /\ primitive # NoShape =>
        (shownPrimitive' = {Values(MaterialOf(primitive, address))}
            <=> ~mistaken \/ Drawn # <<>>)]_vars

\* The counters are those of one frame: every face that has no concave corner
\* is counted once in it.
CountersAreOfTheFrame ==
    [][frame' # frame =>
        counters'.triangles + counters'.quads + counters'.polygons
            = Cardinality({i \in LinesOf("f") : Kind(WrittenFace(i).corners)
                              \notin {"quadsConcave", "polygonsConcave"}})
              + Len(FacesOf(primitive))]_vars

\* The faces with one of them wound the other way.
Turned(faces, f) == (faces \ {f}) \cup {Reverse(f)}

\* The surface of a primitive has no hole, also where the angles have gone
\* round; and all its faces show their front on the same side, except for the
\* bottom of the cube.
PrimitivesAreClosed ==
    LET faces == ToSet(FacesOf(primitive))
    IN  /\ Closed(faces)
        /\ Oriented(IF primitive.shape = "cube" THEN Turned(faces, <<7, 6, 5, 4>>) ELSE faces)

\* MeshLoaderObj.cpp:22: Load has as its result the "Mesh if successfull, 0
\* otherwise", so it has one.
LoadReturns == status = "reading" ~> status = "loaded"
===========================================================================
