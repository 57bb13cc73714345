---------------------------- MODULE ObjLoader ----------------------------
(***************************************************************************)
(* MeshLoaderObj reading a Wavefront file line by line into a Mesh.        *)
(*                                                                         *)
(* file is what has been read so far: its lines are chosen as they are     *)
(* read, so that every file over the given kinds of lines is covered, and  *)
(* what the mesh should be can be said of the file itself.  A material     *)
(* library is read in the middle of a file, line by line too.  A material  *)
(* lives at an address, which is the place in the files of the line that   *)
(* made it.  The formats of numbers and names are abstracted; lines come   *)
(* apart as in the code, so a keyword without a blank after it takes the   *)
(* following line for its own.                                             *)
(*                                                                         *)
(* broken becomes TRUE when the code would read outside a vector or write  *)
(* through the pointer to a material it has not set; nothing is claimed of *)
(* the program after that.                                                 *)
(***************************************************************************)
EXTENDS Polygons, SequencesExt

CONSTANTS
    Points,          \* the vertices of the files, in order
    Faces,           \* the corners an f line may list, as numbers in the file
    MaterialNames,   \* the names usemtl may ask for
    Libraries,       \* the material libraries, as sequences of lines
    Prelude,         \* how many v lines every file begins with
    MaxLines         \* bound: lines of a file after those

ASSUME PointsAssumption == Points \in Seq(Int \X Int)
ASSUME FacesAssumption == \A c \in Faces : c \in Seq(Int)
ASSUME LibrariesAssumption == \A lib \in Libraries : lib \in Seq(ToSet(lib))
ASSUME PreludeAssumption == Prelude \in 0..Len(Points)
ASSUME MaxLinesAssumption == MaxLines \in Nat

\* Line i of s is taken for the rest of the line before it.
Swallowed(s, i) == i > 1 /\ s[i-1].kind = "bare"

\* A line of one of these kinds that is not.
Stands(s, i, kinds) == s[i].kind \in kinds /\ ~Swallowed(s, i)

\* No line asks for the material that every mesh begins with.
ProtoIsNotAsked == "Proto" \notin MaterialNames

VARIABLES
    file,        \* the lines read so far
    vertices,    \* the number of _vertices
    materials,   \* _materials, in the order of insertion
    Mat,         \* the address of Load's current material
    surfaces,    \* the five vectors of faces
    library,     \* how far the library is read; 0 outside of ReadMaterialFile
    pending,     \* the material ReadMaterialFile has not yet inserted
    status,      \* reading, inLastFace, loaded
    broken

meshVars == <<vertices, materials, Mat, surfaces>>
loaderVars == <<file, meshVars, library, pending, status, broken>>

Proto == [name |-> "Proto", at |-> <<0, 0>>, color |-> "white", specular |-> FALSE, shine |-> 0]
NewMaterial(nm, at) ==
    [name |-> nm, at |-> at, color |-> "grey", specular |-> FALSE, shine |-> 0]
NoMaterial == [name |-> "none"]

NoSurfaces == [triangles |-> <<>>, quads |-> <<>>, quadsConcave |-> <<>>,
               polygons |-> <<>>, polygonsConcave |-> <<>>]

\* A file that could not be opened gives an empty mesh.
Init ==
    /\ \E opened \in BOOLEAN :
        /\ vertices = IF opened THEN Prelude ELSE 0
        /\ file = [i \in 1..vertices |-> [kind |-> "v"]]
        /\ status = IF opened THEN "reading" ELSE "loaded"
    /\ materials = <<Proto>>
    /\ Mat = Proto.at
    /\ surfaces = NoSurfaces
    /\ library = 0
    /\ pending = NoMaterial
    /\ broken = FALSE

\* The loop of Load takes the next line.
Reading == status = "reading" /\ library = 0 /\ ~broken
Reads(line) ==
    /\ Reading /\ Len(file) < Prelude + MaxLines
    /\ file' = Append(file, line)
Taken(line) == Reads(line) /\ ~Swallowed(file', Len(file'))

\* Comments, o, g, s, vt, vn and unknown keywords; and a keyword alone.
ReadIgnored ==
    /\ \E k \in {"ignored", "bare"} : Reads([kind |-> k])
    /\ UNCHANGED <<meshVars, library, pending, status, broken>>

ReadSwallowed ==
    /\ \E line \in {[kind |-> "v"]} \cup [kind : {"f"}, corners : Faces]
                    \cup [kind : {"usemtl"}, name : MaterialNames]
                    \cup [kind : {"mtllib"}, lib : Libraries] :
          Reads(line) /\ Swallowed(file', Len(file'))
    /\ UNCHANGED <<meshVars, library, pending, status, broken>>

ReadVertex ==
    /\ Taken([kind |-> "v"])
    /\ vertices < Len(Points)
    /\ vertices' = vertices + 1
    /\ UNCHANGED <<materials, Mat, surfaces, library, pending, status, broken>>

\* The places of the materials of that name in the map.
Named(nm) == {i \in DOMAIN materials : materials[i].name = nm}

\* An unknown name keeps the current material.  Mutant: back to the first.
Using_Proto(nm) ==
    IF Named(nm) = {} THEN Proto.at
    ELSE materials[CHOOSE i \in Named(nm) : \A j \in Named(nm) : i <= j].at
Using(nm) ==
    IF Named(nm) = {} THEN Mat
    ELSE materials[CHOOSE i \in Named(nm) : \A j \in Named(nm) : i <= j].at

ReadUsemtl ==
    /\ \E nm \in MaterialNames :
          Taken([kind |-> "usemtl", name |-> nm]) /\ Mat' = Using(nm)
    /\ UNCHANGED <<vertices, materials, surfaces, library, pending, status, broken>>
-----------------------------------------------------------------------------
(* ReadMaterialFile.                                                       *)
ReadMtllib ==
    /\ \E lib \in Libraries : Taken([kind |-> "mtllib", lib |-> lib])
    /\ library' = 1
    /\ pending' = NoMaterial
    /\ UNCHANGED <<meshVars, status, broken>>

Library == file[Len(file)].lib
InLibrary == library > 0 /\ ~broken
AtLine(k) ==
    /\ InLibrary /\ library <= Len(Library)
    /\ ~Swallowed(Library, library)
    /\ Library[library].kind = k
    /\ library' = library + 1

\* The material before is inserted when the next begins, or the file ends.
\* Mutants: it is dropped; one is inserted even if there is none.
Committed_Always == Append(materials, pending)
Committed_Dropped == materials
Committed == IF pending = NoMaterial THEN materials ELSE Append(materials, pending)

ReadNewmtl ==
    /\ AtLine("newmtl")
    /\ materials' = Committed
    /\ pending' = NewMaterial(Library[library].name, <<Len(file), library>>)
    /\ UNCHANGED <<file, vertices, Mat, surfaces, status, broken>>

\* What a line says of a material, of what OpenGL is given later: Ka and Kd
\* (and d and Tr, of which it is given nothing) a colour, Ks the colour of the
\* highlight, without shininess, and Ns the shininess.
\* Mutant: Ns is read over.
Described_NoNs(m, k) ==
    CASE k = "color" -> [m EXCEPT !.color = "own"]
      [] k = "Ks"    -> [m EXCEPT !.specular = TRUE, !.shine = 0]
      [] k = "Ns"    -> m
Described(m, k) ==
    CASE k = "color" -> [m EXCEPT !.color = "own"]
      [] k = "Ks"    -> [m EXCEPT !.specular = TRUE, !.shine = 0]
      [] k = "Ns"    -> [m EXCEPT !.shine = 1]

ReadAttribute ==
    /\ \E k \in {"color", "Ks", "Ns"} :
          /\ AtLine(k)
          /\ pending' = IF pending = NoMaterial THEN pending ELSE Described(pending, k)
    /\ broken' = (pending = NoMaterial)
    /\ UNCHANGED <<file, meshVars, status>>

ReadIgnoredOfLibrary ==
    /\ InLibrary /\ library <= Len(Library)
    /\ Library[library].kind \in {"ignored", "bare"} \/ Swallowed(Library, library)
    /\ library' = library + 1
    /\ UNCHANGED <<file, meshVars, pending, status, broken>>

EndOfLibrary ==
    /\ InLibrary /\ library > Len(Library)
    /\ materials' = Committed
    /\ library' = 0 /\ pending' = NoMaterial
    /\ UNCHANGED <<file, vertices, Mat, surfaces, status, broken>>
-----------------------------------------------------------------------------
(* ReadFace.                                                               *)

\* Indices start with 1 in the file, with 0 in the vectors.
\* Mutant: not corrected.
Index_Raw(c) == c
Index(c) == c - 1

\* Nothing is tested: the corners are looked up in _vertices, which are those
\* read so far, the first three of them whatever their number.
Readable(corners) == Len(corners) >= 3 /\ \A i \in DOMAIN corners : corners[i] \in 0..(vertices-1)

Kind(corners) ==
    LET convex == IsPolygonConvex([i \in DOMAIN corners |-> Points[corners[i] + 1]])
    IN  CASE Len(corners) = 3 -> "triangles"
          [] Len(corners) = 4 -> IF convex THEN "quads" ELSE "quadsConcave"
          [] OTHER            -> IF convex THEN "polygons" ELSE "polygonsConcave"

Face(corners) == [corners |-> corners, mat |-> Mat]

ReadFace ==
    /\ \E c \in Faces :
        LET corners == [i \in DOMAIN c |-> Index(c[i])] IN
        /\ Taken([kind |-> "f", corners |-> c])
        /\ IF Readable(corners)
           THEN /\ surfaces' = [surfaces EXCEPT ![Kind(corners)] = Append(@, Face(corners))]
                /\ UNCHANGED broken
           ELSE broken' = TRUE /\ UNCHANGED surfaces
    /\ UNCHANGED <<vertices, materials, Mat, library, pending, status>>

\* An f line that is the last and does not end in a newline: the loop waits
\* for one, and the stream at its end delivers none.
EnterLastFace ==
    /\ \E c \in Faces : Taken([kind |-> "lastF", corners |-> c])
    /\ status' = "inLastFace"
    /\ UNCHANGED <<meshVars, library, pending, broken>>

\* Every round counts the index down and pushes it back once more.  The
\* indices are left out, but not that the loop goes round: status changes.
LastFaceGoesOn ==
    /\ status \in {"inLastFace", "inLastFaceAgain"}
    /\ status' = IF status = "inLastFace" THEN "inLastFaceAgain" ELSE "inLastFace"
    /\ UNCHANGED <<file, meshVars, library, pending, broken>>

\* The end of the file: only an error of the device would give 0.
EndOfFile ==
    /\ Reading
    /\ status' = "loaded"
    /\ UNCHANGED <<file, meshVars, library, pending, broken>>

LoadStep ==
    \/ ReadIgnored \/ ReadSwallowed \/ ReadVertex \/ ReadUsemtl \/ ReadFace
    \/ ReadMtllib \/ ReadNewmtl \/ ReadAttribute \/ ReadIgnoredOfLibrary \/ EndOfLibrary
    \/ EnterLastFace \/ LastFaceGoesOn \/ EndOfFile
-----------------------------------------------------------------------------
LoaderTypeOK ==
    /\ vertices \in 0..Len(Points)
    /\ \A i \in DOMAIN materials : DOMAIN materials[i] = DOMAIN Proto
    /\ pending = NoMaterial \/ DOMAIN pending = DOMAIN Proto
    /\ DOMAIN surfaces = DOMAIN NoSurfaces
    /\ library \in Nat
    /\ status \in {"reading", "inLastFace", "inLastFaceAgain", "loaded"}
    /\ broken \in BOOLEAN
===========================================================================
