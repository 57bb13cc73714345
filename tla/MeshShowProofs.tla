-------------------------- MODULE MeshShowProofs --------------------------
(***************************************************************************)
(* What is read from a file is in the mesh, and what is in the mesh is on  *)
(* the screen: for files, libraries and primitives of every size, and for  *)
(* any number of frames.                                                   *)
(*                                                                         *)
(* The argument follows the data.  Every address the loader keeps is that  *)
(* of a material in the map (LoaderInv), the map holds the definitions of  *)
(* the libraries read so far, in their order (OwnInv), and each is         *)
(* described by its own lines (DescriptionInv).  The program breaks at the *)
(* first line that is a fault, and at no other, since _vertices has as     *)
(* many members as v lines were read, and a library has no material until  *)
(* it has a name (FaultInv).  Load's current material is the one the last  *)
(* known usemtl asked for (UseInv), so that a face gets the right one, and *)
(* goes to the end of its vector.  OpenGL has the values of the material   *)
(* at the address it was given last if that came from the file; if it came *)
(* from the heap, it has those of the primitive there unless it was        *)
(* mistaken for one that was freed (ShowInv), so that it is known when a   *)
(* skipped upload changes something.  And the test that sorts out concave  *)
(* faces never takes a strictly convex one (ConvexPolygonsPass).           *)
(*                                                                         *)
(* A primitive is closed because every dart of its grid, a triangle with   *)
(* one of its edges, has a mate that runs along this edge the other way    *)
(* (Mated), so both ways have equally many (Mating).                       *)
(*                                                                         *)
(* The recursive functions of the model are shown to exist where they are  *)
(* used: the least number up to which one did not exist would have a       *)
(* predecessor up to which it does.                                        *)
(***************************************************************************)
EXTENDS MeshShow, ChildListProofs, SequenceTheorems, FiniteSetTheorems, TLAPS

Lines == [kind : {"v", "ignored", "bare"}] \cup [kind : {"f", "lastF"}, corners : Faces]
         \cup [kind : {"usemtl"}, name : MaterialNames] \cup [kind : {"mtllib"}, lib : Libraries]
-----------------------------------------------------------------------------
(* Types, and that every face points to a material of the mesh.            *)

Names == {"Proto"} \cup UNION {{lib[j].name : j \in DOMAIN lib} : lib \in Libraries}
AnyMaterial == [name : Names, at : Nat \X Nat, color : {"white", "grey", "own"},
                specular : BOOLEAN, shine : {0, 1}]
AnyFace == [corners : {[i \in DOMAIN c |-> Index(c[i])] : c \in Faces}, mat : Nat \X Nat]

\* The addresses of the materials in the map.
Held == {materials[i].at : i \in DOMAIN materials}

LoaderInv ==
    /\ file \in Seq(Lines)
    /\ vertices \in 0..Len(Points)
    /\ materials \in Seq(AnyMaterial)
    /\ Mat \in Held /\ <<0, 0>> \in Held
    /\ surfaces \in [DOMAIN NoSurfaces -> Seq(AnyFace)]
    /\ \A k \in DOMAIN surfaces : \A i \in DOMAIN surfaces[k] : surfaces[k][i].mat \in Held
    /\ library \in Nat
    /\ library > 0 => Len(file) > 0 /\ file[Len(file)].kind = "mtllib" /\ status = "reading"
    /\ pending \in AnyMaterial \cup {NoMaterial}
    /\ status \in {"reading", "inLastFace", "inLastFaceAgain", "loaded"}
    /\ broken \in BOOLEAN /\ (broken => status = "reading")

\* The line that is taken is the last of what has been read.
LEMMA TakesALine ==
    ASSUME LoaderInv, NEW line \in Lines, Reads(line)
    PROVE  /\ file' = Append(file, line) /\ file' \in Seq(Lines)
           /\ Len(file') = Len(file) + 1 /\ Len(file) \in Nat
           /\ file'[Len(file')] = line
           /\ \A i \in 1..Len(file) : file'[i] = file[i]
           /\ library = 0 /\ status = "reading" /\ broken = FALSE
<1>1. file' = Append(file, line) /\ file \in Seq(Lines)
    BY DEF Reads, LoaderInv
<1>2. /\ Append(file, line) \in Seq(Lines) /\ Len(Append(file, line)) = Len(file) + 1
      /\ Append(file, line)[Len(file) + 1] = line /\ Len(file) \in Nat
      /\ \A i \in 1..Len(file) : Append(file, line)[i] = file[i]
    BY <1>1
<1>3. library = 0 /\ status = "reading" /\ broken = FALSE
    BY DEF Reads, Reading, LoaderInv
<1> QED
    BY <1>1, <1>2, <1>3

\* What is read as a library is one.
LEMMA LibraryIsRead ==
    ASSUME LoaderInv, library > 0
    PROVE  /\ Library \in Libraries
           /\ Len(Library) \in Nat /\ DOMAIN Library = 1..Len(Library)
           /\ Len(file) \in Nat \ {0}
<1>1. /\ file \in Seq(Lines) /\ Len(file) \in Nat \ {0} /\ file[Len(file)].kind = "mtllib"
    BY DEF LoaderInv
<1>2. file[Len(file)] \in Lines
    BY <1>1, ElementOfSeq
<1>3. Library \in Libraries
    BY <1>1, <1>2 DEF Lines, Library
<1>4. Library \in Seq(ToSet(Library))
    BY <1>3, LibrariesAssumption
<1> QED
    BY <1>1, <1>3, <1>4, LenProperties

\* A material that goes into the map leaves those before it where they are.
LEMMA MaterialsGrow ==
    ASSUME materials \in Seq(AnyMaterial), NEW m \in AnyMaterial,
           materials' = Append(materials, m)
    PROVE  /\ materials' \in Seq(AnyMaterial)
           /\ Len(materials') = Len(materials) + 1 /\ Len(materials) \in Nat
           /\ materials'[Len(materials) + 1] = m
           /\ \A i \in 1..Len(materials) : materials'[i] = materials[i]
           /\ Held' = Held \cup {m.at}
<1>1. /\ Append(materials, m) \in Seq(AnyMaterial)
      /\ Len(Append(materials, m)) = Len(materials) + 1 /\ Len(materials) \in Nat
      /\ Append(materials, m)[Len(materials) + 1] = m
      /\ \A i \in 1..Len(materials) : Append(materials, m)[i] = materials[i]
      /\ DOMAIN materials = 1..Len(materials)
      /\ DOMAIN Append(materials, m) = 1..(Len(materials) + 1)
    OBVIOUS
<1> DEFINE n == Len(materials)
           ms == Append(materials, m)
<1>2. {ms[i].at : i \in 1..(n+1)} = {materials[i].at : i \in 1..n} \cup {m.at}
    <2>1. ASSUME NEW i \in 1..(n+1) PROVE ms[i].at \in {materials[j].at : j \in 1..n} \cup {m.at}
        <3>1. CASE i = n+1
            BY <1>1, <3>1
        <3>2. CASE i # n+1
            <4>1. i \in 1..n BY <1>1, <3>2
            <4> QED BY <1>1, <4>1
        <3> QED BY <3>1, <3>2
    <2>2. ASSUME NEW j \in 1..n PROVE materials[j].at \in {ms[i].at : i \in 1..(n+1)}
        <3>1. j \in 1..(n+1) /\ ms[j] = materials[j] BY <1>1
        <3> QED BY <3>1
    <2>3. m.at \in {ms[i].at : i \in 1..(n+1)}
        <3>1. n + 1 \in 1..(n+1) /\ ms[n+1] = m BY <1>1
        <3> QED BY <3>1
    <2> HIDE DEF ms, n
    <2> QED BY <2>1, <2>2, <2>3
<1> QED
    BY <1>1, <1>2 DEF Held

LEMMA HeldAreAddresses ==
    ASSUME LoaderInv
    PROVE  Held \subseteq Nat \X Nat
<1>1. ASSUME NEW i \in DOMAIN materials PROVE materials[i].at \in Nat \X Nat
    <2>1. materials[i] \in AnyMaterial BY DEF LoaderInv
    <2> QED BY <2>1 DEF AnyMaterial
<1> QED
    BY <1>1 DEF Held

\* Inserting the material that was described last, if there is one.
LEMMA Committing ==
    ASSUME LoaderInv, materials' = Committed
    PROVE  /\ materials' \in Seq(AnyMaterial)
           /\ Held' = Held \cup (IF pending = NoMaterial THEN {} ELSE {pending.at})
<1>1. CASE pending = NoMaterial
    BY <1>1 DEF Committed, LoaderInv, Held
<1>2. CASE pending # NoMaterial
    <2>1. pending \in AnyMaterial /\ materials \in Seq(AnyMaterial)
        BY <1>2 DEF LoaderInv
    <2> QED BY <1>2, <2>1, MaterialsGrow DEF Committed
<1> QED
    BY <1>1, <1>2

LEMMA ProtoIsAMaterial == Proto \in AnyMaterial
BY DEF Proto, AnyMaterial, Names

LEMMA LoaderStarts == ShowInit => LoaderInv
<1> SUFFICES ASSUME ShowInit PROVE LoaderInv
    OBVIOUS
<1>1. vertices \in 0..Len(Points) /\ Len(Points) \in Nat
    BY PreludeAssumption, PointsAssumption DEF ShowInit, Init
<1>2. file = [i \in 1..vertices |-> [kind |-> "v"]]
    BY DEF ShowInit, Init
<1>3. [kind |-> "v"] \in Lines
    BY DEF Lines
<1>4. file \in Seq(Lines)
    BY <1>1, <1>2, <1>3
<1>5. materials = <<Proto>> /\ materials \in Seq(AnyMaterial)
    BY ProtoIsAMaterial DEF ShowInit, Init
<1>6. Held = {<<0, 0>>}
    BY <1>5 DEF Held, Proto
<1>7. Mat \in Held
    BY <1>6 DEF ShowInit, Init, Proto
<1>8. /\ surfaces \in [DOMAIN NoSurfaces -> Seq(AnyFace)]
      /\ \A k \in DOMAIN surfaces : \A i \in DOMAIN surfaces[k] : surfaces[k][i].mat \in Held
    <2>1. surfaces = NoSurfaces /\ \A k \in DOMAIN NoSurfaces : surfaces[k] = <<>>
        BY DEF ShowInit, Init, NoSurfaces
    <2>2. surfaces = [k \in DOMAIN NoSurfaces |-> <<>>]
        BY DEF ShowInit, Init, NoSurfaces
    <2> QED BY <2>1, <2>2
<1>9. library = 0 /\ pending = NoMaterial /\ status \in {"reading", "loaded"}
    BY DEF ShowInit, Init
<1>10. broken \in BOOLEAN /\ ~broken
    BY DEF ShowInit, Init
<1>11. <<0, 0>> \in Held
    BY <1>6
<1> QED
    BY <1>1, <1>4, <1>5, <1>7, <1>8, <1>9, <1>10, <1>11 DEF LoaderInv

\* A material stays one, whatever a line says of it, at its address.
LEMMA Describing ==
    ASSUME NEW m \in AnyMaterial, NEW k \in {"color", "Ks", "Ns"}
    PROVE  /\ Described(m, k) \in AnyMaterial
           /\ Described(m, k).name = m.name /\ Described(m, k).at = m.at
           /\ Described(m, k).color = IF k = "color" THEN "own" ELSE m.color
           /\ Described(m, k).specular = IF k = "Ks" THEN TRUE ELSE m.specular
           /\ Described(m, k).shine = CASE k = "color" -> m.shine [] k = "Ks" -> 0 [] k = "Ns" -> 1
<1>1. CASE k = "color"
    <2>1. Described(m, k) = [m EXCEPT !.color = "own"] BY <1>1 DEF Described
    <2> QED BY <1>1, <2>1 DEF AnyMaterial
<1>2. CASE k = "Ks"
    <2>1. Described(m, k) = [m EXCEPT !.specular = TRUE, !.shine = 0] BY <1>2 DEF Described
    <2> QED BY <1>2, <2>1 DEF AnyMaterial
<1>3. CASE k = "Ns"
    <2>1. Described(m, k) = [m EXCEPT !.shine = 1] BY <1>3 DEF Described
    <2> QED BY <1>3, <2>1 DEF AnyMaterial
<1> QED
    BY <1>1, <1>2, <1>3

\* The name that usemtl asks for, or the material before.
LEMMA UsesAHeld ==
    ASSUME LoaderInv, NEW nm
    PROVE  Using(nm) \in Held
<1>1. CASE Named(nm) = {}
    BY <1>1 DEF Using, LoaderInv
<1>2. CASE Named(nm) # {}
    <2>1. Named(nm) \in SUBSET Nat
        BY DEF Named, LoaderInv
    <2>2. \E i \in Named(nm) : \A j \in Named(nm) : i <= j
        BY <1>2, <2>1, LeastNatural
    <2>3. (CHOOSE i \in Named(nm) : \A j \in Named(nm) : i <= j) \in DOMAIN materials
        BY <2>2 DEF Named
    <2> QED BY <1>2, <2>3 DEF Using, Held
<1> QED
    BY <1>1, <1>2

\* A new material, where the library stands.
LEMMA NewMaterialIs ==
    ASSUME LoaderInv, library \in DOMAIN Library, library > 0
    PROVE  NewMaterial(Library[library].name, <<Len(file), library>>) \in AnyMaterial
<1>1. Library \in Libraries /\ Len(file) \in Nat /\ library \in Nat
    BY LibraryIsRead DEF LoaderInv
<1>2. Library[library].name \in Names
    BY <1>1 DEF Names
<1> QED
    BY <1>1, <1>2 DEF NewMaterial, AnyMaterial

\* Lines that only tell the loader to go on.
LEMMA LineKeepsTypes ==
    ASSUME LoaderInv, ReadIgnored \/ ReadSwallowed \/ ReadVertex \/ ReadUsemtl \/ EnterLastFace
    PROVE  LoaderInv'
<1>1. PICK line \in Lines : Reads(line)
    BY DEF ReadIgnored, ReadSwallowed, ReadVertex, ReadUsemtl, EnterLastFace, Taken, Lines
<1>2. file' \in Seq(Lines) /\ library = 0 /\ broken = FALSE
    BY <1>1, TakesALine
<1>3. /\ library' = library /\ broken' = broken /\ pending' = pending
      /\ materials' = materials /\ surfaces' = surfaces
    BY DEF ReadIgnored, ReadSwallowed, ReadVertex, ReadUsemtl, EnterLastFace, meshVars
<1>4. status' \in {status, "inLastFace"}
    BY DEF ReadIgnored, ReadSwallowed, ReadVertex, ReadUsemtl, EnterLastFace
<1>5. Held' = Held
    BY <1>3 DEF Held
<1>6. Mat' \in Held
    BY UsesAHeld DEF ReadIgnored, ReadSwallowed, ReadVertex, ReadUsemtl, EnterLastFace, meshVars,
                     LoaderInv
<1>7. vertices' \in 0..Len(Points)
    <2>1. Len(Points) \in Nat /\ vertices \in 0..Len(Points)
        BY PointsAssumption DEF LoaderInv
    <2>2. vertices' = vertices \/ (vertices < Len(Points) /\ vertices' = vertices + 1)
        BY DEF ReadIgnored, ReadSwallowed, ReadVertex, ReadUsemtl, EnterLastFace, meshVars
    <2> QED BY <2>1, <2>2
<1> QED
    BY <1>2, <1>3, <1>4, <1>5, <1>6, <1>7 DEF LoaderInv

\* A face goes to the end of one of the vectors.
LEMMA FaceAppended ==
    ASSUME LoaderInv, NEW k \in DOMAIN NoSurfaces, NEW f \in AnyFace,
           surfaces' = [surfaces EXCEPT ![k] = Append(@, f)]
    PROVE  /\ surfaces' \in [DOMAIN NoSurfaces -> Seq(AnyFace)]
           /\ \A j \in DOMAIN NoSurfaces \ {k} : surfaces'[j] = surfaces[j]
           /\ Len(surfaces'[k]) = Len(surfaces[k]) + 1 /\ Len(surfaces[k]) \in Nat
           /\ surfaces'[k][Len(surfaces[k]) + 1] = f
           /\ \A i \in 1..Len(surfaces[k]) : surfaces'[k][i] = surfaces[k][i]
<1>1. surfaces \in [DOMAIN NoSurfaces -> Seq(AnyFace)]
    BY DEF LoaderInv
<1> DEFINE s == surfaces[k]
<1>2. /\ s \in Seq(AnyFace) /\ Append(s, f) \in Seq(AnyFace)
      /\ Len(Append(s, f)) = Len(s) + 1 /\ Len(s) \in Nat
      /\ Append(s, f)[Len(s) + 1] = f
      /\ \A i \in 1..Len(s) : Append(s, f)[i] = s[i]
    BY <1>1
<1>3. surfaces'[k] = Append(s, f)
    BY <1>1
<1> HIDE DEF s
<1>4. surfaces' \in [DOMAIN NoSurfaces -> Seq(AnyFace)]
    BY <1>1, <1>2 DEF s
<1> QED
    BY <1>1, <1>2, <1>3, <1>4 DEF s

LEMMA FaceKeepsTypes ==
    ASSUME LoaderInv, ReadFace
    PROVE  LoaderInv'
<1>1. PICK c \in Faces :
         LET corners == [i \in DOMAIN c |-> Index(c[i])] IN
         /\ Taken([kind |-> "f", corners |-> c])
         /\ IF Readable(corners)
            THEN /\ surfaces' = [surfaces EXCEPT ![Kind(corners)] = Append(@, Face(corners))]
                 /\ UNCHANGED broken
            ELSE broken' = TRUE /\ UNCHANGED surfaces
    BY DEF ReadFace
<1> DEFINE corners == [i \in DOMAIN c |-> Index(c[i])]
<1>2. [kind |-> "f", corners |-> c] \in Lines
    BY DEF Lines
<1>3. file' \in Seq(Lines) /\ library = 0 /\ status = "reading"
    BY <1>1, <1>2, TakesALine DEF Taken
<1>4. UNCHANGED <<vertices, materials, Mat, library, pending, status>> /\ Held' = Held
    BY DEF ReadFace, Held
<1>5. broken' \in BOOLEAN
    BY <1>1 DEF LoaderInv
<1>6. /\ surfaces' \in [DOMAIN NoSurfaces -> Seq(AnyFace)]
      /\ \A k \in DOMAIN surfaces' : \A i \in DOMAIN surfaces'[k] : surfaces'[k][i].mat \in Held
    <2>1. CASE surfaces' = surfaces
        BY <2>1 DEF LoaderInv
    <2>2. CASE surfaces' = [surfaces EXCEPT ![Kind(corners)] = Append(@, Face(corners))]
        <3> DEFINE k == Kind(corners)
                   f == Face(corners)
        <3>1. k \in DOMAIN NoSurfaces BY DEF Kind, NoSurfaces
        <3>2. f.mat = Mat BY DEF Face
        <3>3. Mat \in Held /\ Held \subseteq Nat \X Nat
            BY HeldAreAddresses DEF LoaderInv
        <3>4. f \in AnyFace BY <3>2, <3>3 DEF Face, AnyFace
        <3> HIDE DEF k, f
        <3>5. /\ surfaces' \in [DOMAIN NoSurfaces -> Seq(AnyFace)]
              /\ \A j \in DOMAIN NoSurfaces \ {k} : surfaces'[j] = surfaces[j]
              /\ Len(surfaces'[k]) = Len(surfaces[k]) + 1 /\ Len(surfaces[k]) \in Nat
              /\ surfaces'[k][Len(surfaces[k]) + 1] = f
              /\ \A i \in 1..Len(surfaces[k]) : surfaces'[k][i] = surfaces[k][i]
            BY <2>2, <3>1, <3>4, FaceAppended DEF k, f
        <3>6. ASSUME NEW j \in DOMAIN NoSurfaces, NEW i \in DOMAIN surfaces'[j]
              PROVE  surfaces'[j][i].mat \in Held
            <4>1. surfaces \in [DOMAIN NoSurfaces -> Seq(AnyFace)]
                BY DEF LoaderInv
            <4>2. CASE j # k \/ i # Len(surfaces[k]) + 1
                <5>1. surfaces'[j][i] = surfaces[j][i] /\ i \in DOMAIN surfaces[j]
                    <6>1. CASE j # k BY <3>5, <6>1
                    <6>2. CASE j = k
                        <7>1. i \in 1..Len(surfaces[k])
                            BY <3>5, <3>6, <4>2, <6>2
                        <7> QED BY <3>1, <3>5, <4>1, <6>2, <7>1
                    <6> QED BY <6>1, <6>2
                <5> QED BY <4>1, <5>1 DEF LoaderInv
            <4>3. CASE j = k /\ i = Len(surfaces[k]) + 1
                BY <3>2, <3>3, <3>5, <4>3
            <4> QED BY <4>2, <4>3
        <3> QED BY <3>5, <3>6
    <2> QED BY <1>1, <2>1, <2>2
<1> QED
    BY <1>3, <1>4, <1>5, <1>6 DEF LoaderInv

LEMMA LibraryKeepsTypes ==
    ASSUME LoaderInv,
           ReadMtllib \/ ReadNewmtl \/ ReadAttribute \/ ReadIgnoredOfLibrary \/ EndOfLibrary
    PROVE  LoaderInv'
<1>1. CASE ReadMtllib
    <2>1. PICK lib \in Libraries : Reads([kind |-> "mtllib", lib |-> lib])
        BY <1>1 DEF ReadMtllib, Taken
    <2>2. [kind |-> "mtllib", lib |-> lib] \in Lines
        BY DEF Lines
    <2>3. /\ file' \in Seq(Lines) /\ Len(file') \in Nat \ {0} /\ status = "reading"
          /\ file'[Len(file')] = [kind |-> "mtllib", lib |-> lib]
        <3> DEFINE line == [kind |-> "mtllib", lib |-> lib]
        <3> HIDE DEF line
        <3>1. line \in Lines /\ Reads(line) BY <2>1, <2>2 DEF line
        <3>2. /\ file' \in Seq(Lines) /\ Len(file') = Len(file) + 1 /\ Len(file) \in Nat
              /\ status = "reading" /\ file'[Len(file')] = line
            BY <3>1, TakesALine
        <3> QED BY <3>2 DEF line
    <2>4. /\ library' = 1 /\ pending' = NoMaterial
          /\ UNCHANGED <<vertices, materials, Mat, surfaces, status, broken>> /\ Held' = Held
        BY <1>1 DEF ReadMtllib, meshVars, Held
    <2> QED BY <2>3, <2>4 DEF LoaderInv
<1>2. ASSUME UNCHANGED <<file, vertices, Mat, surfaces, status>>,
             materials' = materials \/ materials' = Committed, library > 0,
             library' \in {0, library + 1}, broken' \in BOOLEAN,
             pending' \in AnyMaterial \cup {NoMaterial}
      PROVE  LoaderInv'
    <2>1. materials' \in Seq(AnyMaterial) /\ Held \subseteq Held'
        <3>1. CASE materials' = materials
            BY <3>1 DEF LoaderInv, Held
        <3>2. CASE materials' = Committed
            BY <3>2, Committing
        <3> QED BY <1>2, <3>1, <3>2
    <2>2. library' \in Nat
        BY <1>2 DEF LoaderInv
    <2> QED BY <1>2, <2>1, <2>2 DEF LoaderInv
<1>3. CASE ReadNewmtl
    <2>1. library > 0 /\ library <= Len(Library)
        BY <1>3 DEF ReadNewmtl, AtLine, InLibrary
    <2>2. library \in DOMAIN Library
        BY <2>1, LibraryIsRead DEF LoaderInv
    <2>3. pending' \in AnyMaterial
        BY <1>3, <2>1, <2>2, NewMaterialIs DEF ReadNewmtl
    <2> QED BY <1>2, <1>3, <2>1, <2>3 DEF ReadNewmtl, AtLine, LoaderInv
<1>4. CASE ReadAttribute
    <2>1. PICK k \in {"color", "Ks", "Ns"} :
             /\ AtLine(k)
             /\ pending' = IF pending = NoMaterial THEN pending ELSE Described(pending, k)
        BY <1>4 DEF ReadAttribute
    <2>2. pending' \in AnyMaterial \cup {NoMaterial}
        <3>1. CASE pending = NoMaterial BY <2>1, <3>1
        <3>2. CASE pending # NoMaterial
            <4>1. pending \in AnyMaterial BY <3>2 DEF LoaderInv
            <4> QED BY <2>1, <3>2, <4>1, Describing
        <3> QED BY <3>1, <3>2
    <2>3. broken' \in BOOLEAN
        BY <1>4 DEF ReadAttribute
    <2>4. library > 0 /\ library' = library + 1
        BY <2>1 DEF AtLine, InLibrary
    <2>5. UNCHANGED <<file, vertices, materials, Mat, surfaces, status>>
        BY <1>4 DEF ReadAttribute, meshVars
    <2> QED BY <1>2, <2>2, <2>3, <2>4, <2>5
<1>5. CASE ReadIgnoredOfLibrary
    BY <1>2, <1>5 DEF ReadIgnoredOfLibrary, InLibrary, meshVars, LoaderInv
<1>6. CASE EndOfLibrary
    BY <1>2, <1>6 DEF EndOfLibrary, InLibrary, LoaderInv
<1> QED
    BY <1>1, <1>3, <1>4, <1>5, <1>6

LEMMA LoaderKeepsTypes ==
    ASSUME LoaderInv, [Next]_vars
    PROVE  LoaderInv'
<1>1. CASE LastFaceGoesOn \/ EndOfFile \/ AddPrimitive \/ RemovePrimitive \/ DrawFrame
           \/ UNCHANGED vars
    <2>1. UNCHANGED <<file, vertices, materials, Mat, surfaces, library, pending, broken>>
        BY <1>1 DEF LastFaceGoesOn, EndOfFile, AddPrimitive, RemovePrimitive, DrawFrame, vars,
                    loaderVars, meshVars
    <2>2. Held' = Held
        BY <2>1 DEF Held
    <2>3. /\ status' \in {"reading", "inLastFace", "inLastFaceAgain", "loaded"}
          /\ library > 0 \/ broken => status' = status
        <3>1. status \in {"reading", "inLastFace", "inLastFaceAgain", "loaded"}
              /\ (library > 0 \/ broken => status = "reading")
            BY DEF LoaderInv
        <3>2. CASE LastFaceGoesOn
            BY <3>1, <3>2 DEF LastFaceGoesOn
        <3>3. CASE EndOfFile
            BY <3>3 DEF EndOfFile, Reading
        <3>4. CASE AddPrimitive \/ RemovePrimitive \/ DrawFrame \/ UNCHANGED vars
            <4>1. status' = status
                BY <3>4 DEF AddPrimitive, RemovePrimitive, DrawFrame, vars, loaderVars
            <4> QED BY <3>1, <4>1
        <3> QED BY <1>1, <3>2, <3>3, <3>4
    <2> QED BY <2>1, <2>2, <2>3 DEF LoaderInv
<1> QED
    BY <1>1, LineKeepsTypes, FaceKeepsTypes, LibraryKeepsTypes DEF Next, Load, LoadStep

\* Once the file is loaded the mesh stays as it is.
LEMMA LoadedStays ==
    ASSUME LoaderInv, [Next]_vars, status = "loaded"
    PROVE  UNCHANGED loaderVars
<1>1. library = 0
    BY DEF LoaderInv
<1>2. ~LoadStep
    BY <1>1 DEF LoadStep, ReadIgnored, ReadSwallowed, ReadVertex, ReadUsemtl, ReadFace, ReadMtllib,
                ReadNewmtl, ReadAttribute, ReadIgnoredOfLibrary, EndOfLibrary, EnterLastFace,
                LastFaceGoesOn, EndOfFile, Taken, Reads, Reading, AtLine, InLibrary
<1> QED
    BY <1>2 DEF Next, Load, AddPrimitive, RemovePrimitive, DrawFrame, vars

-----------------------------------------------------------------------------
(* Drawing the mesh, face after face.                                      *)

Start == [last |-> LastMaterialPointer, values |-> glMaterial, shown |-> {}]

\* The recursive function of MeshDrawn exists and obeys its equation.
LEMMA MeshDrawnRecursion ==
    ASSUME Len(Drawn) \in Nat
    PROVE  \E after :
             /\ MeshDrawn = after[Len(Drawn)]
             /\ after[0] = Start
             /\ \A k \in 1..Len(Drawn) : after[k] = DrawFace(after[k-1], Drawn[k])
<1> DEFINE N == Len(Drawn)
           Row(f, k) == IF k = 0 THEN Start ELSE DrawFace(f[k-1], Drawn[k])
           Good(f, n) == f = [k \in 0..n |-> Row(f, k)]
           Bad == {n \in 0..N : \A f : ~Good(f, n)}
<1>0. N \in Nat
    OBVIOUS
<1> HIDE DEF N
<1>1. Bad = {}
    <2>1. SUFFICES ASSUME Bad # {} PROVE FALSE
        OBVIOUS
    <2>2. PICK n \in Bad : \A k \in Bad : n <= k
        <3>1. Bad \in SUBSET Nat BY <1>0
        <3> HIDE DEF Bad
        <3> QED BY <2>1, <3>1, LeastNatural
    <2>3. n \in 0..N /\ n \in Nat /\ \A f : ~Good(f, n) BY <1>0
    <2>4. \E f : n = 0 \/ Good(f, n - 1)
        <3>1. SUFFICES ASSUME n # 0 PROVE n - 1 \notin Bad /\ n - 1 \in 0..N
            OBVIOUS
        <3>2. n - 1 \in 0..N /\ ~(n <= n - 1) BY <1>0, <2>3, <3>1
        <3> HIDE DEF Bad
        <3> QED BY <2>2, <3>2
    <2>5. PICK f : n = 0 \/ Good(f, n - 1) BY <2>4
    <2> HIDE DEF Bad
    <2> DEFINE g == [k \in 0..n |-> IF k = n THEN Row(f, n) ELSE f[k]]
    <2>6. ASSUME NEW k \in 0..n PROVE g[k] = Row(g, k)
        <3>1. Row(g, k) = Row(f, k)
            <4>1. k # 0 => k - 1 \in 0..n /\ k - 1 # n BY <2>3
            <4>2. k # 0 => g[k-1] = f[k-1] BY <4>1
            <4> HIDE DEF g
            <4> QED BY <4>2
        <3>2. g[k] = Row(f, k)
            <4>1. k # n => n # 0 /\ k \in 0..(n-1) BY <2>3
            <4> HIDE DEF Row
            <4> QED BY <2>5, <4>1
        <3> HIDE DEF g, Row
        <3> QED BY <3>1, <3>2
    <2>7. Good(g, n)
        <3>1. g = [k \in 0..n |-> g[k]]
            OBVIOUS
        <3> HIDE DEF g, Row
        <3> QED BY <2>6, <3>1
    <2> HIDE DEF Good
    <2> QED BY <2>3, <2>7
<1> DEFINE after == CHOOSE f : Good(f, N)
<1>2. Good(after, N)
    <2>1. N \in 0..N BY <1>0
    <2> HIDE DEF Good
    <2> QED BY <1>1, <2>1
<1>3. MeshDrawn = after[N]
    BY DEF MeshDrawn, N, Start
<1> HIDE DEF after
<1>4. after[0] = Start
    BY <1>0, <1>2
<1>5. ASSUME NEW k \in 1..N PROVE after[k] = DrawFace(after[k-1], Drawn[k])
    <2>1. k \in 0..N /\ k # 0 BY <1>0
    <2>2. after[k] = Row(after, k)
        <3> HIDE DEF Row
        <3> QED BY <1>2, <2>1
    <2> QED BY <2>1, <2>2
<1> QED BY <1>3, <1>4, <1>5 DEF N

\* What is drawn are the faces of three vectors, each face once.
LEMMA DrawnIsASequence ==
    ASSUME LoaderInv
    PROVE  /\ Drawn \in Seq(AnyFace) /\ Len(Drawn) \in Nat
           /\ \A k \in 1..Len(Drawn) : Drawn[k].mat \in Held
           /\ Len(Drawn) = Len(surfaces.triangles) + Len(surfaces.quads) + Len(surfaces.polygons)
           /\ \A kind \in {"triangles", "quads", "polygons"} : \A i \in 1..Len(surfaces[kind]) :
                 \E k \in 1..Len(Drawn) : Drawn[k] = surfaces[kind][i]
<1> DEFINE a == surfaces.triangles
           b == surfaces.quads
           c == surfaces.polygons
<1>1. /\ a \in Seq(AnyFace) /\ b \in Seq(AnyFace) /\ c \in Seq(AnyFace)
      /\ \A i \in 1..Len(a) : a[i].mat \in Held
      /\ \A i \in 1..Len(b) : b[i].mat \in Held
      /\ \A i \in 1..Len(c) : c[i].mat \in Held
    BY DEF LoaderInv, NoSurfaces
<1>2. Drawn = (a \o b) \o c
    BY DEF Drawn
<1> HIDE DEF a, b, c
<1>3. /\ a \o b \in Seq(AnyFace) /\ Len(a \o b) = Len(a) + Len(b)
      /\ Len(a) \in Nat /\ Len(b) \in Nat /\ Len(c) \in Nat
      /\ \A k \in 1..(Len(a) + Len(b)) :
            (a \o b)[k] = IF k <= Len(a) THEN a[k] ELSE b[k - Len(a)]
    BY <1>1
<1>4. /\ Drawn \in Seq(AnyFace) /\ Len(Drawn) = Len(a) + Len(b) + Len(c)
      /\ \A k \in 1..(Len(a) + Len(b) + Len(c)) :
            Drawn[k] = IF k <= Len(a) + Len(b) THEN (a \o b)[k] ELSE c[k - (Len(a) + Len(b))]
    BY <1>1, <1>2, <1>3
<1>5. ASSUME NEW k \in 1..Len(Drawn) PROVE Drawn[k].mat \in Held
    <2>1. CASE k <= Len(a)
        <3>1. k \in 1..Len(a) /\ Drawn[k] = a[k] BY <1>3, <1>4, <2>1
        <3> QED BY <1>1, <3>1
    <2>2. CASE k > Len(a) /\ k <= Len(a) + Len(b)
        <3>1. k - Len(a) \in 1..Len(b) /\ Drawn[k] = b[k - Len(a)] BY <1>3, <1>4, <2>2
        <3> QED BY <1>1, <3>1
    <2>3. CASE k > Len(a) + Len(b)
        <3>1. k - (Len(a) + Len(b)) \in 1..Len(c) /\ Drawn[k] = c[k - (Len(a) + Len(b))]
            BY <1>3, <1>4, <2>3
        <3> QED BY <1>1, <3>1
    <2> QED BY <1>3, <1>4, <2>1, <2>2, <2>3
<1>6. ASSUME NEW i \in 1..Len(a) PROVE \E k \in 1..Len(Drawn) : Drawn[k] = a[i]
    <2>1. i \in 1..Len(Drawn) /\ Drawn[i] = a[i] BY <1>3, <1>4
    <2> QED BY <2>1
<1>7. ASSUME NEW i \in 1..Len(b) PROVE \E k \in 1..Len(Drawn) : Drawn[k] = b[i]
    <2>1. /\ Len(a) + i \in 1..Len(Drawn) /\ Len(a) + i \in 1..(Len(a) + Len(b))
          /\ ~(Len(a) + i <= Len(a)) /\ (Len(a) + i) - Len(a) = i
        BY <1>3, <1>4
    <2>2. Drawn[Len(a) + i] = b[i] BY <1>3, <1>4, <2>1
    <2> QED BY <2>1, <2>2
<1>8. ASSUME NEW i \in 1..Len(c) PROVE \E k \in 1..Len(Drawn) : Drawn[k] = c[i]
    <2>1. /\ Len(a) + Len(b) + i \in 1..Len(Drawn) /\ ~(Len(a) + Len(b) + i <= Len(a) + Len(b))
          /\ (Len(a) + Len(b) + i) - (Len(a) + Len(b)) = i
        BY <1>3, <1>4
    <2>2. Drawn[Len(a) + Len(b) + i] = c[i] BY <1>3, <1>4, <2>1
    <2> QED BY <2>1, <2>2
<1>9. ASSUME NEW kind \in {"triangles", "quads", "polygons"}, NEW i \in 1..Len(surfaces[kind])
      PROVE  \E k \in 1..Len(Drawn) : Drawn[k] = surfaces[kind][i]
    <2>1. CASE kind = "triangles" BY <1>6, <1>9, <2>1 DEF a
    <2>2. CASE kind = "quads" BY <1>7, <1>9, <2>2 DEF b
    <2>3. CASE kind = "polygons" BY <1>8, <1>9, <2>3 DEF c
    <2> QED BY <2>1, <2>2, <2>3
<1>10. Len(Drawn) \in Nat /\ Len(Drawn) = Len(a) + Len(b) + Len(c)
    BY <1>3, <1>4
<1> QED
    BY <1>4, <1>5, <1>9, <1>10 DEF a, b, c

\* OpenGL has the values of the material it was given last if that is one of
\* the loaded mesh, which are never freed; of a primitive's only the address
\* is remembered.
Agree(last, values) ==
    \/ last = Null
    \/ last \in Held /\ values = Values(MaterialAt(last))
    \/ last \in Heap

\* The primitive's own material, and whether OpenGL has it.
Own == MaterialOf(primitive, address)
OwnIsGiven == LastMaterialPointer = address /\ glMaterial = Values(Own)

ShowInv ==
    /\ primitive \in Shapes \cup {NoShape}
    /\ address \in IF primitive = NoShape THEN {Null} ELSE Heap
    /\ mistaken \in BOOLEAN
    /\ Agree(LastMaterialPointer, glMaterial)
    /\ frame \in 0..(FrameModulus-1)
    /\ status # "loaded" => LastMaterialPointer = Null /\ primitive = NoShape
    /\ primitive # NoShape /\ LastMaterialPointer = address /\ ~mistaken => OwnIsGiven
    /\ primitive # NoShape /\ mistaken /\ Drawn = <<>> =>
          LastMaterialPointer = address /\ glMaterial # Values(Own)

TypeInv == LoaderInv /\ ShowInv

LEMMA PairIsNotNull == \A at \in Int \X Int : at # Null
<1> TAKE at \in Int \X Int
<1>1. PICK x, y \in Int : at = <<x, y>>
    OBVIOUS
<1>2. <<x, y>> # <<>>
    OBVIOUS
<1> QED
    BY <1>1, <1>2 DEF Null

\* No address of the heap is null or that of a material of the mesh.
LEMMA HeapIsApart ==
    ASSUME LoaderInv, NEW at \in Heap
    PROVE  at # Null /\ at \notin Held
<1>1. at \in Int \X Int /\ at[1] < 0
    BY HeapAssumption
<1>2. at \notin Nat \X Nat
    BY <1>1
<1> QED
    BY <1>1, <1>2, HeldAreAddresses, PairIsNotNull

\* The address of a material in the map leads to it.
LEMMA MaterialIsThere ==
    ASSUME LoaderInv, NEW at \in Held
    PROVE  /\ MaterialAt(at) \in ToSet(materials) /\ MaterialAt(at).at = at
           /\ \E i \in DOMAIN materials : MaterialAt(at) = materials[i]
           /\ at # Null /\ at \notin Heap
<1>1. PICK i \in DOMAIN materials : at = materials[i].at
    BY DEF Held
<1>2. materials[i] \in ToSet(materials)
    BY <1>1 DEF ToSet
<1>3. MaterialAt(at) \in ToSet(materials) /\ MaterialAt(at).at = at
    BY <1>1, <1>2 DEF MaterialAt
<1>4. \E j \in DOMAIN materials : MaterialAt(at) = materials[j]
    BY <1>3 DEF ToSet
<1>5. at \in Nat \X Nat
    BY HeldAreAddresses
<1>6. at \notin Heap
    BY HeapIsApart
<1>7. at # Null
    BY <1>5, PairIsNotNull
<1> QED
    BY <1>3, <1>4, <1>6, <1>7

\* Whatever OpenGL was given before, a face is drawn in its own material.
LEMMA FaceInItsMaterial ==
    ASSUME LoaderInv, NEW gl, Agree(gl.last, gl.values), NEW f, f.mat \in Held
    PROVE  LET drawn == DrawFace(gl, f)
           IN  /\ drawn.last = f.mat /\ drawn.values = Values(MaterialAt(f.mat))
               /\ drawn.shown = gl.shown \cup
                    {[corners |-> f.corners, with |-> Values(MaterialAt(f.mat))]}
<1> DEFINE m == MaterialAt(f.mat)
           set == SetDrawingColorAndMaterial(gl, m)
<1>1. m.at = f.mat /\ f.mat # Null /\ f.mat \notin Heap
    BY MaterialIsThere
<1>2. set.last = f.mat /\ set.values = Values(m)
    <2>1. CASE gl.last = f.mat
        <3>1. gl.values = Values(m)
            BY <1>1, <2>1 DEF Agree
        <3> QED BY <1>1, <2>1, <3>1 DEF SetDrawingColorAndMaterial
    <2>2. CASE gl.last # f.mat
        BY <1>1, <2>2 DEF SetDrawingColorAndMaterial
    <2> QED BY <2>1, <2>2
<1> HIDE DEF m
<1>3. DrawFace(gl, f) = [last |-> set.last, values |-> set.values,
                         shown |-> gl.shown \cup {[corners |-> f.corners, with |-> set.values]}]
    BY DEF DrawFace, m
<1> HIDE DEF set
<1> QED
    BY <1>2, <1>3 DEF m

\* A primitive is drawn in its own values, unless its address is remembered
\* with others, which then stay.
LEMMA PrimitiveInItsMaterial ==
    ASSUME NEW gl
    PROVE  LET set == SetDrawingColorAndMaterial(gl, Own)
           IN  /\ set.last = address
               /\ set.values = IF gl.last = address THEN gl.values ELSE Values(Own)
<1>1. Own.at = address
    BY DEF Own, MaterialOf
<1> QED
    BY <1>1 DEF SetDrawingColorAndMaterial

\* All the faces of the three vectors are on the screen, each in its material.
LEMMA MeshIsDrawn ==
    ASSUME LoaderInv, Agree(LastMaterialPointer, glMaterial)
    PROVE  /\ Agree(MeshDrawn.last, MeshDrawn.values)
           /\ IF Len(Drawn) = 0
              THEN MeshDrawn.last = LastMaterialPointer /\ MeshDrawn.values = glMaterial
              ELSE MeshDrawn.last \in Held
           /\ \A k \in 1..Len(Drawn) :
                 [corners |-> Drawn[k].corners, with |-> Values(MaterialAt(Drawn[k].mat))]
                    \in MeshDrawn.shown
<1> DEFINE N == Len(Drawn)
           InItsOwn(k) == [corners |-> Drawn[k].corners, with |-> Values(MaterialAt(Drawn[k].mat))]
<1>1. N \in Nat /\ \A k \in 1..N : Drawn[k].mat \in Held
    BY DrawnIsASequence
<1>2. PICK after : /\ MeshDrawn = after[N] /\ after[0] = Start
                   /\ \A k \in 1..N : after[k] = DrawFace(after[k-1], Drawn[k])
    BY <1>1, MeshDrawnRecursion
<1> DEFINE Right(k) == /\ Agree(after[k].last, after[k].values)
                       /\ \A j \in 1..k : InItsOwn(j) \in after[k].shown
           Bad == {k \in 0..N : ~Right(k)}
<1> HIDE DEF N, InItsOwn
<1>3. Right(0)
    BY <1>2 DEF Start
<1>4. ASSUME NEW k \in 1..N, Right(k-1) PROVE Right(k)
    <2>1. /\ after[k].last = Drawn[k].mat
          /\ after[k].values = Values(MaterialAt(Drawn[k].mat))
          /\ after[k].shown = after[k-1].shown \cup {InItsOwn(k)}
        <3>1. after[k] = DrawFace(after[k-1], Drawn[k]) /\ Drawn[k].mat \in Held
            BY <1>1, <1>2
        <3>2. Agree(after[k-1].last, after[k-1].values)
            BY <1>4
        <3> QED BY <3>1, <3>2, FaceInItsMaterial DEF InItsOwn
    <2>2. Agree(after[k].last, after[k].values)
        BY <1>1, <2>1 DEF Agree
    <2>3. ASSUME NEW j \in 1..k PROVE InItsOwn(j) \in after[k].shown
        <3>1. CASE j = k BY <2>1, <3>1
        <3>2. CASE j # k
            <4>1. j \in 1..(k-1) BY <1>1, <3>2
            <4> QED BY <1>4, <2>1, <4>1
        <3> QED BY <3>1, <3>2
    <2> QED BY <2>2, <2>3
<1>5. Bad = {}
    <2>1. SUFFICES ASSUME Bad # {} PROVE FALSE
        OBVIOUS
    <2>2. PICK k \in Bad : \A j \in Bad : k <= j
        <3>1. Bad \in SUBSET Nat BY <1>1
        <3> HIDE DEF Bad
        <3> QED BY <2>1, <3>1, LeastNatural
    <2>3. k \in 0..N /\ ~Right(k)
        OBVIOUS
    <2> HIDE DEF Right
    <2>4. k \in 1..N /\ k - 1 \in 0..N /\ ~(k <= k - 1)
        BY <1>1, <1>3, <2>3
    <2>5. k - 1 \notin Bad
        <3> HIDE DEF Bad
        <3> QED BY <2>2, <2>4
    <2> QED BY <1>4, <2>3, <2>4, <2>5
<1>6. Right(N)
    <2>1. N \in 0..N BY <1>1
    <2> HIDE DEF Right
    <2> QED BY <1>5, <2>1
<1>7. N = 0 => MeshDrawn.last = LastMaterialPointer /\ MeshDrawn.values = glMaterial
    BY <1>2 DEF Start
<1>8. N # 0 => MeshDrawn.last \in Held
    <2> SUFFICES ASSUME N # 0 PROVE MeshDrawn.last \in Held
        OBVIOUS
    <2>1. N \in 1..N /\ N - 1 \in 0..N
        BY <1>1
    <2>2. Right(N - 1)
        <3> HIDE DEF Right
        <3> QED BY <1>5, <2>1
    <2>3. DrawFace(after[N-1], Drawn[N]).last = Drawn[N].mat
        BY <1>1, <2>1, <2>2, FaceInItsMaterial
    <2> QED BY <1>1, <1>2, <2>1, <2>3
<1> QED
    BY <1>2, <1>6, <1>7, <1>8 DEF N, InItsOwn

\* What a frame leaves behind, in OpenGL and on the screen.
LEMMA FrameDraws ==
    ASSUME TypeInv, DrawFrame
    PROVE  /\ Agree(LastMaterialPointer', glMaterial')
           /\ \A k \in 1..Len(Drawn) :
                 [corners |-> Drawn[k].corners, with |-> Values(MaterialAt(Drawn[k].mat))]
                    \in shown'
           /\ primitive # NoShape =>
                 /\ LastMaterialPointer' = address /\ shownPrimitive' = {glMaterial'}
                 /\ ~mistaken \/ Drawn # <<>> => glMaterial' = Values(Own)
                 /\ mistaken /\ Drawn = <<>> => glMaterial' # Values(Own)
<1> DEFINE all == IF primitive = NoShape THEN MeshDrawn
                  ELSE SetDrawingColorAndMaterial(MeshDrawn, Own)
<1>1. /\ LastMaterialPointer' = all.last /\ glMaterial' = all.values
      /\ shown' = MeshDrawn.shown
      /\ shownPrimitive' = IF primitive = NoShape THEN {} ELSE {all.values}
    BY DEF DrawFrame, Own
<1>2. LoaderInv /\ ShowInv /\ Agree(LastMaterialPointer, glMaterial)
    BY DEF TypeInv, ShowInv
<1>3. /\ Agree(MeshDrawn.last, MeshDrawn.values)
      /\ IF Len(Drawn) = 0
         THEN MeshDrawn.last = LastMaterialPointer /\ MeshDrawn.values = glMaterial
         ELSE MeshDrawn.last \in Held
      /\ \A k \in 1..Len(Drawn) :
            [corners |-> Drawn[k].corners, with |-> Values(MaterialAt(Drawn[k].mat))]
               \in MeshDrawn.shown
    BY <1>2, MeshIsDrawn
<1>4. CASE primitive = NoShape
    BY <1>1, <1>3, <1>4
<1>5. CASE primitive # NoShape
    <2>1. address \in Heap
        BY <1>2, <1>5 DEF ShowInv
    <2>2. /\ all.last = address
          /\ all.values = IF MeshDrawn.last = address THEN MeshDrawn.values ELSE Values(Own)
        BY <1>5, PrimitiveInItsMaterial
    <2> HIDE DEF all
    <2>3. Agree(all.last, all.values)
        BY <2>1, <2>2 DEF Agree
    <2>4. Drawn = <<>> <=> Len(Drawn) = 0
        BY <1>2, DrawnIsASequence
    <2>5. CASE Drawn # <<>>
        <3>1. all.values = Values(Own)
            BY <1>2, <1>3, <2>1, <2>2, <2>4, <2>5, HeapIsApart
        <3> QED BY <1>1, <1>3, <1>5, <2>2, <2>3, <2>5, <3>1
    <2>6. CASE Drawn = <<>>
        <3>1. MeshDrawn.last = LastMaterialPointer /\ MeshDrawn.values = glMaterial
            BY <1>3, <2>4, <2>6
        <3>2. CASE ~mistaken
            <4>1. all.values = Values(Own)
                BY <1>2, <1>5, <2>2, <3>1, <3>2 DEF ShowInv, OwnIsGiven
            <4> QED BY <1>1, <1>3, <1>5, <2>2, <2>3, <3>2, <4>1
        <3>3. CASE mistaken
            <4>1. all.values # Values(Own)
                BY <1>2, <1>5, <2>2, <2>6, <3>1, <3>3 DEF ShowInv
            <4> QED BY <1>1, <1>3, <1>5, <2>2, <2>3, <2>6, <3>3, <4>1
        <3> QED BY <3>2, <3>3
    <2> QED BY <2>5, <2>6
<1> QED
    BY <1>4, <1>5

LEMMA ShowStarts == ShowInit => ShowInv
<1> SUFFICES ASSUME ShowInit PROVE ShowInv
    OBVIOUS
<1>1. /\ primitive = NoShape /\ address = Null /\ mistaken = FALSE
      /\ LastMaterialPointer = Null /\ frame = 0
    BY DEF ShowInit
<1>2. Agree(LastMaterialPointer, glMaterial)
    BY <1>1 DEF Agree
<1>3. frame \in 0..(FrameModulus-1)
    BY <1>1, FrameModulusAssumption
<1> QED
    BY <1>1, <1>2, <1>3 DEF ShowInv

LEMMA ShowKeepsTypes ==
    ASSUME TypeInv, [Next]_vars
    PROVE  ShowInv'
<1>1. LoaderInv /\ ShowInv
    BY DEF TypeInv
<1>2. CASE status # "loaded"
    <2>1. UNCHANGED showVars
        BY <1>2 DEF Next, Load, AddPrimitive, RemovePrimitive, DrawFrame, vars
    <2>2. UNCHANGED <<primitive, address, mistaken, LastMaterialPointer, glMaterial, frame>>
        BY <2>1 DEF showVars, primitiveVars, glVars
    <2>3. LastMaterialPointer = Null /\ primitive = NoShape
        BY <1>1, <1>2 DEF ShowInv
    <2>4. Agree(LastMaterialPointer, glMaterial)'
        BY <2>2, <2>3 DEF Agree
    <2> QED BY <1>1, <2>2, <2>3, <2>4 DEF ShowInv
<1>3. CASE status = "loaded"
    <2>1. UNCHANGED loaderVars
        BY <1>1, <1>3, LoadedStays
    <2>2. /\ Held' = Held /\ status' = "loaded" /\ \A at : MaterialAt(at)' = MaterialAt(at)
          /\ Drawn' = Drawn
        BY <1>3, <2>1 DEF loaderVars, meshVars, Held, MaterialAt, Drawn
    <2>3. CASE DrawFrame
        <3>1. /\ Agree(LastMaterialPointer', glMaterial')
              /\ primitive # NoShape =>
                    /\ LastMaterialPointer' = address
                    /\ ~mistaken \/ Drawn # <<>> => glMaterial' = Values(Own)
                    /\ mistaken /\ Drawn = <<>> => glMaterial' # Values(Own)
            BY <2>3, FrameDraws
        <3>2. Agree(LastMaterialPointer, glMaterial)'
            BY <2>2, <3>1 DEF Agree
        <3>3. /\ frame' \in 0..(FrameModulus-1)
              /\ UNCHANGED <<primitive, address, mistaken>>
            BY <1>1, <2>3, FrameModulusAssumption DEF DrawFrame, ShowInv, primitiveVars
        <3>4. Values(Own)' = Values(Own)
            BY <3>3 DEF Own, Values, MaterialOf
        <3> QED BY <1>1, <2>2, <3>1, <3>2, <3>3, <3>4 DEF ShowInv, OwnIsGiven
    <2>4. CASE ~DrawFrame
        <3>1. UNCHANGED <<LastMaterialPointer, glMaterial, frame>>
            BY <1>1, <2>4 DEF Next, Load, AddPrimitive, RemovePrimitive, vars, showVars, glVars
        <3>2. Agree(LastMaterialPointer, glMaterial)'
            BY <1>1, <2>2, <3>1 DEF ShowInv, Agree
        <3>3. CASE AddPrimitive
            <4>1. /\ primitive' \in Shapes /\ address' \in Heap
                  /\ mistaken' = (/\ LastMaterialPointer = address'
                                  /\ glMaterial # Values(MaterialOf(primitive', address')))
                BY <3>3 DEF AddPrimitive
            <4>2. Values(MaterialOf(primitive', address')) = Values(Own)'
                BY DEF Own, Values, MaterialOf
            <4>3. primitive' # NoShape
                BY <4>1, ShapesAssumption DEF NoShape
            <4>4. /\ mistaken' \in BOOLEAN
                  /\ mistaken' <=> LastMaterialPointer = address' /\ glMaterial # Values(Own)'
                BY <4>1, <4>2
            <4> QED BY <1>1, <2>2, <3>1, <3>2, <4>1, <4>3, <4>4 DEF ShowInv, OwnIsGiven
        <3>4. CASE RemovePrimitive
            <4>1. primitive' = NoShape /\ address' = Null /\ mistaken' = FALSE
                BY <3>4 DEF RemovePrimitive
            <4> QED BY <1>1, <2>2, <3>1, <3>2, <4>1 DEF ShowInv
        <3>5. CASE ~AddPrimitive /\ ~RemovePrimitive
            <4>1. UNCHANGED <<primitive, address, mistaken>>
                BY <2>4, <3>5 DEF Next, Load, vars, showVars, primitiveVars
            <4>2. Values(Own)' = Values(Own)
                BY <4>1 DEF Own, Values, MaterialOf
            <4> QED BY <1>1, <2>2, <3>1, <3>2, <4>1, <4>2 DEF ShowInv, OwnIsGiven
        <3> QED BY <3>3, <3>4, <3>5
    <2> QED BY <2>3, <2>4
<1> QED
    BY <1>2, <1>3

\* TypeInv: the types, and what OpenGL has at the address it was given last.
THEOREM TypeInvHolds == Spec => []TypeInv
<1>1. ShowInit => TypeInv
    BY LoaderStarts, ShowStarts DEF TypeInv
<1>2. TypeInv /\ [Next]_vars => TypeInv'
    BY LoaderKeepsTypes, ShowKeepsTypes DEF TypeInv
<1> QED
    BY <1>1, <1>2, PTL DEF Spec

\* TypeOK: the state of the loader and of the renderer is well typed, also
\* where the loader has run into undefined behaviour; and the address that is
\* remembered is null, that of a material of the mesh, or of the heap.
THEOREM TypeCorrect == Spec => []TypeOK
<1>1. TypeInv => TypeOK
    <2> SUFFICES ASSUME TypeInv PROVE TypeOK
        OBVIOUS
    <2>1. LoaderTypeOK
        <3>1. ASSUME NEW m \in AnyMaterial PROVE DOMAIN m = DOMAIN Proto
            BY DEF AnyMaterial, Proto
        <3>2. \A i \in DOMAIN materials : DOMAIN materials[i] = DOMAIN Proto
            BY <3>1 DEF TypeInv, LoaderInv
        <3>3. pending = NoMaterial \/ DOMAIN pending = DOMAIN Proto
            BY <3>1 DEF TypeInv, LoaderInv
        <3> QED BY <3>2, <3>3 DEF TypeInv, LoaderInv, LoaderTypeOK
    <2>2. LastMaterialPointer \in
             {Null} \cup Heap \cup {materials[i].at : i \in DOMAIN materials}
        BY DEF TypeInv, ShowInv, Agree, Held
    <2> QED BY <2>1, <2>2 DEF TypeInv, ShowInv, TypeOK
<1> QED
    BY <1>1, TypeInvHolds, PTL

\* PrimitivesInTheirMaterial: a primitive is drawn in its own values exactly
\* when its address was not remembered with others as it was made, or a face of
\* the file is drawn before it; whatever else was drawn, made and freed, and
\* whether or not OpenGL is given the material again.
THEOREM PrimitivesKeepTheirMaterial == Spec => PrimitivesInTheirMaterial
<1>1. ASSUME TypeInv, [Next]_vars
      PROVE  [frame' # frame /\ primitive # NoShape =>
                 (shownPrimitive' = {Values(MaterialOf(primitive, address))}
                     <=> ~mistaken \/ Drawn # <<>>)]_vars
    <2>1. CASE DrawFrame
        <3> SUFFICES ASSUME primitive # NoShape
                     PROVE  shownPrimitive' = {Values(Own)} <=> ~mistaken \/ Drawn # <<>>
            BY DEF Own
        <3>1. /\ shownPrimitive' = {glMaterial'}
              /\ ~mistaken \/ Drawn # <<>> => glMaterial' = Values(Own)
              /\ mistaken /\ Drawn = <<>> => glMaterial' # Values(Own)
            BY <1>1, <2>1, FrameDraws
        <3>2. {glMaterial'} = {Values(Own)} <=> glMaterial' = Values(Own)
            OBVIOUS
        <3> QED BY <3>1, <3>2
    <2>2. CASE ~DrawFrame
        <3>1. frame' = frame
            BY <1>1, <2>2 DEF Next, Load, AddPrimitive, RemovePrimitive, vars, showVars, glVars
        <3> QED BY <3>1
    <2> QED BY <2>1, <2>2
<1> QED
    BY <1>1, TypeInvHolds, PTL DEF Spec, PrimitivesInTheirMaterial
-----------------------------------------------------------------------------
(* What becomes of the definitions in the libraries.                       *)

\* The definitions that have been read.
Made == {d \in Definitions : d[1] = Len(file) /\ library > 0 => d[2] < library}

Before(d, e) == d[1] < e[1] \/ (d[1] = e[1] /\ d[2] < e[2])

\* Each material but the first has a definition, and its name.
EachDefined ==
    \A i \in 2..Len(materials) :
        materials[i].at \in Made /\ materials[i].name = NameAt(materials[i].at)

\* They are in the order of their definitions.
InOrder ==
    \A i, j \in 2..Len(materials) : i < j => Before(materials[i].at, materials[j].at)

\* The material outside is the latest, from the library that is being read.
PendingIsLatest ==
    pending # NoMaterial =>
        /\ library > 0
        /\ pending.at \in Made /\ pending.at[1] = Len(file)
        /\ pending.name = NameAt(pending.at)
        /\ \A i \in 2..Len(materials) : Before(materials[i].at, pending.at)

OwnInv ==
    /\ library > 0 => ~Swallowed(file, Len(file)) /\ library <= Len(Library) + 1
    /\ Len(materials) > 0 /\ materials[1] = Proto
    /\ EachDefined /\ InOrder /\ PendingIsLatest
    /\ \A d \in Made : \/ \E i \in 2..Len(materials) : d = materials[i].at
                       \/ pending # NoMaterial /\ d = pending.at

\* A line of that kind says something between j and e.
Between(lib, j, e, k) == \E l \in (j+1)..e : Stands(lib, l, {k})

\* An Ns line does, and no Ks line after it.
NsLast(lib, j, e) ==
    \E k \in (j+1)..e : /\ Stands(lib, k, {"Ns"})
                        /\ \A l \in (j+1)..e : Stands(lib, l, {"Ks"}) => l < k

\* What the lines after j up to e have made of a material.
DescribedUpTo(m, lib, j, e) ==
    /\ \A l \in (j+1)..e : ~Stands(lib, l, {"newmtl"})
    /\ m.color = IF Between(lib, j, e, "color") THEN "own" ELSE "grey"
    /\ m.specular <=> Between(lib, j, e, "Ks")
    /\ m.shine = IF NsLast(lib, j, e) THEN 1 ELSE 0

\* A material is as its own lines say.
IsAsWritten(m) ==
    LET lib == file[m.at[1]].lib
        j == m.at[2]
    IN  Values(m) = AsWritten(lib, j)

\* The materials in the map are finished; the one outside is as far as the
\* library has been read.
DescriptionInv ==
    /\ \A i \in 2..Len(materials) : IsAsWritten(materials[i])
    /\ pending # NoMaterial => DescribedUpTo(pending, Library, pending.at[2], library - 1)

\* Load's current material is the one that the usemtl lines so far ask for.
UseInv == Mat = MaterialFor(Len(file) + 1)

\* The lines read before stay what they are, and one is added.
LEMMA LinesStay ==
    ASSUME LoaderInv, NEW line \in Lines, Reads(line)
    PROVE  /\ \A i \in 1..Len(file) : file'[i] = file[i] /\ (Swallowed(file', i) <=> Swallowed(file, i))
           /\ \A k : LinesOf(k)' = LinesOf(k) \cup
                 (IF line.kind = k /\ ~Swallowed(file', Len(file')) THEN {Len(file')} ELSE {})
           /\ \A k : LinesOf(k) \subseteq 1..Len(file)
<1>1. /\ file' \in Seq(Lines) /\ file \in Seq(Lines)
      /\ Len(file') = Len(file) + 1 /\ Len(file) \in Nat
      /\ file'[Len(file')] = line
      /\ \A i \in 1..Len(file) : file'[i] = file[i]
    BY TakesALine DEF LoaderInv
<1>2. DOMAIN file = 1..Len(file) /\ DOMAIN file' = 1..(Len(file) + 1)
    BY <1>1
<1>3. ASSUME NEW i \in 1..Len(file) PROVE Swallowed(file', i) <=> Swallowed(file, i)
    <2>1. i > 1 => i - 1 \in 1..Len(file) BY <1>1
    <2> QED BY <1>1, <2>1 DEF Swallowed
<1>4. ASSUME NEW k
      PROVE  LinesOf(k)' = LinesOf(k) \cup
                 (IF line.kind = k /\ ~Swallowed(file', Len(file')) THEN {Len(file')} ELSE {})
    <2>1. LinesOf(k)' = {i \in 1..(Len(file) + 1) : file'[i].kind = k /\ ~Swallowed(file', i)}
        BY <1>2 DEF LinesOf
    <2>2. LinesOf(k) = {i \in 1..Len(file) : file[i].kind = k /\ ~Swallowed(file, i)}
        BY <1>2 DEF LinesOf
    <2>3. \A i \in 1..(Len(file) + 1) : i \in 1..Len(file) \/ i = Len(file')
        BY <1>1
    <2>4. Len(file') \in 1..(Len(file) + 1) /\ Len(file') \notin 1..Len(file)
          /\ \A i \in 1..Len(file) : i \in 1..(Len(file) + 1)
        BY <1>1
    <2> QED BY <1>1, <1>3, <2>1, <2>2, <2>3, <2>4
<1> QED
    BY <1>1, <1>2, <1>3, <1>4 DEF LinesOf

\* A definition is a newmtl line of a library that is read.
LEMMA TheDefinitions ==
    ASSUME LoaderInv
    PROVE  /\ \A l \in LinesOf("mtllib") :
                 /\ l \in 1..Len(file) /\ file[l].lib \in Libraries
                 /\ Len(file[l].lib) \in Nat /\ DOMAIN file[l].lib = 1..Len(file[l].lib)
           /\ \A d \in Definitions :
                 /\ d \in (Nat \ {0}) \X (Nat \ {0}) /\ d[1] \in LinesOf("mtllib")
                 /\ d[2] \in DOMAIN file[d[1]].lib
                 /\ Stands(file[d[1]].lib, d[2], {"newmtl"})
           /\ \A l \in LinesOf("mtllib") : \A j \in DOMAIN file[l].lib :
                 Stands(file[l].lib, j, {"newmtl"}) => <<l, j>> \in Definitions
<1>1. ASSUME NEW l \in LinesOf("mtllib")
      PROVE  /\ l \in 1..Len(file) /\ file[l].lib \in Libraries
             /\ Len(file[l].lib) \in Nat /\ DOMAIN file[l].lib = 1..Len(file[l].lib)
    <2>1. file \in Seq(Lines) /\ l \in DOMAIN file /\ file[l].kind = "mtllib"
        BY DEF LoaderInv, LinesOf
    <2>2. l \in 1..Len(file) /\ file[l] \in Lines
        BY <2>1
    <2>3. file[l].lib \in Libraries
        BY <2>1, <2>2 DEF Lines
    <2>4. file[l].lib \in Seq(ToSet(file[l].lib))
        BY <2>3, LibrariesAssumption
    <2> QED BY <2>2, <2>3, <2>4, LenProperties
<1>2. ASSUME NEW d \in Definitions
      PROVE  /\ d \in (Nat \ {0}) \X (Nat \ {0}) /\ d[1] \in LinesOf("mtllib")
             /\ d[2] \in DOMAIN file[d[1]].lib
             /\ Stands(file[d[1]].lib, d[2], {"newmtl"})
    <2>1. PICK l \in LinesOf("mtllib") : \E j \in DOMAIN file[l].lib :
             d = <<l, j>> /\ file[l].lib[j].kind = "newmtl" /\ ~Swallowed(file[l].lib, j)
        BY DEF Definitions
    <2>3. PICK j \in DOMAIN file[l].lib :
             d = <<l, j>> /\ file[l].lib[j].kind = "newmtl" /\ ~Swallowed(file[l].lib, j)
        BY <2>1
    <2>2. l \in Nat \ {0} /\ j \in Nat \ {0}
        <3>1. Len(file) \in Nat BY DEF LoaderInv
        <3> QED BY <1>1, <2>3, <3>1
    <2> QED BY <2>2, <2>3 DEF Stands
<1>3. ASSUME NEW l \in LinesOf("mtllib"), NEW j \in DOMAIN file[l].lib,
             Stands(file[l].lib, j, {"newmtl"})
      PROVE  <<l, j>> \in Definitions
    BY <1>3 DEF Stands, Definitions
<1> QED
    BY <1>1, <1>2, <1>3

\* A line that is read adds no definitions but those of a library it opens.
LEMMA DefinitionsStay ==
    ASSUME LoaderInv, NEW line \in Lines, Reads(line)
    PROVE  /\ \A d \in Definitions : /\ d \in Definitions' /\ d[1] \in 1..Len(file)
                                     /\ file'[d[1]] = file[d[1]] /\ NameAt(d)' = NameAt(d)
           /\ \A d \in Definitions' :
                 \/ d \in Definitions
                 \/ /\ line.kind = "mtllib" /\ ~Swallowed(file', Len(file'))
                    /\ d[1] = Len(file') /\ d[2] \in DOMAIN line.lib
<1>1. /\ \A i \in 1..Len(file) : file'[i] = file[i]
      /\ LinesOf("mtllib")' = LinesOf("mtllib") \cup
            (IF line.kind = "mtllib" /\ ~Swallowed(file', Len(file')) THEN {Len(file')} ELSE {})
      /\ file'[Len(file')] = line
    BY LinesStay, TakesALine
<1>2. ASSUME NEW d \in Definitions
      PROVE  /\ d \in Definitions' /\ d[1] \in 1..Len(file)
             /\ file'[d[1]] = file[d[1]] /\ NameAt(d)' = NameAt(d)
    <2>1. PICK l \in LinesOf("mtllib") : \E j \in DOMAIN file[l].lib :
             d = <<l, j>> /\ file[l].lib[j].kind = "newmtl" /\ ~Swallowed(file[l].lib, j)
        BY DEF Definitions
    <2>2. l \in 1..Len(file) /\ file'[l] = file[l] /\ l \in LinesOf("mtllib")'
        BY <1>1, TheDefinitions
    <2>3. d[1] = l
        BY <2>1
    <2>4. d \in Definitions'
        BY <2>1, <2>2 DEF Definitions
    <2> QED BY <2>2, <2>3, <2>4 DEF NameAt
<1>3. ASSUME NEW d \in Definitions'
      PROVE  \/ d \in Definitions
             \/ /\ line.kind = "mtllib" /\ ~Swallowed(file', Len(file'))
                /\ d[1] = Len(file') /\ d[2] \in DOMAIN line.lib
    <2>1. PICK l \in LinesOf("mtllib")' : \E j \in DOMAIN file'[l].lib :
             d = <<l, j>> /\ file'[l].lib[j].kind = "newmtl" /\ ~Swallowed(file'[l].lib, j)
        BY DEF Definitions
    <2>2. CASE l \in LinesOf("mtllib")
        <3>1. file'[l] = file[l]
            BY <1>1, <2>2, TheDefinitions
        <3> QED BY <2>1, <2>2, <3>1 DEF Definitions
    <2>3. CASE l \notin LinesOf("mtllib")
        BY <1>1, <2>1, <2>3
    <2> QED BY <2>2, <2>3
<1> QED
    BY <1>2, <1>3

\* No definition has been read in it yet.
LEMMA ReadKeepsMade ==
    ASSUME LoaderInv, NEW line \in Lines, Reads(line),
           \/ library' = 0 /\ (line.kind # "mtllib" \/ Swallowed(file', Len(file')))
           \/ library' = 1 /\ line.lib \in Libraries
    PROVE  /\ Made' = Made /\ Made = Definitions
           /\ \A d \in Made : d[1] \in 1..Len(file) /\ NameAt(d)' = NameAt(d)
                              /\ file'[d[1]] = file[d[1]]
<1>1. library = 0 /\ Len(file') = Len(file) + 1 /\ Len(file) \in Nat
    BY TakesALine
<1>2. Made = Definitions
    BY <1>1 DEF Made
<1>3. ASSUME NEW d \in Definitions PROVE d \in Made'
    <2>1. d \in Definitions' /\ d[1] \in 1..Len(file)
        BY DefinitionsStay
    <2>2. d[1] # Len(file')
        BY <1>1, <2>1
    <2> QED BY <2>1, <2>2 DEF Made
<1>4. ASSUME NEW d \in Made' PROVE d \in Definitions
    <2>1. d \in Definitions' /\ (d[1] = Len(file') /\ library' > 0 => d[2] < library')
        BY DEF Made
    <2>2. CASE line.kind = "mtllib" /\ ~Swallowed(file', Len(file')) /\ d[1] = Len(file')
               /\ d[2] \in DOMAIN line.lib
        <3>1. library' = 1 /\ line.lib \in Libraries
            BY <2>2
        <3>2. line.lib \in Seq(ToSet(line.lib))
            BY <3>1, LibrariesAssumption
        <3>3. d[2] \in Nat /\ d[2] >= 1
            BY <2>2, <3>2, LenProperties
        <3> QED BY <2>1, <2>2, <3>1, <3>3
    <2> QED BY <2>1, <2>2, DefinitionsStay
<1> QED
    BY <1>2, <1>3, <1>4, DefinitionsStay

\* Reading a line of the file adds no material and no definition.
LEMMA OwnInvReads ==
    ASSUME LoaderInv, OwnInv, NEW line \in Lines, Reads(line),
           \/ library' = 0 /\ (line.kind # "mtllib" \/ Swallowed(file', Len(file')))
           \/ library' = 1 /\ line.kind = "mtllib" /\ line.lib \in Libraries
                           /\ ~Swallowed(file', Len(file')),
           materials' = materials, pending' = pending \/ pending' = NoMaterial
    PROVE  OwnInv'
<1>1. /\ Made' = Made
      /\ \A d \in Made : NameAt(d)' = NameAt(d)
    BY ReadKeepsMade
<1>2. library = 0 /\ file'[Len(file')] = line
    BY TakesALine
<1>3. pending = NoMaterial /\ pending' = NoMaterial
    BY <1>2 DEF OwnInv, PendingIsLatest
<1>4. library' > 0 => ~Swallowed(file', Len(file')) /\ library' <= Len(Library') + 1
    <2> SUFFICES ASSUME library' > 0
                 PROVE  ~Swallowed(file', Len(file')) /\ library' <= Len(Library') + 1
        OBVIOUS
    <2>1. library' = 1 /\ line.lib \in Libraries /\ ~Swallowed(file', Len(file'))
        OBVIOUS
    <2>2. Library' = line.lib
        BY <1>2 DEF Library
    <2>3. line.lib \in Seq(ToSet(line.lib))
        BY <2>1, LibrariesAssumption
    <2>4. Len(Library') \in Nat
        BY <2>2, <2>3, LenProperties
    <2> QED BY <2>1, <2>4
<1>5. /\ \A i \in 2..Len(materials) : materials[i].at \in Made /\ materials[i].name = NameAt(materials[i].at)
      /\ \A d \in Made : \E i \in 2..Len(materials) : d = materials[i].at
    BY <1>3 DEF OwnInv, EachDefined
<1>6. \A i \in 2..Len(materials) : materials[i].at \in Made' /\ materials[i].name = NameAt(materials[i].at)'
    BY <1>1, <1>5
<1>7. \A i, j \in 2..Len(materials) : i < j => Before(materials[i].at, materials[j].at)'
    BY DEF OwnInv, InOrder, Before
<1> QED
    BY <1>1, <1>3, <1>4, <1>5, <1>6, <1>7 DEF OwnInv, EachDefined, InOrder, PendingIsLatest

\* A line of the library makes a definition if it is a newmtl line.
LEMMA MadeGrows ==
    ASSUME LoaderInv, OwnInv, library > 0, library <= Len(Library), library' = library + 1,
           file' = file
    PROVE  /\ Made' = Made \cup (IF Stands(Library, library, {"newmtl"})
                                 THEN {<<Len(file), library>>} ELSE {})
           /\ Library' = Library /\ \A d : NameAt(d)' = NameAt(d)
           /\ \A d \in Made : Before(d, <<Len(file), library>>)
<1> DEFINE n == Len(file)
<1>1. /\ n \in Nat \ {0} /\ library \in Nat \ {0} /\ DOMAIN Library = 1..Len(Library)
      /\ Len(Library) \in Nat /\ library \in DOMAIN Library
    BY LibraryIsRead DEF LoaderInv
<1>2. n \in LinesOf("mtllib")
    BY <1>1 DEF LoaderInv, OwnInv, LinesOf
<1>3. Definitions' = Definitions /\ Library' = Library /\ \A d : NameAt(d)' = NameAt(d)
    BY DEF Definitions, LinesOf, Library, NameAt
<1>4. \A d \in Definitions : /\ d = <<d[1], d[2]>> /\ d[1] \in 1..n /\ d[2] \in Nat \ {0}
                             /\ Stands(file[d[1]].lib, d[2], {"newmtl"})
    BY TheDefinitions
<1>5. Stands(Library, library, {"newmtl"}) => <<n, library>> \in Definitions
    BY <1>1, <1>2, TheDefinitions DEF Library
<1>6. ASSUME NEW d \in Made' PROVE d \in Made \/ (d = <<n, library>> /\ Stands(Library, library, {"newmtl"}))
    <2>1. d \in Definitions /\ (d[1] = n => d[2] < library + 1)
        BY <1>1, <1>3 DEF Made
    <2>2. CASE d[1] = n /\ d[2] = library
        BY <1>4, <2>1, <2>2 DEF Library
    <2>3. CASE ~(d[1] = n /\ d[2] = library)
        <3>1. d[1] = n => d[2] < library
            BY <1>1, <1>4, <2>1, <2>3
        <3> QED BY <2>1, <3>1 DEF Made
    <2> QED BY <2>2, <2>3
<1>7. ASSUME NEW d \in Made PROVE d \in Made'
    <2>1. d \in Definitions /\ (d[1] = n => d[2] < library)
        BY <1>1 DEF Made
    <2>2. d[1] = n => d[2] < library + 1
        BY <1>1, <1>4, <2>1
    <2> QED BY <1>1, <1>3, <2>1, <2>2 DEF Made
<1>8. ASSUME Stands(Library, library, {"newmtl"}) PROVE <<n, library>> \in Made'
    <2>1. library < library + 1
        BY <1>1
    <2> QED BY <1>3, <1>5, <1>8, <2>1 DEF Made
<1>9. ASSUME NEW d \in Made PROVE Before(d, <<n, library>>)
    <2>1. d \in Definitions /\ (d[1] = n => d[2] < library)
        BY <1>1 DEF Made
    <2>2. d[1] < n \/ d[1] = n
        BY <1>1, <1>4, <2>1
    <2> QED BY <2>1, <2>2 DEF Before
<1> QED
    BY <1>3, <1>6, <1>7, <1>8, <1>9

\* At its end a library has made all its definitions.
LEMMA MadeAtEnd ==
    ASSUME LoaderInv, OwnInv, library > 0, library > Len(Library), library' = 0, file' = file
    PROVE  Made' = Made /\ \A d : NameAt(d)' = NameAt(d)
<1> DEFINE n == Len(file)
<1>1. /\ n \in Nat \ {0} /\ library \in Nat \ {0} /\ DOMAIN Library = 1..Len(Library)
      /\ Len(Library) \in Nat
    BY LibraryIsRead DEF LoaderInv
<1>2. Definitions' = Definitions /\ \A d : NameAt(d)' = NameAt(d)
    BY DEF Definitions, LinesOf, NameAt
<1>3. Made' = Definitions
    BY <1>2 DEF Made
<1>4. ASSUME NEW d \in Definitions PROVE d \in Made
    <2>1. d[2] \in DOMAIN file[d[1]].lib
        BY TheDefinitions
    <2>2. d[1] = n => d[2] \in 1..Len(Library)
        BY <1>1, <2>1 DEF Library
    <2>3. d[1] = n => d[2] < library
        BY <1>1, <2>2
    <2> QED BY <2>3 DEF Made
<1> QED
    BY <1>2, <1>3, <1>4 DEF Made

\* Inserting the material outside into the map.
LEMMA OwnInvCommits ==
    ASSUME LoaderInv, OwnInv, materials' = Committed
    PROVE  /\ Len(materials') > 0 /\ materials'[1] = Proto
           /\ \A i \in 2..Len(materials') :
                 materials'[i].at \in Made /\ materials'[i].name = NameAt(materials'[i].at)
           /\ \A i, j \in 2..Len(materials') :
                 i < j => Before(materials'[i].at, materials'[j].at)
           /\ \A d \in Made : \E i \in 2..Len(materials') : d = materials'[i].at
<1>1. CASE pending = NoMaterial
    <2>1. materials' = materials
        BY <1>1 DEF Committed
    <2> QED BY <1>1, <2>1 DEF OwnInv, EachDefined, InOrder
<1>2. CASE pending # NoMaterial
    <2> DEFINE n == Len(materials)
    <2>1. /\ Len(materials') = n + 1 /\ n \in Nat
          /\ materials'[n + 1] = pending
          /\ \A i \in 1..n : materials'[i] = materials[i]
        <3>1. pending \in AnyMaterial /\ materials' = Append(materials, pending)
            BY <1>2 DEF Committed, LoaderInv
        <3> QED BY <3>1, MaterialsGrow DEF LoaderInv
    <2>2. n > 0 /\ materials'[1] = Proto
        BY <2>1 DEF OwnInv
    <2>3. ASSUME NEW i \in 2..(n+1)
          PROVE  materials'[i].at \in Made /\ materials'[i].name = NameAt(materials'[i].at)
        <3>1. CASE i = n + 1
            BY <1>2, <2>1, <3>1 DEF OwnInv, PendingIsLatest
        <3>2. CASE i # n + 1
            <4>1. i \in 2..n /\ materials'[i] = materials[i]
                BY <2>1, <3>2
            <4> QED BY <4>1 DEF OwnInv, EachDefined
        <3> QED BY <3>1, <3>2
    <2>4. ASSUME NEW i \in 2..(n+1), NEW j \in 2..(n+1), i < j
          PROVE  Before(materials'[i].at, materials'[j].at)
        <3>1. i \in 2..n /\ materials'[i] = materials[i]
            BY <2>1, <2>4
        <3>2. CASE j = n + 1
            BY <1>2, <2>1, <3>1, <3>2 DEF OwnInv, PendingIsLatest
        <3>3. CASE j # n + 1
            <4>1. j \in 2..n /\ materials'[j] = materials[j]
                BY <2>1, <3>3
            <4> QED BY <2>4, <3>1, <4>1 DEF OwnInv, InOrder
        <3> QED BY <3>2, <3>3
    <2>5. ASSUME NEW d \in Made PROVE \E i \in 2..(n+1) : d = materials'[i].at
        <3>1. CASE d = pending.at
            <4>1. n + 1 \in 2..(n+1) BY <2>1, <2>2
            <4> QED BY <2>1, <3>1, <4>1
        <3>2. CASE d # pending.at
            <4>1. PICK i \in 2..n : d = materials[i].at
                BY <3>2 DEF OwnInv
            <4>2. i \in 2..(n+1) /\ materials'[i] = materials[i]
                BY <2>1, <4>1
            <4> QED BY <4>1, <4>2
        <3> QED BY <3>1, <3>2
    <2> QED BY <2>1, <2>2, <2>3, <2>4, <2>5
<1> QED
    BY <1>1, <1>2

LEMMA OwnInvNewmtl ==
    ASSUME LoaderInv, OwnInv, ReadNewmtl
    PROVE  OwnInv'
<1> DEFINE at == <<Len(file), library>>
<1>1. /\ library > 0 /\ library <= Len(Library) /\ library' = library + 1 /\ file' = file
      /\ Stands(Library, library, {"newmtl"})
      /\ materials' = Committed
      /\ pending' = NewMaterial(Library[library].name, at)
    BY DEF ReadNewmtl, AtLine, InLibrary, Stands
<1>2. /\ Made' = Made \cup {at} /\ Library' = Library /\ \A d : NameAt(d)' = NameAt(d)
      /\ \A d \in Made : Before(d, at)
    BY <1>1, MadeGrows
<1>3. /\ Len(materials') > 0 /\ materials'[1] = Proto
      /\ \A i \in 2..Len(materials') :
            materials'[i].at \in Made /\ materials'[i].name = NameAt(materials'[i].at)
      /\ \A i, j \in 2..Len(materials') :
            i < j => Before(materials'[i].at, materials'[j].at)
      /\ \A d \in Made : \E i \in 2..Len(materials') : d = materials'[i].at
    BY <1>1, OwnInvCommits
<1>4. pending'.at = at /\ pending'.name = Library[library].name /\ pending' # NoMaterial
    <2>1. "at" \in DOMAIN NewMaterial(Library[library].name, at) /\ "at" \notin DOMAIN NoMaterial
        BY DEF NewMaterial, NoMaterial
    <2> QED BY <1>1, <2>1 DEF NewMaterial
<1>5. NameAt(at) = Library[library].name
    BY DEF NameAt, Library
<1>6. at[1] = Len(file')
    BY <1>1
<1>7. library \in Nat /\ Len(Library) \in Nat
    BY <1>1, LibraryIsRead DEF LoaderInv
<1>8. library' > 0 => ~Swallowed(file', Len(file')) /\ library' <= Len(Library') + 1
    BY <1>1, <1>2, <1>7 DEF OwnInv
<1>9. library' > 0
    BY <1>1, <1>7
<1> HIDE DEF at
<1>10. /\ \A i \in 2..Len(materials') :
             materials'[i].at \in Made' /\ materials'[i].name = NameAt(materials'[i].at)
       /\ \A i, j \in 2..Len(materials') : i < j => Before(materials'[i].at, materials'[j].at)
       /\ \A d \in Made' : (\E i \in 2..Len(materials') : d = materials'[i].at) \/ d = pending'.at
    BY <1>2, <1>3, <1>4
<1>11. \A i \in 2..Len(materials') : Before(materials'[i].at, pending'.at)
    BY <1>2, <1>3, <1>4
<1>12. pending'.at \in Made' /\ pending'.at[1] = Len(file') /\ pending'.name = NameAt(pending'.at)
    BY <1>2, <1>4, <1>5, <1>6
<1>13. EachDefined' /\ InOrder'
    BY <1>1, <1>3, <1>10 DEF EachDefined, InOrder, NameAt, Before
<1>14. PendingIsLatest'
    BY <1>1, <1>9, <1>11, <1>12 DEF PendingIsLatest, NameAt, Before
<1> QED
    BY <1>3, <1>4, <1>8, <1>10, <1>13, <1>14 DEF OwnInv

LEMMA OwnInvAttribute ==
    ASSUME LoaderInv, OwnInv, ReadAttribute \/ ReadIgnoredOfLibrary
    PROVE  OwnInv'
<1>1. /\ library > 0 /\ library <= Len(Library) /\ library' = library + 1
      /\ file' = file /\ materials' = materials
      /\ ~Stands(Library, library, {"newmtl"})
    BY DEF ReadAttribute, ReadIgnoredOfLibrary, AtLine, InLibrary, Stands, meshVars
<1>2. Made' = Made /\ Library' = Library
    BY <1>1, MadeGrows
<1>3. /\ (pending' # NoMaterial <=> pending # NoMaterial)
      /\ pending # NoMaterial => pending'.at = pending.at /\ pending'.name = pending.name
    <2>1. CASE pending' = pending
        BY <2>1
    <2>2. CASE pending' # pending
        <3>1. PICK k \in {"color", "Ks", "Ns"} :
                 pending' = IF pending = NoMaterial THEN pending ELSE Described(pending, k)
            BY <2>2 DEF ReadAttribute, ReadIgnoredOfLibrary
        <3>2. pending \in AnyMaterial /\ pending' = Described(pending, k) /\ pending # NoMaterial
            BY <2>2, <3>1 DEF LoaderInv
        <3>3. pending' \in AnyMaterial /\ pending'.at = pending.at /\ pending'.name = pending.name
            BY <3>2, Describing
        <3>4. pending' # NoMaterial
            BY <3>3 DEF AnyMaterial, NoMaterial
        <3> QED BY <3>2, <3>3, <3>4
    <2> QED BY <2>1, <2>2
<1>4. library \in Nat /\ Len(Library) \in Nat
    BY <1>1, LibraryIsRead DEF LoaderInv
<1>5. library' > 0 => ~Swallowed(file', Len(file')) /\ library' <= Len(Library') + 1
    BY <1>1, <1>2, <1>4 DEF OwnInv
<1>6. EachDefined' /\ InOrder'
    BY <1>1, <1>2 DEF OwnInv, EachDefined, InOrder, NameAt, Before
<1>7. PendingIsLatest'
    BY SMTT(40), <1>1, <1>2, <1>3, <1>4 DEF OwnInv, PendingIsLatest, NameAt, Before
<1> QED
    BY <1>1, <1>2, <1>3, <1>5, <1>6, <1>7 DEF OwnInv

LEMMA OwnInvEnds ==
    ASSUME LoaderInv, OwnInv, EndOfLibrary
    PROVE  OwnInv'
<1>1. /\ library > 0 /\ library > Len(Library) /\ library' = 0 /\ file' = file
      /\ materials' = Committed /\ pending' = NoMaterial
    BY DEF EndOfLibrary, InLibrary
<1>2. Made' = Made
    BY <1>1, MadeAtEnd
<1>3. /\ Len(materials') > 0 /\ materials'[1] = Proto
      /\ \A i \in 2..Len(materials') :
            materials'[i].at \in Made /\ materials'[i].name = NameAt(materials'[i].at)
      /\ \A i, j \in 2..Len(materials') :
            i < j => Before(materials'[i].at, materials'[j].at)
      /\ \A d \in Made : \E i \in 2..Len(materials') : d = materials'[i].at
    BY <1>1, OwnInvCommits
<1>4. EachDefined' /\ InOrder'
    BY <1>1, <1>2, <1>3 DEF EachDefined, InOrder, NameAt, Before
<1> QED
    BY <1>1, <1>2, <1>3, <1>4 DEF OwnInv, PendingIsLatest

\* Which line the actions that read one have taken.
LEMMA WhatIsRead ==
    ASSUME LoaderInv,
           ReadIgnored \/ ReadSwallowed \/ ReadVertex \/ ReadUsemtl \/ ReadFace \/ EnterLastFace
    PROVE  /\ \E line \in Lines : Reads(line) /\ (line.kind # "mtllib" \/ Swallowed(file', Len(file')))
           /\ library' = 0 /\ materials' = materials /\ pending' = pending
<1>1. UNCHANGED <<library, materials, pending>>
    BY DEF ReadIgnored, ReadSwallowed, ReadVertex, ReadUsemtl, ReadFace, EnterLastFace, meshVars
<1>2. \E line \in Lines : Reads(line) /\ (line.kind # "mtllib" \/ Swallowed(file', Len(file')))
    <2>1. CASE ReadIgnored
        <3>1. PICK k \in {"ignored", "bare"} : Reads([kind |-> k])
            BY <2>1 DEF ReadIgnored
        <3>2. [kind |-> k] \in Lines /\ [kind |-> k].kind # "mtllib"
            BY DEF Lines
        <3> QED BY <3>1, <3>2
    <2>2. CASE ReadSwallowed
        BY <2>2 DEF ReadSwallowed, Lines
    <2>3. CASE ReadVertex
        <3>1. Reads([kind |-> "v"])
            BY <2>3 DEF ReadVertex, Taken
        <3>2. [kind |-> "v"] \in Lines /\ [kind |-> "v"].kind # "mtllib"
            BY DEF Lines
        <3> QED BY <3>1, <3>2
    <2>4. CASE ReadUsemtl
        <3>1. PICK nm \in MaterialNames : Reads([kind |-> "usemtl", name |-> nm])
            BY <2>4 DEF ReadUsemtl, Taken
        <3>2. /\ [kind |-> "usemtl", name |-> nm] \in Lines
              /\ [kind |-> "usemtl", name |-> nm].kind # "mtllib"
            BY DEF Lines
        <3> QED BY <3>1, <3>2
    <2>5. CASE ReadFace \/ EnterLastFace
        <3>1. PICK k \in {"f", "lastF"}, c \in Faces : Reads([kind |-> k, corners |-> c])
            BY <2>5 DEF ReadFace, EnterLastFace, Taken
        <3>2. /\ [kind |-> k, corners |-> c] \in Lines
              /\ [kind |-> k, corners |-> c].kind # "mtllib"
            BY DEF Lines
        <3> QED BY <3>1, <3>2
    <2> QED BY <2>1, <2>2, <2>3, <2>4, <2>5
<1>3. library = 0
    BY <1>2, TakesALine
<1> QED
    BY <1>1, <1>2, <1>3

LEMMA OwnInvKeeps ==
    ASSUME LoaderInv, OwnInv, [Next]_vars
    PROVE  OwnInv'
<1>1. CASE ReadIgnored \/ ReadSwallowed \/ ReadVertex \/ ReadUsemtl \/ ReadFace \/ EnterLastFace
    BY <1>1, WhatIsRead, OwnInvReads
<1>2. CASE ReadMtllib
    <2>1. PICK lib \in Libraries : Taken([kind |-> "mtllib", lib |-> lib])
        BY <1>2 DEF ReadMtllib
    <2> DEFINE line == [kind |-> "mtllib", lib |-> lib]
    <2>2. line \in Lines /\ line.kind = "mtllib" /\ line.lib \in Libraries
        BY DEF Lines
    <2>3. Reads(line) /\ ~Swallowed(file', Len(file'))
        BY <2>1 DEF Taken
    <2> HIDE DEF line
    <2>4. library' = 1 /\ materials' = materials /\ pending' = NoMaterial
        BY <1>2 DEF ReadMtllib, meshVars
    <2> QED BY <2>2, <2>3, <2>4, OwnInvReads
<1>3. CASE LastFaceGoesOn \/ EndOfFile \/ AddPrimitive \/ RemovePrimitive \/ DrawFrame
           \/ UNCHANGED vars
    <2>1. UNCHANGED <<file, materials, library, pending>>
        BY <1>3 DEF LastFaceGoesOn, EndOfFile, AddPrimitive, RemovePrimitive, DrawFrame, vars,
                    loaderVars, meshVars
    <2> QED BY <2>1 DEF OwnInv, EachDefined, InOrder, PendingIsLatest, Made, Definitions, LinesOf,
                        NameAt, Library, Before
<1> QED
    BY <1>1, <1>2, <1>3, OwnInvNewmtl, OwnInvAttribute, OwnInvEnds DEF Next, Load, LoadStep

LEMMA OwnInvStarts == ShowInit => OwnInv
<1> SUFFICES ASSUME ShowInit PROVE OwnInv
    OBVIOUS
<1>1. \A i \in DOMAIN file : file[i].kind = "v"
    BY DEF ShowInit, Init
<1>2. LinesOf("mtllib") = {}
    BY <1>1 DEF LinesOf
<1>3. Made = {}
    BY <1>2 DEF Made, Definitions
<1>4. library = 0 /\ pending = NoMaterial /\ materials = <<Proto>> /\ Len(materials) = 1
    BY DEF ShowInit, Init
<1>5. 2..Len(materials) = {} /\ materials[1] = Proto
    BY <1>4
<1> QED
    BY <1>3, <1>4, <1>5 DEF OwnInv, EachDefined, InOrder, PendingIsLatest

LEMMA OwnInvHolds == Spec => [](LoaderInv /\ OwnInv)
<1>1. ShowInit => LoaderInv /\ OwnInv
    BY LoaderStarts, OwnInvStarts
<1>2. LoaderInv /\ OwnInv /\ [Next]_vars => LoaderInv' /\ OwnInv'
    BY LoaderKeepsTypes, OwnInvKeeps
<1> QED
    BY <1>1, <1>2, PTL DEF Spec

\* MeshOwnsItsMaterials: the map holds every material that was made, once, in
\* whatever order the libraries come and however often they define a name; only
\* the one being read is outside of it, and no face wears another.
THEOREM EveryMaterialIsOwned == Spec => []MeshOwnsItsMaterials
<1>1. ASSUME LoaderInv, OwnInv PROVE MeshOwnsItsMaterials
    <2> DEFINE held == [i \in DOMAIN materials |-> materials[i].at]
    <2>1. /\ Len(materials) \in Nat /\ DOMAIN materials = 1..Len(materials)
          /\ Len(materials) > 0 /\ materials[1].at = <<0, 0>>
        BY <1>1 DEF LoaderInv, OwnInv, Proto
    <2>2. DOMAIN held = 1..Len(materials) /\ Len(held) = Len(materials)
        BY <2>1
    <2>3. ToSet(held) = Held
        BY DEF ToSet, Held
    <2>4. \A d \in Made : d \in (Nat \ {0}) \X (Nat \ {0})
        BY <1>1, TheDefinitions DEF Made
    <2>5. ASSUME NEW i \in 1..Len(materials), NEW j \in 1..Len(materials), i < j
          PROVE  held[i] # held[j]
        <3>1. j \in 2..Len(materials) /\ materials[j].at \in Made
            BY <1>1, <2>1, <2>5 DEF OwnInv, EachDefined
        <3>2. CASE i = 1
            BY <2>1, <2>4, <3>1, <3>2
        <3>3. CASE i # 1
            <4>1. i \in 2..Len(materials) /\ materials[i].at \in Made
                BY <1>1, <2>1, <3>3 DEF OwnInv, EachDefined
            <4>2. Before(materials[i].at, materials[j].at)
                BY <1>1, <2>5, <3>1, <4>1 DEF OwnInv, InOrder
            <4>3. \A d \in Made : ~Before(d, d)
                BY <2>4 DEF Before
            <4> QED BY <2>1, <3>1, <4>1, <4>2, <4>3
        <3> QED BY <3>2, <3>3
    <2>6. Len(held) = Cardinality(ToSet(held))
        <3> DEFINE S == 1..Len(materials)
                   T == ToSet(held)
        <3>1. held \in [S -> T] /\ \A t \in T : \E s \in S : held[s] = t
            BY <2>1 DEF ToSet
        <3>2. \A i, j \in S : held[i] = held[j] => i = j
            <4>1. \A i, j \in S : i < j \/ j < i \/ i = j
                BY <2>1
            <4> HIDE DEF held
            <4> QED BY <2>5, <4>1
        <3> HIDE DEF held, S, T
        <3>3. held \in Bijection(S, T)
            BY <3>1, <3>2 DEF Bijection, Surjection, Injection, IsInjective
        <3>4. IsFiniteSet(S) /\ Cardinality(S) = Len(materials)
            BY <2>1, FS_Interval DEF S
        <3>5. Cardinality(T) = Cardinality(S)
            BY <3>3, <3>4, FS_Bijection DEF ExistsBijection
        <3> QED BY <2>2, <3>4, <3>5 DEF T
    <2>7. {<<0, 0>>} \cup Made = Held \cup (IF pending = NoMaterial THEN {} ELSE {pending.at})
        <3>1. <<0, 0>> \in Held
            BY <2>1 DEF Held
        <3>2. \A i \in 2..Len(materials) : materials[i].at \in Held
            BY <2>1 DEF Held
        <3>3. \A d \in Made : d \in Held \/ (pending # NoMaterial /\ d = pending.at)
            BY <1>1, <3>2 DEF OwnInv
        <3>4. ASSUME NEW d \in Held PROVE d = <<0, 0>> \/ d \in Made
            <4>1. PICK i \in 1..Len(materials) : d = materials[i].at
                BY <2>1 DEF Held
            <4>2. CASE i = 1
                BY <2>1, <4>1, <4>2
            <4>3. CASE i # 1
                BY <1>1, <2>1, <4>1, <4>3 DEF OwnInv, EachDefined
            <4> QED BY <4>2, <4>3
        <3>5. pending # NoMaterial => pending.at \in Made
            BY <1>1 DEF OwnInv, PendingIsLatest
        <3> QED BY <3>1, <3>3, <3>4, <3>5
    <2>8. \A k \in DOMAIN surfaces : \A i \in DOMAIN surfaces[k] : surfaces[k][i].mat \in Held
        BY <1>1 DEF LoaderInv
    <2> HIDE DEF held
    <2> QED BY <2>3, <2>6, <2>7, <2>8 DEF MeshOwnsItsMaterials, Made, held
<1> QED
    BY <1>1, OwnInvHolds, PTL

-----------------------------------------------------------------------------
(* What the lines of a library make of its materials.                      *)

\* The lines of a material go on until the next newmtl or the end.
LEMMA BlockIs ==
    ASSUME NEW lib, Len(lib) \in Nat, NEW j \in Nat, NEW e \in Nat, j <= e, e <= Len(lib),
           \A l \in (j+1)..e : ~Stands(lib, l, {"newmtl"}),
           e = Len(lib) \/ Stands(lib, e + 1, {"newmtl"})
    PROVE  Block(lib, j) = (j+1)..e
<1>1. \A l : lib[l].kind # "newmtl" \/ Swallowed(lib, l) <=> ~Stands(lib, l, {"newmtl"})
    BY DEF Stands
<1>2. Block(lib, j) = {k \in (j+1)..Len(lib) : \A l \in (j+1)..k : ~Stands(lib, l, {"newmtl"})}
    BY <1>1 DEF Block
<1>3. ASSUME NEW k \in (j+1)..e PROVE k \in Block(lib, j)
    <2>1. k \in (j+1)..Len(lib) /\ \A l \in (j+1)..k : l \in (j+1)..e
        OBVIOUS
    <2> QED BY <1>2, <2>1
<1>4. ASSUME NEW k \in Block(lib, j) PROVE k \in (j+1)..e
    <2>1. k \in (j+1)..Len(lib) /\ \A l \in (j+1)..k : ~Stands(lib, l, {"newmtl"})
        BY <1>2
    <2>2. ~(k > e)
        <3>1. k > e => e + 1 \in (j+1)..k /\ e # Len(lib)
            BY <2>1
        <3> QED BY <2>1, <3>1
    <2> QED BY <2>1, <2>2
<1> QED
    BY <1>3, <1>4

\* When all its lines are read a material is as they say.
LEMMA Finished ==
    ASSUME NEW m \in AnyMaterial, NEW lib, NEW j \in Nat, NEW e \in Nat,
           Block(lib, j) = (j+1)..e, DescribedUpTo(m, lib, j, e)
    PROVE  Values(m) = AsWritten(lib, j)
<1>1. \A k : Says(lib, j, k) <=> Between(lib, j, e, k)
    BY DEF Says, Between, Stands
<1>2. Shines(lib, j) <=> NsLast(lib, j, e)
    BY DEF Shines, NsLast
<1>3. m.specular = Says(lib, j, "Ks")
    <2>1. m.specular \in BOOLEAN
        BY DEF AnyMaterial
    <2>2. m.specular <=> Says(lib, j, "Ks")
        BY <1>1 DEF DescribedUpTo
    <2>3. Says(lib, j, "Ks") \in BOOLEAN
        BY DEF Says
    <2> QED BY <2>1, <2>2, <2>3
<1>4. m.color = IF Says(lib, j, "color") THEN "own" ELSE "grey"
    BY <1>1 DEF DescribedUpTo
<1>5. m.shine = IF Shines(lib, j) THEN 1 ELSE 0
    BY <1>2 DEF DescribedUpTo
<1> QED
    BY <1>3, <1>4, <1>5 DEF Values, AsWritten

\* A line that stands says what it says; another says nothing.
LEMMA BetweenGrows ==
    ASSUME NEW lib, NEW j \in Nat, NEW e \in Nat, j <= e, NEW k
    PROVE  Between(lib, j, e + 1, k) <=> Between(lib, j, e, k) \/ Stands(lib, e + 1, {k})
<1>1. \A l : l \in (j+1)..(e+1) <=> l \in (j+1)..e \/ l = e + 1
    OBVIOUS
<1> QED
    BY <1>1 DEF Between

\* Only Ks and Ns lines have a say in which of them is the last.
LEMMA LastGrows ==
    ASSUME NEW lib, NEW j \in Nat, NEW e \in Nat, j <= e
    PROVE  /\ Stands(lib, e + 1, {"Ns"}) /\ ~Stands(lib, e + 1, {"Ks"}) => NsLast(lib, j, e + 1)
           /\ Stands(lib, e + 1, {"Ks"}) => ~NsLast(lib, j, e + 1)
           /\ ~Stands(lib, e + 1, {"Ks"}) /\ ~Stands(lib, e + 1, {"Ns"})
                => (NsLast(lib, j, e + 1) <=> NsLast(lib, j, e))
<1>1. \A l : l \in (j+1)..(e+1) <=> l \in (j+1)..e \/ l = e + 1
    OBVIOUS
<1>2. \A l \in (j+1)..e : l < e + 1
    OBVIOUS
<1>3. e + 1 \in (j+1)..(e+1)
    OBVIOUS
<1>4. ASSUME Stands(lib, e + 1, {"Ns"}), ~Stands(lib, e + 1, {"Ks"}) PROVE NsLast(lib, j, e + 1)
    <2>1. \A l \in (j+1)..(e+1) : Stands(lib, l, {"Ks"}) => l < e + 1
        BY <1>1, <1>2, <1>4
    <2> QED BY <1>3, <1>4, <2>1 DEF NsLast
<1>5. ASSUME Stands(lib, e + 1, {"Ks"}) PROVE ~NsLast(lib, j, e + 1)
    <2>1. \A k \in (j+1)..(e+1) : ~(e + 1 < k)
        OBVIOUS
    <2> QED BY <1>3, <1>5, <2>1 DEF NsLast
<1>6. ASSUME ~Stands(lib, e + 1, {"Ks"}), ~Stands(lib, e + 1, {"Ns"})
      PROVE  NsLast(lib, j, e + 1) <=> NsLast(lib, j, e)
    BY <1>1, <1>6 DEF NsLast
<1> QED
    BY <1>4, <1>5, <1>6

LEMMA DescribedSkips ==
    ASSUME NEW m, NEW lib, NEW j \in Nat, NEW e \in Nat, j <= e, DescribedUpTo(m, lib, j, e),
           ~Stands(lib, e + 1, {"newmtl", "color", "Ks", "Ns"})
    PROVE  DescribedUpTo(m, lib, j, e + 1)
<1>1. \A k \in {"newmtl", "color", "Ks", "Ns"} : ~Stands(lib, e + 1, {k})
    BY DEF Stands
<1>2. \A k \in {"color", "Ks", "Ns"} : Between(lib, j, e + 1, k) <=> Between(lib, j, e, k)
    BY <1>1, BetweenGrows
<1>3. \A l \in (j+1)..(e+1) : l \in (j+1)..e \/ l = e + 1
    OBVIOUS
<1>5. \A l \in (j+1)..(e+1) : ~Stands(lib, l, {"newmtl"})
    BY <1>1, <1>3 DEF DescribedUpTo
<1>6. NsLast(lib, j, e + 1) <=> NsLast(lib, j, e)
    BY <1>1, LastGrows
<1> QED
    BY <1>2, <1>5, <1>6 DEF DescribedUpTo

LEMMA DescribedGrows ==
    ASSUME NEW m \in AnyMaterial, NEW lib, NEW j \in Nat, NEW e \in Nat, j <= e,
           DescribedUpTo(m, lib, j, e),
           NEW k \in {"color", "Ks", "Ns"}, Stands(lib, e + 1, {k})
    PROVE  DescribedUpTo(Described(m, k), lib, j, e + 1)
<1> DEFINE d == Described(m, k)
<1>1. lib[e+1].kind = k /\ ~Swallowed(lib, e + 1)
    BY DEF Stands
<1>2. \A c \in {"color", "Ks", "Ns"} :
         /\ Between(lib, j, e + 1, c) <=> Between(lib, j, e, c) \/ c = k
         /\ Stands(lib, e + 1, {c}) <=> c = k
    BY <1>1, BetweenGrows DEF Stands
<1>3. \A l \in (j+1)..(e+1) : l \in (j+1)..e \/ l = e + 1
    OBVIOUS
<1>4. \A l \in (j+1)..(e+1) : ~Stands(lib, l, {"newmtl"})
    BY <1>1, <1>3 DEF DescribedUpTo, Stands
<1>5. /\ d.color = IF k = "color" THEN "own" ELSE m.color
      /\ d.specular = IF k = "Ks" THEN TRUE ELSE m.specular
      /\ d.shine = CASE k = "color" -> m.shine [] k = "Ks" -> 0 [] k = "Ns" -> 1
    BY Describing
<1> HIDE DEF d
<1>6. d.color = IF Between(lib, j, e + 1, "color") THEN "own" ELSE "grey"
    BY <1>2, <1>5 DEF DescribedUpTo
<1>7. d.specular <=> Between(lib, j, e + 1, "Ks")
    <2>1. m.specular <=> Between(lib, j, e, "Ks")
        BY DEF DescribedUpTo
    <2>2. CASE k = "Ks"
        BY <1>2, <1>5, <2>2
    <2>3. CASE k # "Ks"
        BY <1>2, <1>5, <2>1, <2>3
    <2> QED BY <2>2, <2>3
<1>8. d.shine = IF NsLast(lib, j, e + 1) THEN 1 ELSE 0
    <2>1. m.shine = IF NsLast(lib, j, e) THEN 1 ELSE 0
        BY DEF DescribedUpTo
    <2>2. CASE k = "color"
        <3>1. NsLast(lib, j, e + 1) <=> NsLast(lib, j, e)
            BY <1>2, <2>2, LastGrows
        <3> QED BY <1>5, <2>1, <2>2, <3>1
    <2>3. CASE k = "Ks"
        <3>1. ~NsLast(lib, j, e + 1)
            BY <1>2, <2>3, LastGrows
        <3> QED BY <1>5, <2>3, <3>1
    <2>4. CASE k = "Ns"
        <3>1. NsLast(lib, j, e + 1)
            BY <1>2, <2>4, LastGrows
        <3> QED BY <1>5, <2>4, <3>1
    <2> QED BY <2>2, <2>3, <2>4
<1> QED
    BY <1>4, <1>6, <1>7, <1>8 DEF DescribedUpTo, d

\* The material outside is described from its newmtl line on.
LEMMA PendingPlace ==
    ASSUME LoaderInv, OwnInv, pending # NoMaterial
    PROVE  /\ pending \in AnyMaterial /\ library \in Nat \ {0} /\ Len(Library) \in Nat
           /\ pending.at = <<Len(file), pending.at[2]>>
           /\ pending.at[2] \in Nat /\ library - 1 \in Nat /\ pending.at[2] <= library - 1
<1>1. library > 0 /\ pending.at \in Made /\ pending.at[1] = Len(file)
    BY DEF OwnInv, PendingIsLatest
<1>2. pending.at \in (Nat \ {0}) \X (Nat \ {0}) /\ pending.at[2] < library
    BY <1>1, TheDefinitions DEF Made
<1>3. library \in Nat /\ Len(Library) \in Nat /\ pending \in AnyMaterial
    BY <1>1, LibraryIsRead DEF LoaderInv
<1> QED
    BY <1>1, <1>2, <1>3

\* A material that goes into the map is finished.
LEMMA DescriptionCommits ==
    ASSUME LoaderInv, OwnInv, DescriptionInv, materials' = Committed, library > 0,
           library - 1 = Len(Library) \/ (library <= Len(Library) /\ Stands(Library, library, {"newmtl"}))
    PROVE  \A i \in 2..Len(materials') : IsAsWritten(materials'[i])
<1>1. CASE pending = NoMaterial
    BY <1>1 DEF Committed, DescriptionInv
<1>2. CASE pending # NoMaterial
    <2> DEFINE n == Len(materials)
               j == pending.at[2]
               e == library - 1
    <2>1. /\ Len(materials') = n + 1 /\ n \in Nat
          /\ materials'[n + 1] = pending
          /\ \A i \in 1..n : materials'[i] = materials[i]
        <3>1. pending \in AnyMaterial /\ materials' = Append(materials, pending)
            BY <1>2 DEF Committed, LoaderInv
        <3> QED BY <3>1, MaterialsGrow DEF LoaderInv
    <2>2. /\ pending \in AnyMaterial /\ j \in Nat /\ e \in Nat /\ j <= e /\ Len(Library) \in Nat
          /\ e + 1 = library /\ e <= Len(Library) /\ pending.at[1] = Len(file)
        BY <1>2, PendingPlace
    <2>3. DescribedUpTo(pending, Library, j, e)
        BY <1>2 DEF DescriptionInv
    <2> HIDE DEF j, e
    <2>4. e = Len(Library) \/ Stands(Library, e + 1, {"newmtl"})
        BY <2>2 DEF e
    <2>5. Block(Library, j) = (j+1)..e
        BY <2>2, <2>3, <2>4, BlockIs DEF DescribedUpTo
    <2>6. Values(pending) = AsWritten(Library, j)
        BY <2>2, <2>3, <2>5, Finished
    <2>7. IsAsWritten(pending)
        BY <2>2, <2>6 DEF IsAsWritten, Library, j
    <2>8. ASSUME NEW i \in 2..(n+1) PROVE IsAsWritten(materials'[i])
        <3>1. CASE i = n + 1
            BY <2>1, <2>7, <3>1
        <3>2. CASE i # n + 1
            <4>1. i \in 2..n /\ materials'[i] = materials[i]
                BY <2>1, <3>2
            <4> QED BY <4>1 DEF DescriptionInv
        <3> QED BY <3>1, <3>2
    <2> QED BY <2>1, <2>8
<1> QED
    BY <1>1, <1>2

LEMMA DescriptionKeeps ==
    ASSUME LoaderInv, OwnInv, DescriptionInv, [Next]_vars
    PROVE  DescriptionInv'
<1>1. ASSUME NEW line \in Lines, Reads(line),
             \/ library' = 0 /\ (line.kind # "mtllib" \/ Swallowed(file', Len(file')))
             \/ library' = 1 /\ line.lib \in Libraries,
             materials' = materials, pending' = pending \/ pending' = NoMaterial
      PROVE  DescriptionInv'
    <2>1. pending' = NoMaterial
        <3>1. library = 0
            BY <1>1, TakesALine
        <3> QED BY <1>1, <3>1 DEF OwnInv, PendingIsLatest
    <2>2. ASSUME NEW i \in 2..Len(materials) PROVE IsAsWritten(materials[i])'
        <3>1. materials[i].at \in Made
            BY DEF OwnInv, EachDefined
        <3>2. file'[materials[i].at[1]] = file[materials[i].at[1]]
            BY <1>1, <3>1, ReadKeepsMade
        <3>3. IsAsWritten(materials[i])
            BY DEF DescriptionInv
        <3> QED BY <1>1, <3>2, <3>3 DEF IsAsWritten
    <2> QED BY <1>1, <2>1, <2>2 DEF DescriptionInv
<1>2. CASE ReadIgnored \/ ReadSwallowed \/ ReadVertex \/ ReadUsemtl \/ ReadFace \/ EnterLastFace
    BY <1>1, <1>2, WhatIsRead
<1>3. CASE ReadMtllib
    <2>1. PICK lib \in Libraries : Taken([kind |-> "mtllib", lib |-> lib])
        BY <1>3 DEF ReadMtllib
    <2> DEFINE line == [kind |-> "mtllib", lib |-> lib]
    <2>2. line \in Lines /\ line.lib \in Libraries
        BY DEF Lines
    <2>3. Reads(line)
        BY <2>1 DEF Taken
    <2> HIDE DEF line
    <2>4. library' = 1 /\ materials' = materials /\ pending' = NoMaterial
        BY <1>3 DEF ReadMtllib, meshVars
    <2> QED BY <1>1, <2>2, <2>3, <2>4
<1>4. ASSUME file' = file, \A i \in 2..Len(materials') : IsAsWritten(materials'[i])
      PROVE  \A i \in 2..Len(materials') : IsAsWritten(materials[i])'
    BY <1>4 DEF IsAsWritten
<1>5. CASE ReadNewmtl
    <2>1. /\ library > 0 /\ library <= Len(Library) /\ library' = library + 1 /\ file' = file
          /\ Stands(Library, library, {"newmtl"})
          /\ materials' = Committed
          /\ pending' = NewMaterial(Library[library].name, <<Len(file), library>>)
        BY <1>5 DEF ReadNewmtl, AtLine, InLibrary, Stands
    <2>2. \A i \in 2..Len(materials') : IsAsWritten(materials[i])'
        BY <1>4, <2>1, DescriptionCommits
    <2>3. library \in Nat /\ library' - 1 = library
        BY <2>1 DEF LoaderInv
    <2>4. /\ pending'.at[2] = library /\ pending'.color = "grey"
          /\ pending'.specular = FALSE /\ pending'.shine = 0
        BY <2>1 DEF NewMaterial
    <2>5. (library + 1)..library = {}
        BY <2>3
    <2>6. \A lib, k : ~Between(lib, library, library, k) /\ ~NsLast(lib, library, library)
        BY <2>5 DEF Between, NsLast
    <2>7. \A lib : DescribedUpTo(pending', lib, library, library)
        BY <2>4, <2>5, <2>6 DEF DescribedUpTo
    <2>8. DescribedUpTo(pending, Library, pending.at[2], library - 1)'
        BY <2>3, <2>4, <2>7 DEF DescribedUpTo, Between, NsLast, Stands, Swallowed
    <2> QED BY <2>2, <2>8 DEF DescriptionInv
<1>6. CASE ReadAttribute \/ ReadIgnoredOfLibrary
    <2>1. /\ library > 0 /\ library <= Len(Library) /\ library' = library + 1
          /\ file' = file /\ materials' = materials /\ Library' = Library
        BY <1>6 DEF ReadAttribute, ReadIgnoredOfLibrary, AtLine, InLibrary, meshVars, Library
    <2>2. \A i \in 2..Len(materials') : IsAsWritten(materials[i])'
        BY <1>4, <2>1 DEF DescriptionInv
    <2>3. ASSUME pending' # NoMaterial
          PROVE  DescribedUpTo(pending, Library, pending.at[2], library - 1)'
        <3> DEFINE j == pending.at[2]
                   e == library - 1
        <3>1. pending # NoMaterial
            BY <1>6, <2>3 DEF ReadAttribute, ReadIgnoredOfLibrary
        <3>2. /\ pending \in AnyMaterial /\ j \in Nat /\ e \in Nat /\ j <= e
              /\ e + 1 = library /\ library' - 1 = library
            BY <2>1, <3>1, PendingPlace
        <3>3. DescribedUpTo(pending, Library, j, e)
            BY <3>1 DEF DescriptionInv
        <3> HIDE DEF j, e
        <3>4. DescribedUpTo(pending', Library, j, e + 1) /\ pending'.at = pending.at
            <4>1. CASE ReadAttribute
                <5>1. PICK k \in {"color", "Ks", "Ns"} :
                         /\ AtLine(k)
                         /\ pending' = Described(pending, k)
                    BY <3>1, <4>1 DEF ReadAttribute
                <5>2. Stands(Library, e + 1, {k})
                    BY <3>2, <5>1 DEF AtLine, Stands
                <5>3. DescribedUpTo(Described(pending, k), Library, j, e + 1)
                    BY <3>2, <3>3, <5>2, DescribedGrows
                <5> QED BY <3>2, <5>1, <5>3, Describing
            <4>2. CASE ReadIgnoredOfLibrary
                <5>1. /\ pending' = pending
                      /\ Library[e + 1].kind \in {"ignored", "bare"} \/ Swallowed(Library, e + 1)
                    BY <3>2, <4>2 DEF ReadIgnoredOfLibrary
                <5>2. ~Stands(Library, e + 1, {"newmtl", "color", "Ks", "Ns"})
                    BY <5>1 DEF Stands
                <5> QED BY <3>2, <3>3, <5>1, <5>2, DescribedSkips
            <4> QED BY <1>6, <4>1, <4>2
        <3>5. DescribedUpTo(pending', Library, pending'.at[2], library' - 1)
            BY <3>2, <3>4 DEF j
        <3> QED BY <2>1, <3>5 DEF DescribedUpTo, Between, NsLast, Stands, Swallowed
    <2> QED BY <2>2, <2>3 DEF DescriptionInv
<1>7. CASE EndOfLibrary
    <2>1. /\ library > 0 /\ library > Len(Library) /\ file' = file
          /\ materials' = Committed /\ pending' = NoMaterial
        BY <1>7 DEF EndOfLibrary, InLibrary
    <2>2. library - 1 = Len(Library)
        <3>1. library \in Nat /\ Len(Library) \in Nat /\ library <= Len(Library) + 1
            BY <2>1, LibraryIsRead DEF LoaderInv, OwnInv
        <3> QED BY <2>1, <3>1
    <2>3. \A i \in 2..Len(materials') : IsAsWritten(materials[i])'
        BY <1>4, <2>1, <2>2, DescriptionCommits
    <2> QED BY <2>1, <2>3 DEF DescriptionInv
<1>8. CASE LastFaceGoesOn \/ EndOfFile \/ AddPrimitive \/ RemovePrimitive \/ DrawFrame
           \/ UNCHANGED vars
    <2>1. UNCHANGED <<file, materials, library, pending>>
        BY <1>8 DEF LastFaceGoesOn, EndOfFile, AddPrimitive, RemovePrimitive, DrawFrame, vars,
                    loaderVars, meshVars
    <2>2. \A i \in 2..Len(materials') : IsAsWritten(materials[i])'
        BY <1>4, <2>1 DEF DescriptionInv
    <2>3. pending' # NoMaterial => DescribedUpTo(pending, Library, pending.at[2], library - 1)'
        BY <2>1 DEF DescriptionInv, DescribedUpTo, Between, NsLast, Stands, Swallowed, Library
    <2> QED BY <2>2, <2>3 DEF DescriptionInv
<1> QED
    BY <1>2, <1>3, <1>5, <1>6, <1>7, <1>8 DEF Next, Load, LoadStep

LEMMA DescriptionHolds == Spec => []DescriptionInv
<1>1. ShowInit => DescriptionInv
    <2> SUFFICES ASSUME ShowInit PROVE DescriptionInv
        OBVIOUS
    <2>1. pending = NoMaterial /\ materials = <<Proto>> /\ Len(materials) = 1
        BY DEF ShowInit, Init
    <2> QED BY <2>1 DEF DescriptionInv
<1>2. LoaderInv /\ OwnInv /\ DescriptionInv /\ [Next]_vars => DescriptionInv'
    BY DescriptionKeeps
<1> QED
    BY <1>1, <1>2, OwnInvHolds, PTL DEF Spec

\* MaterialsAreAsWritten: what a library says of a material reaches that
\* material and no other, in whatever order its lines come (a Ks line takes the
\* shininess of an earlier Ns away), and however they are mixed with others,
\* swallowed or cut off by the end of the file.
THEOREM MaterialsAreDescribed == Spec => []MaterialsAreAsWritten
<1>1. ASSUME LoaderInv, OwnInv, DescriptionInv PROVE MaterialsAreAsWritten
    BY <1>1 DEF OwnInv, EachDefined, DescriptionInv, IsAsWritten, NameAt, MaterialsAreAsWritten
<1> QED
    BY <1>1, OwnInvHolds, DescriptionHolds, PTL
-----------------------------------------------------------------------------
(* Which material a face wears.                                            *)

KnownBefore(i) == {k \in LinesOf("usemtl") : k < i /\ DefinitionsBefore(k, file[k].name) # {}}
LatestOf(known) == CHOOSE k \in known : \A l \in known : l <= k
EarliestOf(all) == CHOOSE d \in all : \A e \in all : Earlier(d, e)

LEMMA MaterialForIs ==
    \A i : MaterialFor(i) =
        IF KnownBefore(i) = {} THEN <<0, 0>>
        ELSE EarliestOf(DefinitionsBefore(LatestOf(KnownBefore(i)), file[LatestOf(KnownBefore(i))].name))
BY DEF MaterialFor, KnownBefore, LatestOf, EarliestOf

\* What was known before a line is known of it for ever.
LEMMA KnownStays ==
    ASSUME LoaderInv, NEW line \in Lines, Reads(line)
    PROVE  /\ \A k \in 1..(Len(file) + 1) : \A nm :
                 DefinitionsBefore(k, nm)' = {d \in Definitions : d[1] < k /\ NameAt(d) = nm}
           /\ \A i \in 1..(Len(file) + 1) : KnownBefore(i)' = KnownBefore(i)
           /\ line.kind # "usemtl" \/ Swallowed(file', Len(file')) =>
                 KnownBefore(Len(file) + 1)' = KnownBefore(Len(file) + 1)
<1> DEFINE n == Len(file)
<1>1. /\ n \in Nat /\ Len(file') = n + 1
      /\ \A i \in 1..n : file'[i] = file[i]
      /\ LinesOf("usemtl")' = LinesOf("usemtl") \cup
            (IF line.kind = "usemtl" /\ ~Swallowed(file', Len(file')) THEN {Len(file')} ELSE {})
      /\ LinesOf("usemtl") \subseteq 1..n
    BY LinesStay, TakesALine
<1>2. ASSUME NEW k \in 1..(n+1), NEW nm
      PROVE  DefinitionsBefore(k, nm)' = {d \in Definitions : d[1] < k /\ NameAt(d) = nm}
    <2>1. DefinitionsBefore(k, nm)' = {d \in Definitions' : d[1] < k /\ NameAt(d)' = nm}
        BY DEF DefinitionsBefore
    <2>2. \A d \in Definitions : d \in Definitions' /\ NameAt(d)' = NameAt(d)
        BY DefinitionsStay
    <2>3. ASSUME NEW d \in Definitions', d[1] < k PROVE d \in Definitions
        <3>1. d[1] # Len(file')
            BY <1>1, <2>3
        <3> QED BY <3>1, DefinitionsStay
    <2> QED BY <2>1, <2>2, <2>3
<1>3. ASSUME NEW k \in LinesOf("usemtl")
      PROVE  DefinitionsBefore(k, file[k].name)' = DefinitionsBefore(k, file[k].name)
    <2>1. k \in 1..(n+1) /\ file'[k] = file[k]
        BY <1>1
    <2> DEFINE nm == file[k].name
    <2>2. DefinitionsBefore(k, nm) = {d \in Definitions : d[1] < k /\ NameAt(d) = nm}
        BY DEF DefinitionsBefore
    <2>3. {d \in Definitions' : d[1] < k /\ NameAt(d)' = nm} = {d \in Definitions : d[1] < k /\ NameAt(d) = nm}
        <3> HIDE DEF nm
        <3> QED BY <1>2, <2>1 DEF DefinitionsBefore
    <2> QED BY <2>1, <2>2, <2>3 DEF DefinitionsBefore
<1>4. ASSUME NEW i \in 1..(n+2),
             i \in 1..(n+1) \/ line.kind # "usemtl" \/ Swallowed(file', Len(file'))
      PROVE  KnownBefore(i)' = {k \in LinesOf("usemtl") : k < i /\ DefinitionsBefore(k, file[k].name) # {}}
    <2>1. KnownBefore(i)' = {k \in LinesOf("usemtl")' : k < i /\ DefinitionsBefore(k, file[k].name)' # {}}
        BY DEF KnownBefore
    <2>2. ASSUME NEW k \in LinesOf("usemtl")', k < i PROVE k \in LinesOf("usemtl")
        BY <1>1, <1>4, <2>2
    <2>3. \A k \in LinesOf("usemtl") : k \in LinesOf("usemtl")'
        BY <1>1
    <2> QED BY <1>3, <2>1, <2>2, <2>3
<1>5. ASSUME NEW i \in 1..(n+1) PROVE KnownBefore(i)' = KnownBefore(i)
    <2>1. i \in 1..(n+2)
        BY <1>1
    <2> QED BY <1>4, <2>1 DEF KnownBefore
<1>6. ASSUME line.kind # "usemtl" \/ Swallowed(file', Len(file'))
      PROVE  KnownBefore(Len(file) + 1)' = KnownBefore(n + 1)
    <2>1. PICK i \in 1..(n+2) : i = n + 2
        BY <1>1
    <2>2. KnownBefore(i)' = {k \in LinesOf("usemtl") : k < i /\ DefinitionsBefore(k, file[k].name) # {}}
        BY <1>4, <1>6
    <2>3. \A k \in LinesOf("usemtl") : k < i /\ k < n + 1
        BY <1>1, <2>1
    <2>4. KnownBefore(i)' = KnownBefore(n + 1)
        BY <2>2, <2>3 DEF KnownBefore
    <2>5. (Len(file) + 1)' = i
        BY <1>1, <2>1
    <2> QED BY <2>4, <2>5 DEF KnownBefore
<1> QED
    BY <1>2, <1>5, <1>6

\* So the face of a line keeps its material, whatever is read after it; and
\* only a usemtl line changes what the next face will wear.
LEMMA MaterialForStays ==
    ASSUME LoaderInv, NEW line \in Lines, Reads(line)
    PROVE  /\ \A i \in 1..(Len(file) + 1) : MaterialFor(i)' = MaterialFor(i)
           /\ line.kind # "usemtl" \/ Swallowed(file', Len(file')) =>
                 MaterialFor(Len(file) + 1)' = MaterialFor(Len(file) + 1)
<1> DEFINE n == Len(file)
<1>1. /\ n \in Nat /\ Len(file') = n + 1
      /\ \A i \in 1..n : file'[i] = file[i]
      /\ LinesOf("usemtl") \subseteq 1..n
    BY LinesStay, TakesALine
<1>2. ASSUME NEW k \in LinesOf("usemtl")
      PROVE  \A nm : DefinitionsBefore(k, nm)' = DefinitionsBefore(k, nm)
    <2>1. k \in 1..(n+1)
        BY <1>1
    <2> QED BY <2>1, KnownStays DEF DefinitionsBefore
<1>3. ASSUME NEW i, NEW j, KnownBefore(i)' = KnownBefore(j)
      PROVE  MaterialFor(i)' = MaterialFor(j)
    <2> DEFINE known == KnownBefore(j)
    <2>1. CASE known = {}
        BY <1>3, <2>1 DEF MaterialFor, KnownBefore
    <2>2. CASE known # {}
        <3>0. PICK k : k = LatestOf(known)
            OBVIOUS
        <3>1. k \in known
            <4>1. known \in SUBSET Nat /\ \A m \in known : m <= n
                BY <1>1 DEF KnownBefore
            <4>2. \E m \in known : \A l \in known : l <= m
                <5> DEFINE T == {n - m : m \in known}
                <5> HIDE DEF known
                <5>0. \A m \in known : n - m \in Nat
                    BY <1>1, <4>1
                <5>1. T \in SUBSET Nat /\ T # {}
                    BY <2>2, <5>0 DEF T
                <5>2. PICK t \in T : \A u \in T : t <= u
                    <6> HIDE DEF T
                    <6> QED BY <5>1, LeastNatural
                <5>3. PICK m \in known : t = n - m
                    BY <5>2
                <5>4. \A l \in known : n - m <= n - l
                    BY <5>2, <5>3 DEF T
                <5> QED BY <1>1, <4>1, <5>3, <5>4
            <4> HIDE DEF known
            <4> QED BY <3>0, <4>2 DEF LatestOf
        <3>2. k \in LinesOf("usemtl") /\ k \in 1..n
            BY <1>1, <3>1 DEF KnownBefore
        <3>3. file'[k] = file[k]
            BY <1>1, <3>2
        <3>4. MaterialFor(j) = EarliestOf(DefinitionsBefore(k, file[k].name))
            BY <2>2, <3>0, MaterialForIs
        <3>5. \A nm : DefinitionsBefore(k, nm)' = DefinitionsBefore(k, nm)
            BY <1>2, <3>2
        <3> HIDE DEF known
        <3>6. MaterialFor(i)' =
                IF KnownBefore(i)' = {} THEN <<0, 0>>
                ELSE LET last == LatestOf(KnownBefore(i)')
                         all == {d \in Definitions' : d[1] < last /\ NameAt(d)' = file'[last].name}
                     IN  EarliestOf(all)
            BY DEF MaterialFor, KnownBefore, LatestOf, EarliestOf, DefinitionsBefore, Earlier
        <3>7. {d \in Definitions' : d[1] < k /\ NameAt(d)' = file[k].name}
                = DefinitionsBefore(k, file[k].name)
            BY <3>5 DEF DefinitionsBefore
        <3> QED BY <1>3, <2>2, <3>3, <3>4, <3>6, <3>7, <3>0 DEF known
    <2> QED BY <2>1, <2>2
<1>4. \A i \in 1..(n+1) : MaterialFor(i)' = MaterialFor(i)
    BY <1>3, KnownStays
<1>5. ASSUME line.kind # "usemtl" \/ Swallowed(file', Len(file'))
      PROVE  MaterialFor(Len(file) + 1)' = MaterialFor(n + 1)
    <2>1. KnownBefore(Len(file) + 1)' = KnownBefore(n + 1)
        BY <1>5, KnownStays
    <2>2. PICK i : i = Len(file') + 1
        OBVIOUS
    <2>3. KnownBefore(i)' = KnownBefore(n + 1)
        BY <2>1, <2>2 DEF KnownBefore
    <2>4. MaterialFor(i)' = MaterialFor(n + 1)
        BY <1>3, <2>3
    <2> QED BY <2>2, <2>4 DEF MaterialFor
<1> QED
    BY <1>4, <1>5

\* A usemtl line finds the first material of the name in the map, which is the
\* first that the libraries before it define.
LEMMA UsemtlFinds ==
    ASSUME ProtoIsNotAsked, LoaderInv, OwnInv, UseInv, NEW nm \in MaterialNames,
           Taken([kind |-> "usemtl", name |-> nm])
    PROVE  Using(nm) = MaterialFor(Len(file) + 1)'
<1> DEFINE n == Len(file)
           D == {d \in Definitions : NameAt(d) = nm}
<1>0. PICK line : line = [kind |-> "usemtl", name |-> nm]
    OBVIOUS
<1>1. /\ line \in Lines /\ Reads(line) /\ ~Swallowed(file', Len(file'))
      /\ line.kind = "usemtl" /\ line.name = nm
    BY <1>0 DEF Lines, Taken
<1>2. /\ n \in Nat /\ Len(file') = n + 1 /\ file'[n + 1] = line
      /\ \A i \in 1..n : file'[i] = file[i]
      /\ LinesOf("usemtl") \subseteq 1..n
      /\ LinesOf("usemtl")' = LinesOf("usemtl") \cup {n + 1}
      /\ library = 0
    BY <1>1, LinesStay, TakesALine
<1>3. Made = Definitions /\ pending = NoMaterial
    BY <1>2 DEF Made, OwnInv, PendingIsLatest
<1>4. /\ \A i \in 2..Len(materials) :
            materials[i].at \in Definitions /\ materials[i].name = NameAt(materials[i].at)
      /\ \A d \in Definitions : \E i \in 2..Len(materials) : d = materials[i].at
      /\ Len(materials) \in Nat /\ DOMAIN materials = 1..Len(materials)
      /\ materials[1].name = "Proto"
    BY <1>3 DEF OwnInv, EachDefined, LoaderInv, Proto
<1>5. Named(nm) = {i \in 2..Len(materials) : NameAt(materials[i].at) = nm}
    <2>1. nm # "Proto"
        BY DEF ProtoIsNotAsked
    <2>2. \A i \in 1..Len(materials) : i = 1 \/ i \in 2..Len(materials)
        BY <1>4
    <2>3. \A i \in 2..Len(materials) : i \in 1..Len(materials)
        OBVIOUS
    <2> QED BY <1>4, <2>1, <2>2, <2>3 DEF Named
<1>6. PICK i : i = n + 1
    OBVIOUS
<1>7. /\ DefinitionsBefore(i, nm)' = D
      /\ KnownBefore(i)' = KnownBefore(i)
    <2>1. i \in 1..(n+1)
        BY <1>2, <1>6
    <2>2. DefinitionsBefore(i, nm)' = {d \in Definitions : d[1] < i /\ NameAt(d) = nm}
        BY <1>1, <2>1, KnownStays
    <2>3. \A d \in Definitions : d[1] < i
        <3>1. \A d \in Definitions : d[1] \in 1..n
            BY TheDefinitions
        <3> QED BY <1>2, <1>6, <3>1
    <2> QED BY <1>1, <2>1, <2>2, <2>3, KnownStays
<1>8. PICK j : j = i + 1
    OBVIOUS
<1>9. j = (Len(file) + 1)'
    BY <1>2, <1>6, <1>8
<1>10. KnownBefore(j)' = KnownBefore(i) \cup (IF D = {} THEN {} ELSE {i})
    <2>1. KnownBefore(j)' = {k \in LinesOf("usemtl") \cup {i} :
                               k < j /\ DefinitionsBefore(k, file[k].name)' # {}}
        BY <1>2, <1>6 DEF KnownBefore
    <2>2. \A k \in LinesOf("usemtl") : k < j /\ k < i
        BY <1>2, <1>6, <1>8
    <2>3. i < j /\ ~(i < i)
        BY <1>2, <1>6, <1>8
    <2>4. KnownBefore(i)' = {k \in LinesOf("usemtl") \cup {i} :
                               k < i /\ DefinitionsBefore(k, file[k].name)' # {}}
        BY <1>2, <1>6 DEF KnownBefore
    <2>5. DefinitionsBefore(i, file[i].name)' = D
        <3>1. file'[i].name = nm
            BY <1>1, <1>2, <1>6
        <3> HIDE DEF D
        <3> QED BY <1>7, <3>1 DEF DefinitionsBefore
    <2> HIDE DEF D
    <2> QED BY <1>7, <2>1, <2>2, <2>3, <2>4, <2>5
<1>11. Named(nm) = {} <=> D = {}
    BY <1>4, <1>5
<1>12. CASE D = {}
    <2>1. KnownBefore(j)' = KnownBefore(i)
        BY <1>10, <1>12
    <2>2. Using(nm) = MaterialFor(i)
        BY <1>6, <1>11, <1>12 DEF Using, UseInv
    <2>3. KnownBefore(i) = {} => MaterialFor(j)' = MaterialFor(i)
        BY <2>1 DEF MaterialFor, KnownBefore
    <2>4. KnownBefore(i) # {} => MaterialFor(j)' = MaterialFor(i)
        <3>1. MaterialFor(i)' = MaterialFor(i)
            <4>1. i \in 1..(n+1)
                BY <1>2, <1>6
            <4> QED BY <1>1, <4>1, MaterialForStays
        <3>2. KnownBefore(j)' = KnownBefore(i)'
            BY <1>7, <2>1
        <3>3. \A k : MaterialFor(k)' =
                IF KnownBefore(k)' = {} THEN <<0, 0>>
                ELSE LET last == LatestOf(KnownBefore(k)')
                         all == {d \in Definitions' : d[1] < last /\ NameAt(d)' = file'[last].name}
                     IN  EarliestOf(all)
            BY DEF MaterialFor, KnownBefore, LatestOf, EarliestOf, DefinitionsBefore, Earlier
        <3> QED BY <3>1, <3>2, <3>3
    <2>5. MaterialFor(j)' = Using(nm)
        BY <2>2, <2>3, <2>4
    <2> QED BY <1>9, <2>5 DEF MaterialFor
<1>13. CASE D # {}
    <2>1. LatestOf(KnownBefore(j)') = i
        <3>1. i \in KnownBefore(j)' /\ \A k \in KnownBefore(j)' : k <= i
            <4>1. \A k \in KnownBefore(i) : k \in 1..n
                BY <1>2 DEF KnownBefore
            <4>2. i \in Nat /\ \A k \in 1..n : k <= i
                BY <1>2, <1>6
            <4> QED BY <1>10, <1>13, <4>1, <4>2
        <3>2. \A k \in KnownBefore(j)' : (\A l \in KnownBefore(j)' : l <= k) => k = i
            <4>1. \A k \in KnownBefore(j)' : k \in Int /\ i \in Int
                BY <1>2, <1>6, <1>10 DEF KnownBefore
            <4> QED BY <3>1, <4>1
        <3> DEFINE known == KnownBefore(j)'
        <3>3. LatestOf(known) = CHOOSE k \in known : \A l \in known : l <= k
            BY DEF LatestOf
        <3> HIDE DEF known
        <3> QED BY <3>1, <3>2, <3>3 DEF known
    <2>2. MaterialFor(j)' = EarliestOf(D)
        <3>1. MaterialFor(j)' =
                IF KnownBefore(j)' = {} THEN <<0, 0>>
                ELSE LET last == LatestOf(KnownBefore(j)')
                         all == {d \in Definitions' : d[1] < last /\ NameAt(d)' = file'[last].name}
                     IN  EarliestOf(all)
            BY DEF MaterialFor, KnownBefore, LatestOf, EarliestOf, DefinitionsBefore, Earlier
        <3>2. KnownBefore(j)' # {}
            BY <1>10, <1>13
        <3>3. {d \in Definitions' : d[1] < i /\ NameAt(d)' = file'[i].name} = D
            <4>1. file'[i].name = nm
                BY <1>1, <1>2, <1>6
            <4>2. DefinitionsBefore(i, nm)' = {d \in Definitions' : d[1] < i /\ NameAt(d)' = nm}
                BY DEF DefinitionsBefore
            <4> QED BY <1>7, <4>1, <4>2
        <3> HIDE DEF D
        <3> QED BY <2>1, <3>1, <3>2, <3>3
    <2>3. PICK p \in Named(nm) : \A q \in Named(nm) : p <= q
        <3>1. Named(nm) \in SUBSET Nat /\ Named(nm) # {}
            BY <1>5, <1>11, <1>13
        <3> QED BY <3>1, LeastNatural
    <2>4. Using(nm) = materials[p].at
        <3>1. \A q \in Named(nm) : (\A r \in Named(nm) : q <= r) => q = p
            <4>1. Named(nm) \in SUBSET Nat
                BY <1>5
            <4> QED BY <2>3, <4>1
        <3>2. (CHOOSE q \in Named(nm) : \A r \in Named(nm) : q <= r) = p
            BY <2>3, <3>1
        <3> QED BY <2>3, <3>2 DEF Using
    <2>5. materials[p].at \in D /\ p \in 2..Len(materials)
        BY <1>4, <1>5, <2>3
    <2>6. ASSUME NEW e \in D PROVE Earlier(materials[p].at, e)
        <3>1. PICK q \in 2..Len(materials) : e = materials[q].at
            BY <1>4
        <3>2. q \in Named(nm) /\ p <= q
            BY <1>5, <2>3, <3>1
        <3>3. CASE p = q
            <4>1. e[2] \in Nat
                BY TheDefinitions
            <4> QED BY <3>1, <3>3, <4>1 DEF Earlier
        <3>4. CASE p # q
            <4>1. p < q
                BY <2>5, <3>2, <3>4
            <4>2. Before(materials[p].at, e)
                BY <2>5, <3>1, <4>1 DEF OwnInv, InOrder
            <4>3. e \in Nat \X Nat /\ materials[p].at \in Nat \X Nat
                BY <2>5, TheDefinitions
            <4> QED BY <4>2, <4>3 DEF Before, Earlier
        <3> QED BY <3>3, <3>4
    <2>7. EarliestOf(D) = materials[p].at
        <3>1. ASSUME NEW d \in D, \A e \in D : Earlier(d, e) PROVE d = materials[p].at
            <4>1. Earlier(d, materials[p].at) /\ Earlier(materials[p].at, d)
                BY <2>5, <2>6, <3>1
            <4>2. d \in Nat \X Nat /\ materials[p].at \in Nat \X Nat
                BY <2>5, TheDefinitions
            <4> QED BY <4>1, <4>2 DEF Earlier
        <3> HIDE DEF D
        <3> QED BY <2>5, <2>6, <3>1 DEF EarliestOf
    <2>8. MaterialFor(j)' = Using(nm)
        BY <2>2, <2>4, <2>7
    <2> QED BY <1>9, <2>8 DEF MaterialFor
<1> QED
    BY <1>12, <1>13

\* What the lines say is said by the file alone.
LEMMA SameFile ==
    ASSUME file' = file
    PROVE  /\ \A i : MaterialFor(i)' = MaterialFor(i) /\ WrittenFace(i)' = WrittenFace(i)
           /\ \A k : LinesOf(k)' = LinesOf(k) /\ FaceLines(k)' = FaceLines(k)
           /\ MaterialFor(Len(file) + 1)' = MaterialFor(Len(file) + 1)
<1>1. \A k : LinesOf(k)' = LinesOf(k)
    BY DEF LinesOf
<1>2. Definitions' = Definitions /\ \A d : NameAt(d)' = NameAt(d)
    BY <1>1 DEF Definitions, NameAt
<1>3. \A k, nm : DefinitionsBefore(k, nm)' = DefinitionsBefore(k, nm)
    BY <1>2 DEF DefinitionsBefore
<1>4. \A i : KnownBefore(i)' = KnownBefore(i)
    BY <1>1, <1>2 DEF KnownBefore, DefinitionsBefore
<1>5. ASSUME NEW i PROVE MaterialFor(i)' = MaterialFor(i)
    <2>1. MaterialFor(i)' =
            IF KnownBefore(i)' = {} THEN <<0, 0>>
            ELSE LET last == LatestOf(KnownBefore(i)')
                     all == {d \in Definitions' : d[1] < last /\ NameAt(d)' = file'[last].name}
                 IN  EarliestOf(all)
        BY DEF MaterialFor, KnownBefore, LatestOf, EarliestOf, DefinitionsBefore, Earlier
    <2>2. MaterialFor(i) =
            IF KnownBefore(i) = {} THEN <<0, 0>>
            ELSE LET last == LatestOf(KnownBefore(i))
                     all == {d \in Definitions : d[1] < last /\ NameAt(d) = file[last].name}
                 IN  EarliestOf(all)
        BY DEF MaterialFor, KnownBefore, LatestOf, EarliestOf, DefinitionsBefore, Earlier
    <2>3. \A last : {d \in Definitions' : d[1] < last /\ NameAt(d)' = file'[last].name}
                      = {d \in Definitions : d[1] < last /\ NameAt(d) = file[last].name}
        BY <1>2
    <2> QED BY <1>4, <2>1, <2>2, <2>3
<1>6. ASSUME NEW i PROVE WrittenFace(i)' = WrittenFace(i)
    <2>1. WrittenFace(i)' = [corners |-> [c \in DOMAIN file'[i].corners |-> file'[i].corners[c] - 1],
                             mat |-> MaterialFor(i)']
        BY DEF WrittenFace
    <2> QED BY <1>5, <2>1 DEF WrittenFace
<1>7. ASSUME NEW k PROVE FaceLines(k)' = FaceLines(k)
    <2>1. FaceLines(k)' = {i \in LinesOf("f")' : Kind(WrittenFace(i)'.corners) = k}
        BY DEF FaceLines, Kind, IsPolygonConvex, Changes, Step, Sign
    <2> QED BY <1>1, <1>6, <2>1 DEF FaceLines
<1>8. MaterialFor(Len(file) + 1)' = MaterialFor(Len(file) + 1)
    <2>1. PICK i : i = Len(file) + 1
        OBVIOUS
    <2>2. PICK m : m = MaterialFor(Len(file) + 1)
        OBVIOUS
    <2>3. m = MaterialFor(i)'
        BY <1>5, <2>1, <2>2
    <2>4. i = (Len(file) + 1)'
        BY <2>1
    <2>5. m = MaterialFor(Len(file) + 1)'
        BY <2>3, <2>4 DEF MaterialFor
    <2> QED BY <2>2, <2>5
<1> QED
    BY <1>1, <1>5, <1>6, <1>7, <1>8

\* Before the first usemtl line the faces wear what every mesh begins with.
LEMMA UseStarts == ShowInit => UseInv
<1> SUFFICES ASSUME ShowInit PROVE UseInv
    OBVIOUS
<1>1. file = [i \in 1..vertices |-> [kind |-> "v"]] /\ Mat = <<0, 0>>
    BY DEF ShowInit, Init, Proto
<1>2. LinesOf("usemtl") = {}
    BY <1>1 DEF LinesOf
<1>3. \A i : KnownBefore(i) = {}
    BY <1>2 DEF KnownBefore
<1> QED
    BY <1>1, <1>3, MaterialForIs DEF UseInv

LEMMA UseKeeps ==
    ASSUME ProtoIsNotAsked, LoaderInv, OwnInv, UseInv, [Next]_vars
    PROVE  UseInv'
<1>1. ASSUME NEW line \in Lines, Reads(line), Mat' = Mat,
             line.kind # "usemtl" \/ Swallowed(file', Len(file'))
      PROVE  UseInv'
    BY <1>1, MaterialForStays DEF UseInv
<1>2. CASE ReadUsemtl
    BY <1>2, UsemtlFinds DEF ReadUsemtl, UseInv
<1>3. CASE ReadIgnored
    <2>1. PICK k \in {"ignored", "bare"} : Reads([kind |-> k])
        BY <1>3 DEF ReadIgnored
    <2>2. [kind |-> k] \in Lines /\ [kind |-> k].kind # "usemtl"
        BY DEF Lines
    <2> QED BY <1>1, <1>3, <2>1, <2>2 DEF ReadIgnored, meshVars
<1>4. CASE ReadSwallowed
    <2>1. PICK line \in Lines : Reads(line) /\ Swallowed(file', Len(file'))
        BY <1>4 DEF ReadSwallowed, Lines
    <2> QED BY <1>1, <1>4, <2>1 DEF ReadSwallowed, meshVars
<1>5. CASE ReadVertex
    <2>1. Reads([kind |-> "v"])
        BY <1>5 DEF ReadVertex, Taken
    <2>2. [kind |-> "v"] \in Lines /\ [kind |-> "v"].kind # "usemtl"
        BY DEF Lines
    <2> QED BY <1>1, <1>5, <2>1, <2>2 DEF ReadVertex
<1>6. CASE ReadFace \/ EnterLastFace
    <2>1. PICK k \in {"f", "lastF"}, c \in Faces : Reads([kind |-> k, corners |-> c])
        BY <1>6 DEF ReadFace, EnterLastFace, Taken
    <2>2. /\ [kind |-> k, corners |-> c] \in Lines
          /\ [kind |-> k, corners |-> c].kind # "usemtl"
        BY DEF Lines
    <2> QED BY <1>1, <1>6, <2>1, <2>2 DEF ReadFace, EnterLastFace, meshVars
<1>7. CASE ReadMtllib
    <2>1. PICK lib \in Libraries : Reads([kind |-> "mtllib", lib |-> lib])
        BY <1>7 DEF ReadMtllib, Taken
    <2>2. /\ [kind |-> "mtllib", lib |-> lib] \in Lines
          /\ [kind |-> "mtllib", lib |-> lib].kind # "usemtl"
        BY DEF Lines
    <2> QED BY <1>1, <1>7, <2>1, <2>2 DEF ReadMtllib, meshVars
<1>8. CASE ReadNewmtl \/ ReadAttribute \/ ReadIgnoredOfLibrary \/ EndOfLibrary
           \/ LastFaceGoesOn \/ EndOfFile \/ AddPrimitive \/ RemovePrimitive \/ DrawFrame
           \/ UNCHANGED vars
    <2>1. file' = file /\ Mat' = Mat
        BY <1>8 DEF ReadNewmtl, ReadAttribute, ReadIgnoredOfLibrary, EndOfLibrary, LastFaceGoesOn,
                    EndOfFile, AddPrimitive, RemovePrimitive, DrawFrame, vars, loaderVars, meshVars
    <2> QED BY <2>1, SameFile DEF UseInv
<1> QED
    BY <1>2, <1>3, <1>4, <1>5, <1>6, <1>7, <1>8 DEF Next, Load, LoadStep
-----------------------------------------------------------------------------
(* The faults of a file, and what they do.                                 *)

\* Some f line strays; some library line that has been read describes a
\* material before one is named.
Stray == \E i \in LinesOf("f") : StraysIn(i)
Nameless == \E i \in LinesOf("mtllib") : \E k \in LinesRead(i) : NamelessIn(i, k)

\* _vertices holds the v lines so far, and ReadMaterialFile has no material
\* only as long as it has met no name.
FaultInv ==
    /\ vertices = Cardinality(LinesOf("v"))
    /\ broken <=> Stray \/ Nameless
    /\ library > 0 /\ pending = NoMaterial =>
          \A j \in 1..(library-1) : ~Stands(Library, j, {"newmtl"})

\* Nothing more is said of the program once it is broken.
LEMMA BrokenStays ==
    ASSUME LoaderInv, [Next]_vars, broken
    PROVE  UNCHANGED vars
<1>1. status = "reading"
    BY DEF LoaderInv
<1>2. ~LoadStep
    BY <1>1 DEF LoadStep, ReadIgnored, ReadSwallowed, ReadVertex, ReadUsemtl, ReadFace, ReadMtllib,
                ReadNewmtl, ReadAttribute, ReadIgnoredOfLibrary, EndOfLibrary, EnterLastFace,
                LastFaceGoesOn, EndOfFile, Taken, Reads, Reading, AtLine, InLibrary
<1> QED
    BY <1>1, <1>2 DEF Next, Load, AddPrimitive, RemovePrimitive, DrawFrame

\* The v lines before a line are a finite set, and part of all of them.
LEMMA VerticesAreFinite ==
    ASSUME LoaderInv
    PROVE  /\ IsFiniteSet(LinesOf("v")) /\ Cardinality(LinesOf("v")) \in Nat
           /\ \A i : /\ Cardinality({l \in LinesOf("v") : l < i}) \in Nat
                     /\ Cardinality({l \in LinesOf("v") : l < i}) <= Cardinality(LinesOf("v"))
<1>1. Len(file) \in Nat /\ LinesOf("v") \subseteq 1..Len(file)
    BY DEF LoaderInv, LinesOf
<1>2. IsFiniteSet(1..Len(file))
    BY <1>1, FS_Interval
<1>3. IsFiniteSet(LinesOf("v"))
    BY <1>1, <1>2, FS_Subset
<1>4. ASSUME NEW S \in SUBSET LinesOf("v")
      PROVE  Cardinality(S) \in Nat /\ Cardinality(S) <= Cardinality(LinesOf("v"))
    BY <1>3, FS_Subset, FS_CardinalityType
<1>5. \A i : {l \in LinesOf("v") : l < i} \in SUBSET LinesOf("v")
    OBVIOUS
<1> QED
    BY <1>3, <1>4, <1>5, FS_CardinalityType

\* A line that is read changes nothing in those before it; it is a fault only
\* if it is an f line that strays.
LEMMA FaultsStay ==
    ASSUME LoaderInv, NEW line \in Lines, Reads(line), library' \in {0, 1},
           line.kind = "mtllib" /\ ~Swallowed(file', Len(file')) => library' = 1
    PROVE  /\ Nameless' <=> Nameless
           /\ line.kind # "f" \/ Swallowed(file', Len(file')) => (Stray' <=> Stray)
           /\ \A i : i = Len(file') /\ line.kind = "f" /\ ~Swallowed(file', i) =>
                 (Stray' <=> Stray \/ StraysIn(i)')
           /\ {l \in LinesOf("v")' : l < Len(file')} = LinesOf("v")
<1> DEFINE m == Len(file)
<1>1. /\ m \in Nat /\ Len(file') = m + 1 /\ library = 0 /\ file'[m + 1] = line
      /\ \A i \in 1..m : file'[i] = file[i]
      /\ \A k : LinesOf(k) \subseteq 1..m
      /\ \A k : LinesOf(k)' = LinesOf(k) \cup
            (IF line.kind = k /\ ~Swallowed(file', Len(file')) THEN {Len(file')} ELSE {})
    BY LinesStay, TakesALine
<1> HIDE DEF m
<1>2. ASSUME NEW i \in 1..m PROVE {l \in LinesOf("v")' : l < i} = {l \in LinesOf("v") : l < i}
    <2>1. ~(m + 1 < i)
        BY <1>1
    <2> QED BY <1>1, <2>1
<1>3. ASSUME NEW i \in 1..m PROVE StraysIn(i)' <=> StraysIn(i)
    <2>1. file'[i] = file[i]
        BY <1>1
    <2> QED BY <1>2, <2>1 DEF StraysIn
<1>4. line.kind # "f" \/ Swallowed(file', Len(file')) => (Stray' <=> Stray)
    <2> SUFFICES ASSUME line.kind # "f" \/ Swallowed(file', Len(file')) PROVE Stray' <=> Stray
        OBVIOUS
    <2>1. LinesOf("f")' = LinesOf("f") /\ LinesOf("f") \subseteq 1..m
        BY <1>1
    <2> QED BY <1>3, <2>1 DEF Stray
<1>5. ASSUME NEW i, i = Len(file'), line.kind = "f", ~Swallowed(file', i)
      PROVE  Stray' <=> Stray \/ StraysIn(i)'
    <2>1. LinesOf("f")' = LinesOf("f") \cup {i} /\ LinesOf("f") \subseteq 1..m
        BY <1>1, <1>5
    <2> QED BY <1>3, <2>1 DEF Stray
<1>6. Nameless' <=> Nameless
    <2>1. ASSUME NEW i \in LinesOf("mtllib")
          PROVE  /\ i \in LinesOf("mtllib")' /\ LinesRead(i)' = LinesRead(i)
                 /\ \A k : NamelessIn(i, k)' <=> NamelessIn(i, k)
        <3>1. i \in 1..m /\ file'[i] = file[i] /\ i # Len(file') /\ i \in LinesOf("mtllib")'
            BY <1>1
        <3>2. LinesRead(i) = DOMAIN file[i].lib
            BY <1>1 DEF LinesRead
        <3>3. LinesRead(i)' = DOMAIN file'[i].lib
            BY <3>1 DEF LinesRead
        <3> QED BY <3>1, <3>2, <3>3 DEF NamelessIn
    <2>2. ASSUME NEW i \in LinesOf("mtllib")', i \notin LinesOf("mtllib"), NEW k \in LinesRead(i)'
          PROVE  FALSE
        <3>1. i = Len(file') /\ line.kind = "mtllib" /\ ~Swallowed(file', Len(file'))
            BY <1>1, <2>2
        <3>2. file'[i] = line /\ line.lib \in Libraries
            BY <1>1, <3>1 DEF Lines
        <3>3. DOMAIN line.lib = 1..Len(line.lib) /\ Len(line.lib) \in Nat
            BY <3>2, LibrariesAssumption, LenProperties
        <3>4. k \in DOMAIN line.lib /\ (library' > 0 => k < library')
            BY <2>2, <3>1, <3>2 DEF LinesRead
        <3>5. library' = 1
            BY <3>1
        <3> QED BY <3>3, <3>4, <3>5
    <2> QED BY <2>1, <2>2 DEF Nameless
<1>7. {l \in LinesOf("v")' : l < Len(file')} = LinesOf("v")
    <2>1. LinesOf("v") \subseteq 1..m /\ ~(m + 1 < m + 1) /\ \A l \in 1..m : l < m + 1
        BY <1>1
    <2> QED BY <1>1, <2>1
<1> QED
    BY <1>4, <1>5, <1>6, <1>7

\* A line of a library that is read adds itself to what is read, and what is
\* a fault elsewhere stays one.
LEMMA FaultsOfLibrary ==
    ASSUME LoaderInv, OwnInv, library > 0, file' = file,
           \/ library <= Len(Library) /\ library' = library + 1
           \/ library > Len(Library) /\ library' = 0
    PROVE  /\ Stray' <=> Stray
           /\ Nameless' <=> Nameless \/ (library' > 0 /\ NamelessIn(Len(file), library))
<1>1. PICK n : n = Len(file)
    OBVIOUS
<1>2. /\ n \in LinesOf("mtllib") /\ file[n].lib = Library
      /\ Len(Library) \in Nat /\ DOMAIN Library = 1..Len(Library)
      /\ library \in Nat \ {0} /\ library <= Len(Library) + 1
    <2>1. file \in Seq(Lines) /\ n \in DOMAIN file /\ file[n].kind = "mtllib" /\ library \in Nat
        BY <1>1 DEF LoaderInv
    <2>2. ~Swallowed(file, n) /\ library <= Len(Library) + 1
        BY <1>1 DEF OwnInv
    <2> QED BY <1>1, <2>1, <2>2, LibraryIsRead DEF LinesOf, Library
<1>3. /\ \A k : LinesOf(k)' = LinesOf(k)
      /\ \A i : StraysIn(i)' <=> StraysIn(i)
      /\ \A i, k : NamelessIn(i, k)' <=> NamelessIn(i, k)
    <2>1. \A k : LinesOf(k)' = LinesOf(k)
        BY SameFile
    <2>2. \A i : StraysIn(i)' <=> StraysIn(i)
        BY <2>1 DEF StraysIn
    <2>3. \A i, k : NamelessIn(i, k)' <=> NamelessIn(i, k)
        BY DEF NamelessIn
    <2> QED BY <2>1, <2>2, <2>3
<1>4. \A i : i # n => LinesRead(i)' = LinesRead(i)
    BY <1>1 DEF LinesRead
<1>5. LinesRead(n)' = LinesRead(n) \cup (IF library' > 0 THEN {library} ELSE {})
    <2>1. LinesRead(n)' = {k \in 1..Len(Library) : library' > 0 => k < library'}
        BY <1>1, <1>2 DEF LinesRead
    <2>2. LinesRead(n) = {k \in 1..Len(Library) : k < library}
        BY <1>1, <1>2 DEF LinesRead
    <2>3. CASE library <= Len(Library)
        <3>1. library' = library + 1 /\ library' > 0
            BY <1>2, <2>3
        <3>2. {k \in 1..Len(Library) : library' > 0 => k < library'}
                 = {k \in 1..Len(Library) : k < library} \cup {library}
            BY <1>2, <2>3, <3>1
        <3> QED BY <2>1, <2>2, <3>1, <3>2
    <2>4. CASE library > Len(Library)
        <3>1. library' = 0 /\ ~(library' > 0)
            BY <1>2, <2>4
        <3>2. {k \in 1..Len(Library) : library' > 0 => k < library'}
                 = {k \in 1..Len(Library) : k < library}
            BY <1>2, <2>4, <3>1
        <3> QED BY <2>1, <2>2, <3>1, <3>2
    <2> QED BY <1>2, <2>3, <2>4
<1>6. Stray' <=> Stray
    BY <1>3 DEF Stray
<1>7. Nameless' <=> Nameless \/ (library' > 0 /\ NamelessIn(n, library))
    <2>1. Nameless' <=> \E i \in LinesOf("mtllib") : \E k \in LinesRead(i)' : NamelessIn(i, k)
        BY <1>3 DEF Nameless
    <2> QED BY <1>2, <1>4, <1>5, <2>1 DEF Nameless
<1> QED
    BY <1>1, <1>6, <1>7

\* A material that is being read was named before.
LEMMA NamedIfPending ==
    ASSUME LoaderInv, OwnInv, pending # NoMaterial
    PROVE  \E j \in 1..(library-1) : Stands(Library, j, {"newmtl"})
<1>1. library > 0 /\ pending.at \in Made /\ pending.at[1] = Len(file)
    BY DEF OwnInv, PendingIsLatest
<1>2. pending.at \in Definitions /\ pending.at[2] < library
    BY <1>1 DEF Made
<1>3. pending.at[2] \in Nat \ {0} /\ Stands(Library, pending.at[2], {"newmtl"})
    BY <1>1, <1>2, TheDefinitions DEF Library
<1>4. pending.at[2] \in 1..(library-1)
    BY <1>2, <1>3 DEF LoaderInv
<1> QED
    BY <1>3, <1>4

LEMMA FaultInvReads ==
    ASSUME LoaderInv, FaultInv, NEW line \in Lines, Reads(line), broken' = broken,
           library' = IF line.kind = "mtllib" /\ ~Swallowed(file', Len(file')) THEN 1 ELSE 0,
           vertices' = IF line.kind = "v" /\ ~Swallowed(file', Len(file'))
                       THEN vertices + 1 ELSE vertices,
           line.kind # "f" \/ Swallowed(file', Len(file'))
    PROVE  FaultInv'
<1>1. library' \in {0, 1} /\ (line.kind = "mtllib" /\ ~Swallowed(file', Len(file')) => library' = 1)
    OBVIOUS
<1>2. broken' <=> Stray' \/ Nameless'
    <2>1. (Nameless' <=> Nameless) /\ (Stray' <=> Stray)
        BY <1>1, FaultsStay
    <2>2. broken <=> Stray \/ Nameless
        BY DEF FaultInv
    <2> QED BY <2>1, <2>2
<1>3. vertices' = Cardinality(LinesOf("v")')
    <2>1. LinesOf("v")' = LinesOf("v") \cup
             (IF line.kind = "v" /\ ~Swallowed(file', Len(file')) THEN {Len(file')} ELSE {})
        BY LinesStay
    <2>2. Len(file') = Len(file) + 1 /\ Len(file) \in Nat /\ LinesOf("v") \subseteq 1..Len(file)
        BY LinesStay, TakesALine
    <2>3. Len(file') \notin LinesOf("v") /\ IsFiniteSet(LinesOf("v"))
        BY <2>2, VerticesAreFinite
    <2>4. vertices = Cardinality(LinesOf("v"))
        BY DEF FaultInv
    <2>5. CASE line.kind = "v" /\ ~Swallowed(file', Len(file'))
        <3>1. LinesOf("v")' = LinesOf("v") \cup {Len(file')}
            BY <2>1, <2>5
        <3>2. Cardinality(LinesOf("v") \cup {Len(file')}) = vertices + 1
            BY <2>3, <2>4, FS_AddElement
        <3> QED BY <2>5, <3>1, <3>2
    <2>6. CASE ~(line.kind = "v" /\ ~Swallowed(file', Len(file')))
        <3>1. LinesOf("v")' = LinesOf("v") /\ vertices' = vertices
            BY <2>1, <2>6
        <3> QED BY <2>4, <3>1
    <2> QED BY <2>5, <2>6
<1>4. library' > 0 => 1..(library' - 1) = {}
    OBVIOUS
<1> QED
    BY <1>2, <1>3, <1>4 DEF FaultInv

\* An f line that is read breaks the program exactly if it strays.
LEMMA FaultInvFace ==
    ASSUME LoaderInv, FaultInv, ReadFace
    PROVE  FaultInv'
<1>1. PICK c \in Faces :
         LET corners == [i \in DOMAIN c |-> Index(c[i])] IN
         /\ Taken([kind |-> "f", corners |-> c])
         /\ IF Readable(corners) THEN UNCHANGED broken ELSE broken' = TRUE
    BY DEF ReadFace
<1>2. PICK line : line = [kind |-> "f", corners |-> c]
    OBVIOUS
<1>3. PICK corners : corners = [i \in DOMAIN c |-> c[i] - 1]
    OBVIOUS
<1>4. PICK n : n = Len(file')
    OBVIOUS
<1>5. /\ line \in Lines /\ Reads(line) /\ ~Swallowed(file', n)
      /\ line.kind = "f" /\ line.corners = c
    BY <1>1, <1>2, <1>4 DEF Lines, Taken
<1>6. /\ library = 0 /\ broken = FALSE /\ file'[n] = line
      /\ library' = 0 /\ vertices' = vertices
    BY <1>4, <1>5, TakesALine DEF ReadFace
<1>7. /\ Nameless' <=> Nameless
      /\ Stray' <=> Stray \/ StraysIn(n)'
      /\ {l \in LinesOf("v")' : l < n} = LinesOf("v")
    BY <1>4, <1>5, <1>6, FaultsStay
<1>8. ~Stray /\ ~Nameless /\ vertices = Cardinality(LinesOf("v")) /\ vertices \in Nat
    BY <1>6, VerticesAreFinite DEF FaultInv
<1>9. StraysIn(n)' <=> Len(c) < 3 \/ \E k \in DOMAIN c : c[k] \notin 1..vertices
    <2>1. StraysIn(n)' <=> \/ Len(file'[n].corners) < 3
                           \/ \E k \in DOMAIN file'[n].corners :
                                file'[n].corners[k] \notin
                                    1..Cardinality({l \in LinesOf("v")' : l < n})
        BY <1>4 DEF StraysIn
    <2> QED BY <1>5, <1>6, <1>7, <1>8, <2>1
<1>10. Readable(corners) <=> ~(Len(c) < 3 \/ \E k \in DOMAIN c : c[k] \notin 1..vertices)
    <2>1. c \in Seq(Int) /\ Len(c) \in Nat /\ DOMAIN c = 1..Len(c)
        BY FacesAssumption
    <2>2. Len(corners) = Len(c) /\ DOMAIN corners = DOMAIN c
        BY <1>3, <2>1
    <2>3. ASSUME NEW k \in DOMAIN c
          PROVE  corners[k] \in 0..(vertices-1) <=> c[k] \in 1..vertices
        <3>1. c[k] \in Int
            BY <2>1, ElementOfSeq
        <3> QED BY <1>3, <1>8, <3>1
    <2>4. Len(corners) >= 3 <=> ~(Len(c) < 3)
        BY <2>1, <2>2
    <2> QED BY <2>2, <2>3, <2>4 DEF Readable
<1>11. broken' <=> ~Readable(corners)
    <2>1. [i \in DOMAIN c |-> Index(c[i])] = corners
        BY <1>3 DEF Index
    <2> QED BY <1>1, <1>6, <2>1
<1>12. broken' <=> Stray' \/ Nameless'
    BY <1>7, <1>8, <1>9, <1>10, <1>11
<1>13. LinesOf("v")' = LinesOf("v")
    BY <1>5, LinesStay
<1>14. vertices' = Cardinality(LinesOf("v")')
    BY <1>6, <1>8, <1>13
<1> QED
    BY <1>6, <1>12, <1>14 DEF FaultInv

\* A line of a library breaks the program exactly if it describes a material
\* and none is named.
LEMMA FaultInvLibrary ==
    ASSUME LoaderInv, OwnInv, FaultInv,
           ReadNewmtl \/ ReadAttribute \/ ReadIgnoredOfLibrary \/ EndOfLibrary
    PROVE  FaultInv'
<1>1. /\ library > 0 /\ library \in Nat /\ ~broken /\ file' = file /\ vertices' = vertices
      /\ \/ library <= Len(Library) /\ library' = library + 1
         \/ library > Len(Library) /\ library' = 0
    BY DEF ReadNewmtl, ReadAttribute, ReadIgnoredOfLibrary, EndOfLibrary, AtLine, InLibrary,
           meshVars, LoaderInv
<1>2. /\ Stray' <=> Stray
      /\ Nameless' <=> Nameless \/ (library' > 0 /\ NamelessIn(Len(file), library))
    BY <1>1, FaultsOfLibrary
<1>3. ~Stray /\ ~Nameless /\ vertices = Cardinality(LinesOf("v"))
    BY <1>1 DEF FaultInv
<1>4. vertices' = Cardinality(LinesOf("v")')
    <2>1. LinesOf("v")' = LinesOf("v")
        BY <1>1, SameFile
    <2> QED BY <1>1, <1>3, <2>1
<1>5. Library' = Library
    BY <1>1 DEF Library
<1>6. NamelessIn(Len(file), library) <=>
         /\ Stands(Library, library, {"color", "Ks", "Ns"})
         /\ \A j \in 1..(library-1) : ~Stands(Library, j, {"newmtl"})
    BY DEF NamelessIn, Library
<1>7. ASSUME ~Stands(Library, library, {"color", "Ks", "Ns"}), broken' = broken
      PROVE  broken' <=> Stray' \/ Nameless'
    BY <1>1, <1>2, <1>3, <1>6, <1>7
<1>8. ASSUME pending' = NoMaterial, pending = NoMaterial, library' = library + 1,
             ~Stands(Library, library, {"newmtl"})
      PROVE  \A j \in 1..(library' - 1) : ~Stands(Library, j, {"newmtl"})'
    <2>1. \A j \in 1..(library-1) : ~Stands(Library, j, {"newmtl"})
        BY <1>1, <1>8 DEF FaultInv
    <2>2. ASSUME NEW j \in 1..(library' - 1) PROVE ~Stands(Library, j, {"newmtl"})'
        <3>1. j = library \/ j \in 1..(library-1)
            BY <1>1, <1>8
        <3>2. Stands(Library, j, {"newmtl"})' <=> Stands(Library, j, {"newmtl"})
            BY <1>5 DEF Stands, Swallowed
        <3> QED BY <1>8, <2>1, <3>1, <3>2
    <2> QED BY <2>2
<1>9. CASE ReadNewmtl
    <2>1. /\ library > 0 /\ library <= Len(Library) /\ Library[library].kind = "newmtl"
          /\ broken' = broken
          /\ pending' = NewMaterial(Library[library].name, <<Len(file), library>>)
        BY <1>9 DEF ReadNewmtl, AtLine, InLibrary
    <2>2. ~Stands(Library, library, {"color", "Ks", "Ns"})
        BY <2>1 DEF Stands
    <2>3. pending' # NoMaterial
        <3>1. DOMAIN pending' # DOMAIN NoMaterial
            BY <2>1 DEF NewMaterial, NoMaterial
        <3> QED BY <3>1
    <2> QED BY <1>4, <1>7, <2>1, <2>2, <2>3 DEF FaultInv
<1>10. CASE ReadAttribute
    <2>1. PICK k \in {"color", "Ks", "Ns"} :
             /\ AtLine(k)
             /\ pending' = IF pending = NoMaterial THEN pending ELSE Described(pending, k)
        BY <1>10 DEF ReadAttribute
    <2>2. /\ Stands(Library, library, {"color", "Ks", "Ns"})
          /\ ~Stands(Library, library, {"newmtl"}) /\ library' = library + 1
        BY <2>1 DEF AtLine, Stands
    <2>3. broken' = (pending = NoMaterial)
        BY <1>10 DEF ReadAttribute
    <2>4. pending = NoMaterial <=> \A j \in 1..(library-1) : ~Stands(Library, j, {"newmtl"})
        BY <1>1, NamedIfPending DEF FaultInv
    <2>5. broken' <=> Stray' \/ Nameless'
        <3>1. library' > 0
            BY <1>1, <2>2
        <3>2. NamelessIn(Len(file), library) <=> pending = NoMaterial
            BY <1>6, <2>2, <2>4, Zenon
        <3>3. Stray' \/ Nameless' <=> pending = NoMaterial
            BY <1>2, <1>3, <3>1, <3>2, Zenon
        <3> QED BY <2>3, <3>3, Zenon
    <2>6. pending' = NoMaterial => pending = NoMaterial
        <3> SUFFICES ASSUME pending # NoMaterial PROVE pending' # NoMaterial
            OBVIOUS
        <3>1. pending \in AnyMaterial
            BY DEF LoaderInv
        <3>2. pending' \in AnyMaterial
            BY <2>1, <3>1, Describing
        <3>3. DOMAIN pending' # DOMAIN NoMaterial
            BY <3>2 DEF AnyMaterial, NoMaterial
        <3> QED BY <3>3
    <2> QED BY <1>4, <1>8, <2>2, <2>5, <2>6 DEF FaultInv
<1>11. CASE ReadIgnoredOfLibrary
    <2>1. /\ library' = library + 1 /\ pending' = pending /\ broken' = broken
          /\ Library[library].kind \in {"ignored", "bare"} \/ Swallowed(Library, library)
        BY <1>11 DEF ReadIgnoredOfLibrary
    <2>2. /\ ~Stands(Library, library, {"color", "Ks", "Ns"})
          /\ ~Stands(Library, library, {"newmtl"})
        BY <2>1 DEF Stands
    <2> QED BY <1>4, <1>7, <1>8, <2>1, <2>2 DEF FaultInv
<1>12. CASE EndOfLibrary
    <2>1. library' = 0 /\ broken' = broken
        BY <1>12 DEF EndOfLibrary
    <2>2. broken' <=> Stray' \/ Nameless'
        BY <1>1, <1>2, <1>3, <2>1
    <2> QED BY <1>4, <2>1, <2>2 DEF FaultInv
<1> QED
    BY <1>9, <1>10, <1>11, <1>12

LEMMA FaultInvKeeps ==
    ASSUME LoaderInv, OwnInv, FaultInv, [Next]_vars
    PROVE  FaultInv'
<1>1. CASE ReadIgnored \/ ReadSwallowed \/ ReadVertex \/ ReadUsemtl \/ ReadMtllib \/ EnterLastFace
    <2>1. PICK line \in Lines :
             /\ Reads(line)
             /\ \/ /\ Swallowed(file', Len(file')) \/ line.kind \in {"ignored", "bare", "usemtl", "lastF"}
                   /\ library' = library /\ vertices' = vertices
                \/ /\ line.kind = "v" /\ ~Swallowed(file', Len(file'))
                   /\ library' = library /\ vertices' = vertices + 1
                \/ /\ line.kind = "mtllib" /\ ~Swallowed(file', Len(file'))
                   /\ library' = 1 /\ vertices' = vertices
        <3>1. CASE ReadIgnored
            BY <3>1 DEF ReadIgnored, Lines, meshVars
        <3>2. CASE ReadSwallowed
            BY <3>2 DEF ReadSwallowed, Lines, meshVars
        <3>3. CASE ReadVertex
            BY <3>3 DEF ReadVertex, Taken, Lines
        <3>4. CASE ReadUsemtl
            BY <3>4 DEF ReadUsemtl, Taken, Lines
        <3>5. CASE ReadMtllib
            BY <3>5 DEF ReadMtllib, Taken, Lines, meshVars
        <3>6. CASE EnterLastFace
            BY <3>6 DEF EnterLastFace, Taken, Lines, meshVars
        <3> QED BY <1>1, <3>1, <3>2, <3>3, <3>4, <3>5, <3>6
    <2>2. library = 0
        BY <2>1, TakesALine
    <2>3. broken' = broken
        BY <1>1 DEF ReadIgnored, ReadSwallowed, ReadVertex, ReadUsemtl, ReadMtllib, EnterLastFace
    <2>4. line.kind # "f" \/ Swallowed(file', Len(file'))
        BY <2>1
    <2>5. library' = IF line.kind = "mtllib" /\ ~Swallowed(file', Len(file')) THEN 1 ELSE 0
        BY <2>1, <2>2
    <2>6. vertices' = IF line.kind = "v" /\ ~Swallowed(file', Len(file'))
                      THEN vertices + 1 ELSE vertices
        BY <2>1
    <2> QED BY <2>1, <2>3, <2>4, <2>5, <2>6, FaultInvReads
<1>2. CASE LastFaceGoesOn \/ EndOfFile \/ AddPrimitive \/ RemovePrimitive \/ DrawFrame
           \/ UNCHANGED vars
    <2>1. UNCHANGED <<file, vertices, library, pending, broken>>
        BY <1>2 DEF LastFaceGoesOn, EndOfFile, AddPrimitive, RemovePrimitive, DrawFrame, vars,
                    loaderVars, meshVars
    <2>2. (Stray' <=> Stray) /\ (Nameless' <=> Nameless) /\ LinesOf("v")' = LinesOf("v")
        BY <2>1 DEF Stray, Nameless, StraysIn, NamelessIn, LinesRead, LinesOf
    <2>3. Library' = Library /\ \A j : Stands(Library, j, {"newmtl"})' <=> Stands(Library, j, {"newmtl"})
        BY <2>1 DEF Library, Stands, Swallowed
    <2> QED BY <2>1, <2>2, <2>3 DEF FaultInv
<1> QED
    BY <1>1, <1>2, FaultInvFace, FaultInvLibrary DEF Next, Load, LoadStep

LEMMA FaultInvStarts == ShowInit => FaultInv
<1> SUFFICES ASSUME ShowInit PROVE FaultInv
    OBVIOUS
<1>1. /\ vertices \in Nat /\ file = [i \in 1..vertices |-> [kind |-> "v"]]
      /\ library = 0 /\ broken = FALSE
    BY PreludeAssumption, PointsAssumption DEF ShowInit, Init
<1>2. \A i \in 1..vertices : file[i].kind = "v" /\ ~Swallowed(file, i)
    <2> TAKE i \in 1..vertices
    <2>1. i > 1 => i - 1 \in 1..vertices
        BY <1>1
    <2> QED BY <1>1, <2>1 DEF Swallowed
<1>3. LinesOf("f") = {} /\ LinesOf("mtllib") = {} /\ LinesOf("v") = 1..vertices
    BY <1>1, <1>2 DEF LinesOf
<1>4. vertices = Cardinality(LinesOf("v"))
    <2>1. Cardinality(1..vertices) = vertices
        BY <1>1, FS_Interval
    <2> QED BY <1>3, <2>1
<1> QED
    BY <1>1, <1>3, <1>4 DEF FaultInv, Stray, Nameless

LEMMA FaultInvHolds == Spec => [](LoaderInv /\ OwnInv /\ FaultInv)
<1>1. LoaderInv /\ OwnInv /\ FaultInv /\ [Next]_vars => FaultInv'
    BY FaultInvKeeps
<1> QED
    BY <1>1, FaultInvStarts, OwnInvHolds, PTL DEF Spec

\* BreaksExactlyAtFaults: an f line that strays, or a library that describes a
\* material before naming one, takes Load out of its vectors or through a
\* pointer it has not set; and nothing else does, in files and libraries of any
\* size and make.
THEOREM FaultsAreWhatBreaks == Spec => []BreaksExactlyAtFaults
<1>1. FaultInv => BreaksExactlyAtFaults
    BY DEF FaultInv, BreaksExactlyAtFaults, Stray, Nameless
<1> QED
    BY <1>1, FaultInvHolds, PTL

\* As long as nothing has broken, the faces that are read list vertices that
\* are read.
LEMMA CornersAreThere ==
    ASSUME LoaderInv, FaultInv, ~broken,
           NEW i \in LinesOf("f"), NEW k \in DOMAIN file[i].corners
    PROVE  file[i].corners[k] \in 1..vertices
<1>1. ~StraysIn(i)
    BY DEF FaultInv, Stray
<1>2. PICK given : given = Cardinality({l \in LinesOf("v") : l < i})
    OBVIOUS
<1>3. file[i].corners[k] \in 1..given
    BY <1>1, <1>2 DEF StraysIn
<1>4. given \in Nat /\ given <= vertices /\ vertices \in Nat
    BY <1>2, VerticesAreFinite DEF FaultInv
<1> QED
    BY <1>3, <1>4
-----------------------------------------------------------------------------
(* The faces of the file, in the vectors of the mesh.                      *)

\* A set of lines is finite, and a later one comes after all of them.
LEMMA LinesAreFinite ==
    ASSUME LoaderInv
    PROVE  /\ \A k : FaceLines(k) \subseteq LinesOf("f") /\ IsFiniteSet(FaceLines(k))
                     /\ FaceLines(k) \subseteq 1..Len(file)
           /\ \A k : Cardinality(FaceLines(k)) \in Nat
           /\ \A k : \A i \in FaceLines(k) : PlaceOf(i, k) \in 1..Cardinality(FaceLines(k))
<1>1. Len(file) \in Nat /\ LinesOf("f") \subseteq 1..Len(file)
    BY DEF LoaderInv, LinesOf
<1>2. IsFiniteSet(1..Len(file))
    BY <1>1, FS_Interval
<1>3. \A k : FaceLines(k) \subseteq LinesOf("f")
    BY DEF FaceLines
<1>4. ASSUME NEW k PROVE IsFiniteSet(FaceLines(k)) /\ Cardinality(FaceLines(k)) \in Nat
    <2>1. IsFiniteSet(FaceLines(k))
        BY <1>1, <1>2, <1>3, FS_Subset
    <2> QED BY <2>1, FS_CardinalityType
<1>5. ASSUME NEW k, NEW i \in FaceLines(k) PROVE PlaceOf(i, k) \in 1..Cardinality(FaceLines(k))
    <2> DEFINE before == {l \in FaceLines(k) : l <= i}
    <2>1. IsFiniteSet(before) /\ Cardinality(before) <= Cardinality(FaceLines(k))
        <3>1. before \in SUBSET FaceLines(k)
            OBVIOUS
        <3> HIDE DEF before
        <3> QED BY <1>4, <3>1, FS_Subset
    <2>2. i \in before
        BY <1>1, <1>3
    <2>3. Cardinality(before) \in Nat /\ Cardinality(before) # 0
        <3> HIDE DEF before
        <3> QED BY <2>1, <2>2, FS_EmptySet, FS_CardinalityType
    <2>4. Cardinality(before) \in 1..Cardinality(FaceLines(k))
        <3> HIDE DEF before
        <3> QED BY <1>4, <2>1, <2>3
    <2> QED BY <2>4 DEF PlaceOf
<1> QED
    BY <1>1, <1>3, <1>4, <1>5

\* What is written of the faces stays, and one is added by an f line that is
\* not swallowed.
LEMMA FaceLinesStay ==
    ASSUME LoaderInv, NEW line \in Lines, Reads(line)
    PROVE  LET n == Len(file') IN
           /\ \A i \in 1..Len(file) : WrittenFace(i)' = WrittenFace(i)
           /\ line.kind = "f" /\ ~Swallowed(file', n) =>
                 \A k, face : face = [corners |-> [c \in DOMAIN line.corners |-> line.corners[c] - 1],
                                      mat |-> MaterialFor(Len(file) + 1)] =>
                     /\ FaceLines(k)' = FaceLines(k) \cup (IF Kind(face.corners) = k THEN {n} ELSE {})
                     /\ \A i : i = Len(file) + 1 => WrittenFace(i)' = face
           /\ line.kind # "f" \/ Swallowed(file', n) =>
                 \A k : FaceLines(k)' = FaceLines(k)
<1> DEFINE m == Len(file)
<1>1. /\ m \in Nat /\ Len(file') = m + 1 /\ file'[m + 1] = line
      /\ \A i \in 1..m : file'[i] = file[i]
      /\ LinesOf("f") \subseteq 1..m
      /\ LinesOf("f")' = LinesOf("f") \cup
            (IF line.kind = "f" /\ ~Swallowed(file', Len(file')) THEN {Len(file')} ELSE {})
      /\ \A i \in 1..(m+1) : MaterialFor(i)' = MaterialFor(i)
    BY LinesStay, TakesALine, MaterialForStays
<1>2. ASSUME NEW i \in 1..m PROVE WrittenFace(i)' = WrittenFace(i)
    <2>1. i \in 1..(m+1)
        BY <1>1
    <2>2. WrittenFace(i)' = [corners |-> [c \in DOMAIN file'[i].corners |-> file'[i].corners[c] - 1],
                             mat |-> MaterialFor(i)']
        BY DEF WrittenFace
    <2> QED BY <1>1, <2>1, <2>2 DEF WrittenFace
<1>3. ASSUME NEW k
      PROVE  FaceLines(k)' = {i \in LinesOf("f")' : Kind(WrittenFace(i)'.corners) = k}
    BY DEF FaceLines, Kind, IsPolygonConvex, Changes, Step, Sign
<1>4. ASSUME NEW k, line.kind # "f" \/ Swallowed(file', Len(file'))
      PROVE  FaceLines(k)' = FaceLines(k)
    <2>1. LinesOf("f")' = LinesOf("f")
        BY <1>1, <1>4
    <2>2. \A i \in LinesOf("f") : WrittenFace(i)' = WrittenFace(i)
        BY <1>1, <1>2
    <2> QED BY <1>3, <2>1, <2>2 DEF FaceLines
<1>5. ASSUME NEW k, line.kind = "f", ~Swallowed(file', Len(file')),
             NEW face, face = [corners |-> [c \in DOMAIN line.corners |-> line.corners[c] - 1],
                               mat |-> MaterialFor(m + 1)]
      PROVE  /\ FaceLines(k)' = FaceLines(k) \cup (IF Kind(face.corners) = k THEN {Len(file')} ELSE {})
             /\ \A i : i = m + 1 => WrittenFace(i)' = face
    <2>1. PICK i : i = m + 1
        OBVIOUS
    <2>2. LinesOf("f")' = LinesOf("f") \cup {i} /\ i \in 1..(m+1)
        BY <1>1, <1>5, <2>1
    <2>3. WrittenFace(i)' = face
        <3>1. WrittenFace(i)' = [corners |-> [c \in DOMAIN file'[i].corners |-> file'[i].corners[c] - 1],
                                 mat |-> MaterialFor(i)']
            BY DEF WrittenFace
        <3>2. file'[i] = line /\ MaterialFor(i)' = MaterialFor(m + 1)
            BY <1>1, <2>1, <2>2
        <3> QED BY <1>5, <3>1, <3>2
    <2>4. \A l \in LinesOf("f") : WrittenFace(l)' = WrittenFace(l)
        BY <1>1, <1>2
    <2>5. \A l : l = m + 1 => WrittenFace(l)' = face
        BY <2>1, <2>3
    <2> QED BY <1>1, <1>3, <2>1, <2>2, <2>3, <2>4, <2>5 DEF FaceLines
<1> QED
    BY <1>2, <1>4, <1>5

\* The lines that are no faces.
LEMMA PlainLines ==
    ASSUME ReadIgnored \/ ReadSwallowed \/ ReadVertex \/ ReadUsemtl \/ ReadMtllib \/ EnterLastFace
    PROVE  \E line \in Lines : Reads(line) /\ (line.kind # "f" \/ Swallowed(file', Len(file')))
<1>1. CASE ReadIgnored
    BY <1>1 DEF ReadIgnored, Lines
<1>2. CASE ReadSwallowed
    BY <1>2 DEF ReadSwallowed, Lines
<1>3. CASE ReadVertex
    BY <1>3 DEF ReadVertex, Taken, Lines
<1>4. CASE ReadUsemtl
    BY <1>4 DEF ReadUsemtl, Taken, Lines
<1>5. CASE ReadMtllib
    BY <1>5 DEF ReadMtllib, Taken, Lines
<1>6. CASE EnterLastFace
    BY <1>6 DEF EnterLastFace, Taken, Lines
<1> QED
    BY <1>1, <1>2, <1>3, <1>4, <1>5, <1>6

\* Reading a file adds its faces to the vectors, each at the end of its own.
LEMMA FacesKeep ==
    ASSUME LoaderInv, UseInv, FacesAreAsWritten, [Next]_vars
    PROVE  FacesAreAsWritten'
<1> SUFFICES ASSUME ~broken'
             PROVE  (\A k \in DOMAIN surfaces :
                        /\ Len(surfaces[k]) = Cardinality(FaceLines(k))
                        /\ \A i \in FaceLines(k) : surfaces[k][PlaceOf(i, k)] = WrittenFace(i))'
    BY DEF FacesAreAsWritten
<1> DEFINE Goal == (\A k \in DOMAIN surfaces :
                        /\ Len(surfaces[k]) = Cardinality(FaceLines(k))
                        /\ \A i \in FaceLines(k) : surfaces[k][PlaceOf(i, k)] = WrittenFace(i))'
<1>unbroken. ~broken
    BY BrokenStays DEF vars, loaderVars
<1>0. /\ \A k \in DOMAIN NoSurfaces :
            /\ Len(surfaces[k]) = Cardinality(FaceLines(k))
            /\ \A i \in FaceLines(k) : surfaces[k][PlaceOf(i, k)] = WrittenFace(i)
      /\ DOMAIN surfaces = DOMAIN NoSurfaces
      /\ \A k : FaceLines(k) \subseteq 1..Len(file) /\ Len(file) \in Nat
    BY <1>unbroken, LinesAreFinite DEF LoaderInv, FacesAreAsWritten
<1>1. ASSUME NEW line \in Lines, Reads(line), surfaces' = surfaces,
             line.kind # "f" \/ Swallowed(file', Len(file'))
      PROVE  Goal
    <2>1. /\ \A k : FaceLines(k)' = FaceLines(k)
          /\ \A i \in 1..Len(file) : WrittenFace(i)' = WrittenFace(i)
        BY <1>1, FaceLinesStay
    <2>2. \A i, k : PlaceOf(i, k)' = PlaceOf(i, k)
        BY <2>1 DEF PlaceOf
    <2> QED BY <1>0, <1>1, <2>1, <2>2
<1>2. CASE ReadFace
    <2>1. PICK c \in Faces :
             LET corners == [i \in DOMAIN c |-> Index(c[i])] IN
             /\ Taken([kind |-> "f", corners |-> c])
             /\ IF Readable(corners)
                THEN surfaces' = [surfaces EXCEPT ![Kind(corners)] = Append(@, Face(corners))]
                ELSE broken' = TRUE
        BY <1>2 DEF ReadFace
    <2>2. PICK line : line = [kind |-> "f", corners |-> c]
        OBVIOUS
    <2>3. PICK corners : corners = [i \in DOMAIN c |-> c[i] - 1]
        OBVIOUS
    <2>4. PICK f : f = Face(corners)
        OBVIOUS
    <2>5. PICK kk : kk = Kind(corners)
        OBVIOUS
    <2>6. /\ line \in Lines /\ Reads(line) /\ ~Swallowed(file', Len(file'))
          /\ line.kind = "f" /\ line.corners = c
        BY <2>1, <2>2 DEF Lines, Taken
    <2>7. surfaces' = [surfaces EXCEPT ![kk] = Append(@, f)]
        <3>1. [i \in DOMAIN c |-> Index(c[i])] = corners
            BY <2>3 DEF Index
        <3>2. Readable(corners)
            BY <2>1, <3>1
        <3> QED BY <2>1, <2>4, <2>5, <3>1, <3>2
    <2>8. kk \in DOMAIN NoSurfaces /\ f \in AnyFace /\ f.corners = corners /\ f.mat = Mat
        <3>1. [i \in DOMAIN c |-> Index(c[i])] = corners
            BY <2>3 DEF Index
        <3>2. Mat \in Nat \X Nat
            BY HeldAreAddresses DEF LoaderInv
        <3>3. f \in AnyFace
            BY <2>4, <3>1, <3>2 DEF Face, AnyFace
        <3> QED BY <2>4, <2>5, <3>3 DEF Face, Kind, NoSurfaces
    <2>9. /\ \A j \in DOMAIN NoSurfaces \ {kk} : surfaces'[j] = surfaces[j]
          /\ Len(surfaces'[kk]) = Len(surfaces[kk]) + 1 /\ Len(surfaces[kk]) \in Nat
          /\ surfaces'[kk][Len(surfaces[kk]) + 1] = f
          /\ \A i \in 1..Len(surfaces[kk]) : surfaces'[kk][i] = surfaces[kk][i]
          /\ DOMAIN surfaces' = DOMAIN NoSurfaces
        BY <2>7, <2>8, FaceAppended
    <2>10. PICK n : n = Len(file) + 1
        OBVIOUS
    <2>11. f = [corners |-> [i \in DOMAIN line.corners |-> line.corners[i] - 1],
                mat |-> MaterialFor(Len(file) + 1)]
        BY <2>3, <2>4, <2>6 DEF Face, UseInv
    <2>12. /\ \A k : FaceLines(k)' = FaceLines(k) \cup (IF kk = k THEN {n} ELSE {})
           /\ \A i \in 1..Len(file) : WrittenFace(i)' = WrittenFace(i)
           /\ WrittenFace(n)' = f
        <3>1. Len(file') = n
            BY <2>6, <2>10, TakesALine
        <3> QED BY <2>5, <2>6, <2>8, <2>10, <2>11, <3>1, FaceLinesStay
    <2>13. /\ n \notin 1..Len(file) /\ n \in Nat
           /\ \A i \in 1..Len(file) : ~(n <= i) /\ i <= n
        BY <1>0, <2>10
    <2>14. ASSUME NEW j, NEW i \in FaceLines(j) PROVE PlaceOf(i, j)' = PlaceOf(i, j)
        <3>1. PlaceOf(i, j)' = Cardinality({l \in FaceLines(j)' : l <= i})
            BY DEF PlaceOf
        <3>2. {l \in FaceLines(j)' : l <= i} = {l \in FaceLines(j) : l <= i}
            BY <1>0, <2>12, <2>13
        <3> QED BY <3>1, <3>2 DEF PlaceOf
    <2>15. ASSUME NEW j \in DOMAIN NoSurfaces, j # kk
           PROVE  /\ Len(surfaces'[j]) = Cardinality(FaceLines(j)')
                  /\ \A i \in FaceLines(j)' : surfaces'[j][PlaceOf(i, j)'] = WrittenFace(i)'
        <3>1. surfaces'[j] = surfaces[j] /\ FaceLines(j)' = FaceLines(j)
            BY <2>9, <2>12, <2>15
        <3> QED BY <1>0, <2>12, <2>14, <3>1
    <2>16. PICK size : size = Cardinality(FaceLines(kk))
        OBVIOUS
    <2>17. size \in Nat /\ size = Len(surfaces[kk]) /\ Cardinality(FaceLines(kk)') = size + 1
        <3>1. IsFiniteSet(FaceLines(kk)) /\ n \notin FaceLines(kk)
            BY <1>0, <2>13, LinesAreFinite
        <3>2. Cardinality(FaceLines(kk) \cup {n}) = size + 1
            BY <2>16, <3>1, FS_AddElement
        <3>3. FaceLines(kk)' = FaceLines(kk) \cup {n}
            BY <2>12
        <3>4. size = Len(surfaces[kk])
            BY <1>0, <2>8, <2>16
        <3> QED BY <2>9, <3>2, <3>3, <3>4
    <2>18. /\ Len(surfaces'[kk]) = Cardinality(FaceLines(kk)')
           /\ \A i \in FaceLines(kk)' : surfaces'[kk][PlaceOf(i, kk)'] = WrittenFace(i)'
        <3>1. Len(surfaces'[kk]) = Cardinality(FaceLines(kk)')
            BY <2>9, <2>17
        <3>2. ASSUME NEW i \in FaceLines(kk) PROVE surfaces'[kk][PlaceOf(i, kk)'] = WrittenFace(i)'
            <4>1. PlaceOf(i, kk)' = PlaceOf(i, kk) /\ PlaceOf(i, kk) \in 1..Len(surfaces[kk])
                BY <2>14, <2>16, <2>17, LinesAreFinite
            <4>2. surfaces[kk][PlaceOf(i, kk)] = WrittenFace(i) /\ WrittenFace(i)' = WrittenFace(i)
                BY <1>0, <2>8, <2>12
            <4> QED BY <2>9, <4>1, <4>2
        <3>3. surfaces'[kk][PlaceOf(n, kk)'] = WrittenFace(n)'
            <4>1. PlaceOf(n, kk)' = Cardinality({l \in FaceLines(kk)' : l <= n})
                BY DEF PlaceOf
            <4>2. {l \in FaceLines(kk)' : l <= n} = FaceLines(kk)'
                BY <1>0, <2>12, <2>13
            <4>3. PlaceOf(n, kk)' = Len(surfaces[kk]) + 1
                BY <2>17, <4>1, <4>2
            <4> QED BY <2>9, <2>12, <4>3
        <3>4. \A i \in FaceLines(kk)' : i \in FaceLines(kk) \/ i = n
            BY <2>12
        <3> QED BY <3>1, <3>2, <3>3, <3>4
    <2> QED BY <2>9, <2>15, <2>18
<1>3. CASE ReadIgnored \/ ReadSwallowed \/ ReadVertex \/ ReadUsemtl \/ ReadMtllib \/ EnterLastFace
    <2>1. PICK line \in Lines : /\ Reads(line)
                                /\ line.kind # "f" \/ Swallowed(file', Len(file'))
        BY <1>3, PlainLines
    <2>2. surfaces' = surfaces
        BY <1>3 DEF ReadIgnored, ReadSwallowed, ReadVertex, ReadUsemtl, ReadMtllib, EnterLastFace,
                    meshVars
    <2> QED BY <1>1, <2>1, <2>2
<1>4. CASE ReadNewmtl \/ ReadAttribute \/ ReadIgnoredOfLibrary \/ EndOfLibrary
           \/ LastFaceGoesOn \/ EndOfFile \/ AddPrimitive \/ RemovePrimitive \/ DrawFrame
           \/ UNCHANGED vars
    <2>1. file' = file /\ surfaces' = surfaces
        BY <1>4 DEF ReadNewmtl, ReadAttribute, ReadIgnoredOfLibrary, EndOfLibrary, LastFaceGoesOn,
                    EndOfFile, AddPrimitive, RemovePrimitive, DrawFrame, vars, loaderVars, meshVars
    <2>2. \A i, k : PlaceOf(i, k)' = PlaceOf(i, k)
        BY <2>1, SameFile DEF PlaceOf
    <2> QED BY <1>0, <2>1, <2>2, SameFile
<1> QED
    BY <1>2, <1>3, <1>4 DEF Next, Load, LoadStep

\* Every face of the file is in the mesh, in order.
LEMMA FacesHold ==
    ASSUME ProtoIsNotAsked
    PROVE  Spec => [](LoaderInv /\ OwnInv /\ UseInv /\ FacesAreAsWritten)
<1>1. ShowInit => FacesAreAsWritten
    <2> SUFFICES ASSUME ShowInit PROVE FacesAreAsWritten
        OBVIOUS
    <2>1. file = [i \in 1..vertices |-> [kind |-> "v"]] /\ surfaces = NoSurfaces
        BY DEF ShowInit, Init
    <2>2. \A k : FaceLines(k) = {}
        <3>1. LinesOf("f") = {}
            BY <2>1 DEF LinesOf
        <3> QED BY <3>1 DEF FaceLines
    <2>3. \A k \in DOMAIN NoSurfaces : NoSurfaces[k] = <<>>
        BY DEF NoSurfaces
    <2>4. Cardinality({}) = 0
        BY FS_EmptySet
    <2>5. \A k \in DOMAIN surfaces : Len(surfaces[k]) = Cardinality(FaceLines(k))
        <3> TAKE k \in DOMAIN surfaces
        <3>1. surfaces[k] = <<>> /\ FaceLines(k) = {}
            BY <2>1, <2>2, <2>3
        <3>2. Len(<<>>) = 0
            OBVIOUS
        <3> QED BY <2>4, <3>1, <3>2
    <2> QED BY <2>2, <2>5 DEF FacesAreAsWritten
<1>2. LoaderInv /\ OwnInv /\ UseInv /\ FacesAreAsWritten /\ [Next]_vars
        => (UseInv /\ FacesAreAsWritten)'
    BY UseKeeps, FacesKeep
<1> QED
    BY <1>1, <1>2, UseStarts, OwnInvHolds, PTL DEF Spec

\* FacesAreAsWritten: as long as nothing has broken, the faces of the file are in
\* the vectors of the mesh, all of them, in order, in the material that the last
\* known usemtl asked for.
THEOREM FacesAreRead ==
    ASSUME ProtoIsNotAsked
    PROVE  Spec => []FacesAreAsWritten
BY FacesHold, PTL
-----------------------------------------------------------------------------
(* The test for convexity.                                                 *)

\* More than two elements are three at least.
LEMMA ThreeOfThem ==
    ASSUME NEW S, IsFiniteSet(S), ~(Cardinality(S) <= 2)
    PROVE  \E a, b, c \in S : a # b /\ a # c /\ b # c
<1>1. Cardinality(S) \in Nat
    BY FS_CardinalityType
<1>2. PICK a \in S : TRUE
    BY <1>1, FS_EmptySet
<1>3. IsFiniteSet(S \ {a}) /\ Cardinality(S \ {a}) = Cardinality(S) - 1
    BY <1>2, FS_RemoveElement
<1>4. PICK b \in S \ {a} : TRUE
    BY <1>1, <1>3, FS_EmptySet
<1>5. IsFiniteSet((S \ {a}) \ {b}) /\ Cardinality((S \ {a}) \ {b}) = Cardinality(S) - 2
    <2>1. Cardinality((S \ {a}) \ {b}) = Cardinality(S \ {a}) - 1
        BY <1>3, <1>4, FS_RemoveElement
    <2>2. IsFiniteSet((S \ {a}) \ {b})
        BY <1>3, <1>4, FS_RemoveElement
    <2> QED BY <1>1, <1>3, <2>1, <2>2
<1>6. PICK c \in (S \ {a}) \ {b} : TRUE
    BY <1>1, <1>5, FS_EmptySet
<1> QED BY <1>2, <1>4, <1>6

\* A corner from which the walk turns back is the outermost of all points: the
\* others lie between its two edges.
LEMMA TurningPoint ==
    ASSUME NEW p \in Int \X Int, NEW m \in Int \X Int, NEW q \in Int \X Int, NEW r \in Int \X Int,
           NEW side \in {-1, 1}, NEW x \in {1, 2},
           Turn(p, m, q) * side > 0, Turn(p, m, r) * side > 0, Turn(m, q, r) * side > 0
    PROVE  /\ p[x] < m[x] /\ q[x] <= m[x] => r[x] < m[x]
           /\ p[x] >= m[x] /\ q[x] > m[x] => r[x] > m[x]
<1>0. \A z \in Int \X Int : \E u, v \in Int : z = <<u, v>>
    OBVIOUS
<1>1. PICK a, b \in Int : p = <<a, b>>
    BY <1>0
<1>2. PICK c, d \in Int : m = <<c, d>>
    BY <1>0
<1>3. PICK e, f \in Int : q = <<e, f>>
    BY <1>0
<1>4. PICK g, h \in Int : r = <<g, h>>
    BY <1>0
<1>5. PICK A, B, C \in Int : /\ A = Turn(p, m, q) * side /\ B = Turn(p, m, r) * side
                             /\ C = Turn(m, q, r) * side
    BY <1>1, <1>2, <1>3, <1>4 DEF Turn
<1>6. A > 0 /\ B > 0 /\ C > 0
    BY <1>5
<1>7. /\ A = ((c - a) * (f - b) - (d - b) * (e - a)) * side
      /\ B = ((c - a) * (h - b) - (d - b) * (g - a)) * side
      /\ C = ((e - c) * (h - d) - (f - d) * (g - c)) * side
    BY <1>1, <1>2, <1>3, <1>4, <1>5 DEF Turn
<1>8. /\ A * (g - c) = B * (e - c) + C * (a - c)
      /\ A * (h - d) = B * (f - d) + C * (b - d)
    <2>1. CASE side = 1
        BY <1>7, <2>1
    <2>2. CASE side = -1
        BY <1>7, <2>2
    <2> QED BY <2>1, <2>2
<1>9. ASSUME NEW u \in Int, NEW v \in Int, NEW w \in Int, A * w = B * v + C * u
      PROVE  (u < 0 /\ v <= 0 => w < 0) /\ (u >= 0 /\ v > 0 => w > 0)
    <2>1. A * w \in Int /\ B * v \in Int /\ C * u \in Int
        BY <1>5
    <2>2. (v <= 0 => B * v <= 0) /\ (v > 0 => B * v > 0)
        BY <1>6
    <2>3. (u < 0 => C * u < 0) /\ (u >= 0 => C * u >= 0)
        BY <1>6
    <2>4. (w >= 0 => A * w >= 0) /\ (w <= 0 => A * w <= 0)
        BY <1>6
    <2> QED BY <1>9, <2>1, <2>2, <2>3, <2>4
<1>10. (a - c < 0 /\ e - c <= 0 => g - c < 0) /\ (a - c >= 0 /\ e - c > 0 => g - c > 0)
    <2>1. PICK u, v, w \in Int : u = a - c /\ v = e - c /\ w = g - c
        OBVIOUS
    <2>2. A * w = B * v + C * u
        BY <1>8, <2>1
    <2> QED BY <1>9, <2>1, <2>2
<1>11. (b - d < 0 /\ f - d <= 0 => h - d < 0) /\ (b - d >= 0 /\ f - d > 0 => h - d > 0)
    <2>1. PICK u, v, w \in Int : u = b - d /\ v = f - d /\ w = h - d
        OBVIOUS
    <2>2. A * w = B * v + C * u
        BY <1>8, <2>1
    <2> QED BY <1>9, <2>1, <2>2
<1>12. CASE x = 1
    BY <1>1, <1>2, <1>3, <1>4, <1>10, <1>12
<1>13. CASE x = 2
    BY <1>1, <1>2, <1>3, <1>4, <1>11, <1>13
<1> QED BY <1>12, <1>13

\* A strictly convex polygon passes the test, however many corners it has: along
\* each axis the walk turns back at most twice, since of three corners where it
\* does two are on the same side, and each would be farther out than the other.
THEOREM ConvexPolygonsPass ==
    ASSUME NEW p, NEW N \in Nat, Len(p) = N, \A i \in 1..N : p[i] \in Int \X Int,
           StrictlyConvex(p)
    PROVE  IsPolygonConvex(p)
<1> SUFFICES ASSUME N >= 4 PROVE IsPolygonConvex(p)
    BY DEF IsPolygonConvex
<1>1. PICK side \in {-1, 1} : \A i, k \in 1..N :
            k \notin {i, Following(p, i)} => Turn(p[i], p[Following(p, i)], p[k]) * side > 0
    BY DEF StrictlyConvex
<1> DEFINE Preceding(i) == IF i = 1 THEN N ELSE i - 1
<1>2. \A i \in 1..N : /\ Preceding(i) \in 1..N /\ Following(p, Preceding(i)) = i
                      /\ Preceding(i) # i
                      /\ Following(p, i) \in 1..N /\ Preceding(Following(p, i)) = i
                      /\ Following(p, i) # i /\ Following(p, i) # Preceding(i)
    BY DEF Following
<1> HIDE DEF Preceding
<1> DEFINE Outermost(i, x) == p[Preceding(i)][x] < p[i][x] /\ p[Following(p, i)][x] <= p[i][x]
           Innermost(i, x) == p[Preceding(i)][x] >= p[i][x] /\ p[Following(p, i)][x] > p[i][x]
<1>3. ASSUME NEW x \in {1, 2}, NEW i \in 1..N, NEW k \in 1..N, k \notin {i, Preceding(i), Following(p, i)}
      PROVE  /\ Outermost(i, x) => p[k][x] < p[i][x]
             /\ Innermost(i, x) => p[k][x] > p[i][x]
    <2>1. PICK a, b \in 1..N : a = Preceding(i) /\ b = Following(p, i)
        BY <1>2
    <2>2. /\ Turn(p[a], p[i], p[b]) * side > 0 /\ Turn(p[a], p[i], p[k]) * side > 0
          /\ Turn(p[i], p[b], p[k]) * side > 0
        BY <1>1, <1>2, <1>3, <2>1
    <2>3. /\ p[a][x] < p[i][x] /\ p[b][x] <= p[i][x] => p[k][x] < p[i][x]
          /\ p[a][x] >= p[i][x] /\ p[b][x] > p[i][x] => p[k][x] > p[i][x]
        BY ZenonT(40), <2>2, TurningPoint
    <2> QED BY <2>1, <2>3
<1>4. \A x \in {1, 2}, i \in 1..N : p[i][x] \in Int
    OBVIOUS
<1>5. ASSUME NEW x \in {1, 2}, NEW i \in 1..N, NEW k \in 1..N, i # k
      PROVE  ~(Outermost(i, x) /\ Outermost(k, x)) /\ ~(Innermost(i, x) /\ Innermost(k, x))
    <2>1. p[i][x] \in Int /\ p[k][x] \in Int
        BY <1>4
    <2>2. CASE k = Following(p, i)
        <3>1. Preceding(k) = i
            BY <1>2, <2>2
        <3> QED BY SMTT(40), <2>1, <2>2, <3>1
    <2>3. CASE k = Preceding(i)
        <3>1. Following(p, k) = i
            BY <1>2, <2>3
        <3> QED BY SMTT(40), <2>1, <2>3, <3>1
    <2>4. CASE k \notin {Preceding(i), Following(p, i)}
        <3>1. i \notin {k, Preceding(k), Following(p, k)}
            BY <1>2, <1>5, <2>4
        <3>2. PICK u, v \in Int : u = p[i][x] /\ v = p[k][x]
            BY <2>1
        <3> HIDE DEF Outermost, Innermost
        <3>3. (Outermost(i, x) => v < u) /\ (Innermost(i, x) => v > u)
            BY <1>3, <1>5, <2>4, <3>2
        <3>4. (Outermost(k, x) => u < v) /\ (Innermost(k, x) => u > v)
            BY <1>3, <3>1, <3>2
        <3> QED BY <3>3, <3>4
    <2> QED BY <2>2, <2>3, <2>4
<1>6. ASSUME NEW x \in {1, 2} PROVE Changes(p, x) <= 2
    <2> DEFINE S == {i \in 2..N : Sign(Step(p, i, x)) # Sign(Step(p, i-1, x))}
    <2>1. ASSUME NEW i \in S PROVE i - 1 \in 1..N /\ (Outermost(i - 1, x) \/ Innermost(i - 1, x))
        <3>1. PICK j \in 1..N : j = i - 1 /\ i \in 2..N
            OBVIOUS
        <3>2. Following(p, j) = i
            BY <3>1 DEF Following
        <3>3. PICK u, v, w \in Int : u = p[Preceding(j)][x] /\ v = p[j][x] /\ w = p[i][x]
            <4>1. Preceding(j) \in 1..N /\ i \in 1..N
                BY <1>2, <3>1
            <4> QED BY <1>4, <3>1, <4>1
        <3>4. Step(p, j, x) = p[Preceding(j)][x] - p[j][x]
            BY <3>1 DEF Step, Preceding
        <3>5. Step(p, i, x) = p[j][x] - p[i][x]
            BY <3>1 DEF Step
        <3>6. Sign(Step(p, i, x)) # Sign(Step(p, j, x))
            BY <3>1
        <3>7. \/ p[Preceding(j)][x] < p[j][x] /\ p[i][x] <= p[j][x]
              \/ p[Preceding(j)][x] >= p[j][x] /\ p[i][x] > p[j][x]
            <4>1. Sign(v - w) # Sign(u - v)
                BY <3>3, <3>4, <3>5, <3>6
            <4>2. (u < v /\ w <= v) \/ (u >= v /\ w > v)
                BY <4>1 DEF Sign
            <4> QED BY <3>3, <4>2
        <3> QED BY <3>1, <3>2, <3>7
    <2>2. IsFiniteSet(S)
        <3>1. IsFiniteSet(2..N)
            BY FS_Interval
        <3> QED BY <3>1, FS_Subset
    <2>3. \A i \in S : i \in Int
        OBVIOUS
    <2> HIDE DEF S
    <2>4. SUFFICES ASSUME ~(Cardinality(S) <= 2) PROVE FALSE
        BY DEF Changes, S
    <2>5. PICK a, b, c \in S : a # b /\ a # c /\ b # c
        BY <2>2, <2>4, ThreeOfThem
    <2>6. a - 1 # b - 1 /\ a - 1 # c - 1 /\ b - 1 # c - 1
        BY <2>3, <2>5
    <2> HIDE DEF Outermost, Innermost
    <2> QED BY <1>5, <2>1, <2>5, <2>6
<1> QED
    BY <1>6 DEF IsPolygonConvex
-----------------------------------------------------------------------------
(* From the lines of the file to the screen.                               *)

\* A face in the vectors wears the material that its usemtl line gives it.
LEMMA WornAsWritten ==
    ASSUME LoaderInv, OwnInv, DescriptionInv, NEW at \in Held
    PROVE  Values(MaterialAt(at)) = IF at = <<0, 0>> THEN Values(Proto)
                                    ELSE AsWritten(file[at[1]].lib, at[2])
<1>1. PICK j \in DOMAIN materials : MaterialAt(at) = materials[j]
    BY MaterialIsThere
<1>2. materials[j].at = at
    BY <1>1, MaterialIsThere
<1>3. j = 1 \/ j \in 2..Len(materials)
    BY DEF LoaderInv
<1>4. CASE j = 1
    <2>1. materials[1] = Proto /\ Proto.at = <<0, 0>>
        BY DEF OwnInv, Proto
    <2> QED BY <1>1, <1>2, <1>4, <2>1
<1>5. CASE j \in 2..Len(materials)
    <2>1. at \in Definitions
        BY <1>2, <1>5 DEF OwnInv, EachDefined, Made
    <2>2. at # <<0, 0>>
        BY <2>1, TheDefinitions
    <2>3. IsAsWritten(materials[j])
        BY <1>5 DEF DescriptionInv
    <2> QED BY <1>1, <1>2, <2>2, <2>3 DEF IsAsWritten
<1> QED
    BY <1>3, <1>4, <1>5

\* ConvexFacesAreShown: a strictly convex face of a file that is shown passes
\* the test, is in one of the three vectors that are drawn, and is drawn in the
\* material its usemtl line gives it, with what the library says of it.
THEOREM ConvexFacesReachTheScreen ==
    ASSUME ProtoIsNotAsked
    PROVE  Spec => ConvexFacesAreShown
<1>1. ASSUME TypeInv, OwnInv, DescriptionInv, FacesAreAsWritten, FaultInv, [Next]_vars,
             frame' # frame,
             NEW i \in LinesOf("f"),
             LET face == WrittenFace(i)
                 points == [k \in DOMAIN face.corners |-> Points[face.corners[k] + 1]]
             IN  StrictlyConvex(points)
      PROVE  LET face == WrittenFace(i)
                 lib == file[face.mat[1]].lib
                 values == IF face.mat = <<0, 0>> THEN Values(Proto) ELSE AsWritten(lib, face.mat[2])
             IN  [corners |-> face.corners, with |-> values] \in shown'
    <2>1. PICK face : face = WrittenFace(i)
        OBVIOUS
    <2>2. PICK points : points = [k \in DOMAIN face.corners |-> Points[face.corners[k] + 1]]
        OBVIOUS
    <2>3. LoaderInv /\ StrictlyConvex(points)
        BY <1>1, <2>1, <2>2 DEF TypeInv
    <2>4. DrawFrame
        BY <1>1 DEF Next, Load, AddPrimitive, RemovePrimitive, vars, showVars, glVars
    <2>5. ~broken
        BY <2>3, <2>4 DEF DrawFrame, LoaderInv
    <2>6. IsPolygonConvex(points)
        <3>1. PICK c : c = file[i].corners
            OBVIOUS
        <3>2. c \in Faces
            <4>1. file[i] \in Lines /\ file[i].kind = "f"
                BY <1>1, <2>3, ElementOfSeq DEF LoaderInv, LinesOf
            <4> QED BY <3>1, <4>1 DEF Lines
        <3>3. c \in Seq(Int) /\ Len(c) \in Nat /\ DOMAIN c = 1..Len(c)
            BY <3>2, FacesAssumption
        <3>4. face.corners = [k \in DOMAIN c |-> c[k] - 1]
            BY <2>1, <3>1 DEF WrittenFace
        <3>5. DOMAIN points = 1..Len(c) /\ Len(points) = Len(c)
            BY <2>2, <3>3, <3>4
        <3>6. ASSUME NEW k \in 1..Len(c) PROVE points[k] \in Int \X Int
            <4>1. c[k] \in 1..vertices /\ vertices \in 0..Len(Points) /\ Len(Points) \in Nat
                BY <1>1, <2>3, <2>5, <3>1, <3>3, CornersAreThere, PointsAssumption DEF LoaderInv
            <4>2. points[k] = Points[c[k]]
                BY <2>2, <3>3, <3>4, <4>1
            <4>3. c[k] \in 1..Len(Points)
                BY <4>1
            <4> QED BY <4>2, <4>3, PointsAssumption, ElementOfSeq
        <3> QED BY <2>3, <3>3, <3>5, <3>6, ConvexPolygonsPass
    <2>7. PICK kk \in {"triangles", "quads", "polygons"} : kk = Kind(face.corners)
        BY <2>2, <2>6 DEF Kind
    <2>8. i \in FaceLines(kk)
        BY <1>1, <2>1, <2>7 DEF FaceLines
    <2>9. PICK p \in 1..Len(surfaces[kk]) : surfaces[kk][p] = face
        <3>1. kk \in DOMAIN surfaces
            BY <2>3 DEF LoaderInv, NoSurfaces
        <3>2. /\ Len(surfaces[kk]) = Cardinality(FaceLines(kk))
              /\ surfaces[kk][PlaceOf(i, kk)] = face
            BY <1>1, <2>1, <2>5, <2>8, <3>1 DEF FacesAreAsWritten
        <3>3. PlaceOf(i, kk) \in 1..Len(surfaces[kk])
            BY <2>3, <2>8, <3>2, LinesAreFinite
        <3> QED BY <3>2, <3>3
    <2>10. face.mat \in Held
        BY <2>3, <2>7, <2>9 DEF LoaderInv, NoSurfaces
    <2>11. PICK d \in 1..Len(Drawn) : Drawn[d] = face
        BY <2>3, <2>9, DrawnIsASequence
    <2>12. [corners |-> face.corners, with |-> Values(MaterialAt(face.mat))] \in shown'
        BY <1>1, <2>4, <2>11, FrameDraws
    <2>13. Values(MaterialAt(face.mat)) = IF face.mat = <<0, 0>> THEN Values(Proto)
                                          ELSE AsWritten(file[face.mat[1]].lib, face.mat[2])
        BY <1>1, <2>3, <2>10, WornAsWritten
    <2> QED BY <2>1, <2>12, <2>13
<1>2. ASSUME TypeInv, OwnInv, DescriptionInv, FacesAreAsWritten, FaultInv, [Next]_vars
      PROVE  [frame' # frame =>
                \A i \in LinesOf("f") :
                    LET face == WrittenFace(i)
                        points == [k \in DOMAIN face.corners |-> Points[face.corners[k] + 1]]
                        lib == file[face.mat[1]].lib
                        values == IF face.mat = <<0, 0>> THEN Values(Proto)
                                  ELSE AsWritten(lib, face.mat[2])
                    IN  StrictlyConvex(points)
                            => [corners |-> face.corners, with |-> values] \in shown']_vars
    BY <1>1, <1>2
<1> QED
    BY <1>2, FacesHold, FaultInvHolds, TypeInvHolds, DescriptionHolds, PTL
       DEF Spec, ConvexFacesAreShown
-----------------------------------------------------------------------------
(* How many faces there are.                                               *)

\* The recursive function of FlattenSeq exists and obeys its equation.
LEMMA FlattenRecursion ==
    ASSUME NEW seqs, Len(seqs) \in Nat \ {0}
    PROVE  \E flat :
             /\ FlattenSeq(seqs) = flat[Len(seqs)]
             /\ flat[1] = seqs[1]
             /\ \A k \in 2..Len(seqs) : flat[k] = flat[k-1] \o seqs[k]
<1> DEFINE N == Len(seqs)
           Row(f, k) == IF k = 1 THEN seqs[k] ELSE f[k-1] \o seqs[k]
           Good(f, n) == f = [k \in 1..n |-> Row(f, k)]
           Bad == {n \in 1..N : \A f : ~Good(f, n)}
<1>0. N \in Nat /\ N # 0
    OBVIOUS
<1> HIDE DEF N
<1>1. Bad = {}
    <2>1. SUFFICES ASSUME Bad # {} PROVE FALSE
        OBVIOUS
    <2>2. PICK n \in Bad : \A k \in Bad : n <= k
        <3>1. Bad \in SUBSET Nat
            <4> HIDE DEF Good
            <4> QED BY <1>0
        <3> HIDE DEF Bad
        <3> QED BY <2>1, <3>1, LeastNatural
    <2>3. n \in 1..N /\ n \in Nat /\ n # 0 /\ \A f : ~Good(f, n)
        <3> HIDE DEF Good
        <3> QED BY <1>0
    <2>4. \E f : n = 1 \/ Good(f, n - 1)
        <3>1. SUFFICES ASSUME n # 1 PROVE n - 1 \notin Bad /\ n - 1 \in 1..N
            OBVIOUS
        <3>2. n - 1 \in 1..N /\ ~(n <= n - 1) BY <1>0, <2>3, <3>1
        <3> HIDE DEF Bad
        <3> QED BY <2>2, <3>2
    <2>5. PICK f : n = 1 \/ Good(f, n - 1) BY <2>4
    <2> HIDE DEF Bad
    <2> DEFINE g == [k \in 1..n |-> IF k = n THEN Row(f, n) ELSE f[k]]
    <2>6. ASSUME NEW k \in 1..n PROVE g[k] = Row(g, k)
        <3>1. Row(g, k) = Row(f, k)
            <4>1. k # 1 => k - 1 \in 1..n /\ k - 1 # n BY <2>3
            <4>2. k # 1 => g[k-1] = f[k-1] BY <4>1
            <4> HIDE DEF g
            <4> QED BY <4>2
        <3>2. g[k] = Row(f, k)
            <4>1. k # n => n # 1 /\ k \in 1..(n-1) BY <2>3
            <4> HIDE DEF Row
            <4> QED BY <2>5, <4>1
        <3> HIDE DEF g, Row
        <3> QED BY <3>1, <3>2
    <2>7. Good(g, n)
        <3>1. g = [k \in 1..n |-> g[k]]
            OBVIOUS
        <3> HIDE DEF g, Row
        <3> QED BY <2>6, <3>1
    <2> HIDE DEF Good
    <2> QED BY <2>3, <2>7
<1> DEFINE flat == CHOOSE f : Good(f, N)
<1>2. Good(flat, N)
    <2>1. N \in 1..N BY <1>0
    <2> HIDE DEF Good
    <2> QED BY <1>1, <2>1
<1>3. FlattenSeq(seqs) = flat[N]
    BY <1>0 DEF FlattenSeq, N
<1> HIDE DEF flat
<1>4. flat[1] = seqs[1]
    BY <1>0, <1>2
<1>5. ASSUME NEW k \in 2..N PROVE flat[k] = flat[k-1] \o seqs[k]
    <2>1. k \in 1..N /\ k # 1 BY <1>0
    <2>2. flat[k] = Row(flat, k)
        <3> HIDE DEF Row
        <3> QED BY <1>2, <2>1
    <2> QED BY <2>1, <2>2
<1> QED BY <1>3, <1>4, <1>5 DEF N

\* Pairs laid end to end are twice as many elements, and these are theirs.
LEMMA FlattenedPairs ==
    ASSUME NEW S, NEW seqs, Len(seqs) \in Nat,
           \A k \in 1..Len(seqs) : seqs[k] \in Seq(S) /\ Len(seqs[k]) = 2
    PROVE  /\ FlattenSeq(seqs) \in Seq(S)
           /\ Len(FlattenSeq(seqs)) = 2 * Len(seqs)
           /\ \A x : x \in ToSet(FlattenSeq(seqs))
                        <=> \E k \in 1..Len(seqs) : x = seqs[k][1] \/ x = seqs[k][2]
<1> DEFINE N == Len(seqs)
<1>1. CASE N = 0
    BY <1>1 DEF FlattenSeq, ToSet
<1>2. CASE N # 0
    <2>1. PICK flat : /\ FlattenSeq(seqs) = flat[N] /\ flat[1] = seqs[1]
                      /\ \A k \in 2..N : flat[k] = flat[k-1] \o seqs[k]
        BY <1>2, FlattenRecursion
    <2>2. N \in Nat \ {0} /\ \A k \in 1..N : seqs[k] \in Seq(S) /\ Len(seqs[k]) = 2
        BY <1>2
    <2> HIDE DEF N
    <2> DEFINE Among(x, k) == \E j \in 1..k : x = seqs[j][1] \/ x = seqs[j][2]
               Right(k) == /\ flat[k] \in Seq(S) /\ Len(flat[k]) = 2 * k
                           /\ \A x : (\E i \in 1..(2 * k) : flat[k][i] = x) <=> Among(x, k)
               Bad == {k \in 1..N : ~Right(k)}
    <2>3. Right(1)
        <3>1. 1 \in 1..N BY <2>2
        <3>2. \A x : Among(x, 1) <=> x = seqs[1][1] \/ x = seqs[1][2]
            OBVIOUS
        <3>3. 1..(2 * 1) = {1, 2}
            OBVIOUS
        <3> HIDE DEF Among
        <3> QED BY <2>1, <2>2, <3>1, <3>2, <3>3
    <2>4. ASSUME NEW k \in 2..N, Right(k-1) PROVE Right(k)
        <3>1. PICK a, b : a = flat[k-1] /\ b = seqs[k]
            OBVIOUS
        <3>2. k \in 1..N /\ k \in Nat /\ k - 1 \in Nat BY <2>2
        <3>3. a \in Seq(S) /\ b \in Seq(S) /\ Len(a) = 2 * (k - 1) /\ Len(b) = 2
            BY <2>2, <2>4, <3>1, <3>2
        <3>4. flat[k] = a \o b
            BY <2>1, <3>1
        <3>5. PICK c : c = a \o b
            OBVIOUS
        <3>6. /\ c \in Seq(S) /\ Len(c) = Len(a) + Len(b)
              /\ \A i \in 1..(Len(a) + Len(b)) :
                    c[i] = IF i <= Len(a) THEN a[i] ELSE b[i - Len(a)]
            BY <3>3, <3>5, ConcatProperties
        <3>7. Len(c) = 2 * k
            BY <3>2, <3>3, <3>6
        <3>8. /\ \A i \in 1..(2 * (k - 1)) : i \in 1..(2 * k) /\ c[i] = a[i]
              /\ 2 * k - 1 \in 1..(2 * k) /\ c[2 * k - 1] = b[1]
              /\ 2 * k \in 1..(2 * k) /\ c[2 * k] = b[2]
              /\ \A i \in 1..(2 * k) : i \in 1..(2 * (k - 1)) \/ i = 2 * k - 1 \/ i = 2 * k
            <4>1. PICK z : z = 2 * (k - 1)
                OBVIOUS
            <4>2. /\ z \in Nat /\ 2 * k = z + 2 /\ 2 * k - 1 = z + 1
                  /\ Len(a) = z /\ Len(b) = 2 /\ Len(a) + Len(b) = z + 2
                BY <3>2, <3>3, <4>1
            <4>3. \A i \in 1..(z + 2) : c[i] = IF i <= z THEN a[i] ELSE b[i - z]
                BY <3>6, <4>2
            <4>4. \A i \in 1..z : i \in 1..(z + 2) /\ c[i] = a[i]
                BY <4>2, <4>3
            <4>5. /\ z + 1 \in 1..(z + 2) /\ z + 2 \in 1..(z + 2)
                  /\ ~(z + 1 <= z) /\ ~(z + 2 <= z) /\ (z + 1) - z = 1 /\ (z + 2) - z = 2
                BY <4>2
            <4>6. c[z + 1] = b[1] /\ c[z + 2] = b[2]
                BY <4>3, <4>5
            <4>7. \A i \in 1..(z + 2) : i \in 1..z \/ i = z + 1 \/ i = z + 2
                BY <4>2
            <4> QED BY <4>1, <4>2, <4>4, <4>5, <4>6, <4>7
        <3>9. \A x : (\E i \in 1..(2 * k) : c[i] = x)
                        <=> (\E i \in 1..(2 * (k - 1)) : a[i] = x) \/ x = b[1] \/ x = b[2]
            BY <3>8
        <3>10. \A x : Among(x, k) <=> Among(x, k - 1) \/ x = b[1] \/ x = b[2]
            <4>1. \A j : j \in 1..k <=> j \in 1..(k - 1) \/ j = k
                BY <3>2
            <4> QED BY <3>1, <4>1
        <3>11. \A x : (\E i \in 1..(2 * (k - 1)) : a[i] = x) <=> Among(x, k - 1)
            BY <2>4, <3>1
        <3>12. \A x : (\E i \in 1..(2 * k) : c[i] = x) <=> Among(x, k)
            <4> HIDE DEF Among
            <4> QED BY <3>9, <3>10, <3>11
        <3> HIDE DEF Among
        <3> QED BY <3>4, <3>5, <3>6, <3>7, <3>12
    <2>5. Bad = {}
        <3>1. SUFFICES ASSUME Bad # {} PROVE FALSE
            OBVIOUS
        <3>2. PICK k \in Bad : \A j \in Bad : k <= j
            <4>1. Bad \in SUBSET Nat BY <2>2
            <4> HIDE DEF Bad
            <4> QED BY <3>1, <4>1, LeastNatural
        <3>3. k \in 1..N /\ ~Right(k)
            OBVIOUS
        <3> HIDE DEF Right
        <3>4. k \in 2..N /\ k - 1 \in 1..N /\ ~(k <= k - 1)
            BY <2>2, <2>3, <3>3
        <3>5. k - 1 \notin Bad
            <4> HIDE DEF Bad
            <4> QED BY <3>2, <3>4
        <3> QED BY <2>4, <3>3, <3>4, <3>5
    <2>6. Right(N)
        <3>1. N \in 1..N BY <2>2
        <3> HIDE DEF Right
        <3> QED BY <2>5, <3>1
    <2>7. PICK t : t = FlattenSeq(seqs) /\ t = flat[N]
        BY <2>1
    <2>8. /\ t \in Seq(S) /\ Len(t) = 2 * N
          /\ \A x : (\E i \in 1..(2 * N) : t[i] = x) <=> Among(x, N)
        BY <2>6, <2>7
    <2>9. \A x : x \in ToSet(t) <=> \E i \in 1..(2 * N) : t[i] = x
        <3>1. DOMAIN t = 1..(2 * N) BY <2>8
        <3> QED BY <3>1 DEF ToSet
    <2>10. \A x : x \in ToSet(t) <=> Among(x, N)
        <3> HIDE DEF Among
        <3> QED BY <2>8, <2>9
    <2> QED BY <2>7, <2>8, <2>10 DEF N
<1> QED
    BY <1>1, <1>2

\* What division leaves.
LEMMA Division ==
    ASSUME NEW s \in Nat \ {0}, NEW x \in Nat
    PROVE  \E q \in Int, r \in 0..(s-1) : q = x \div s /\ r = x % s /\ x = s * q + r
    BY Z3

\* A number below m * n is one of n * i + j, and the division finds i and j.
LEMMA RowAndColumn ==
    ASSUME NEW m \in Nat, NEW n \in Nat \ {0}
    PROVE  /\ m * n \in Nat
           /\ \A x \in 0..(m * n - 1) : x \div n \in 0..(m-1) /\ x % n \in 0..(n-1)
           /\ \A i \in 0..(m-1), j \in 0..(n-1) :
                 /\ n * i + j \in 0..(m * n - 1)
                 /\ (n * i + j) \div n = i /\ (n * i + j) % n = j
<1>1. m * n \in Nat
    OBVIOUS
<1>2. ASSUME NEW x \in 0..(m * n - 1)
      PROVE  x \div n \in 0..(m-1) /\ x % n \in 0..(n-1)
    <2>1. x \in Nat /\ x < m * n
        BY <1>1
    <2>2. PICK q \in Int, r \in 0..(n-1) : q = x \div n /\ r = x % n /\ x = n * q + r
        BY <2>1, Division
    <2>3. q \in 0..(m-1)
        <3>1. q < 0 => n * q <= -n
            BY <2>2, Z3
        <3>2. q >= m => n * q >= n * m
            BY <2>2, Z3
        <3>3. n * q \in Int /\ n * m \in Int /\ n * m = m * n
            BY <2>2
        <3> QED BY <2>1, <2>2, <3>1, <3>2, <3>3
    <2> QED BY <2>2, <2>3
<1>3. ASSUME NEW i \in 0..(m-1), NEW j \in 0..(n-1)
      PROVE  /\ n * i + j \in 0..(m * n - 1)
             /\ (n * i + j) \div n = i /\ (n * i + j) % n = j
    <2>1. i \in Nat /\ j \in Nat /\ n * i \in Nat
        OBVIOUS
    <2>2. PICK x \in Nat : x = n * i + j
        BY <2>1
    <2>3. PICK q \in Int, r \in 0..(n-1) : q = x \div n /\ r = x % n /\ x = n * q + r
        BY Division
    <2>4. /\ q > i => n * q >= n * i + n
          /\ q < i => n * i >= n * q + n
        BY <2>1, <2>3, Z3
    <2>5. n * q \in Int
        BY <2>3
    <2>6. q = i /\ r = j
        BY <2>1, <2>2, <2>3, <2>4, <2>5
    <2>7. n * i + n <= m * n
        BY <2>1, Z3
    <2>8. x <= m * n - 1
        BY <1>1, <2>1, <2>2, <2>7
    <2> QED BY <1>1, <2>2, <2>3, <2>6, <2>8
<1> QED
    BY <1>1, <1>2, <1>3

\* The strips are the pairs of all segments.
LEMMA StripsAre ==
    ASSUME NEW m \in Nat, NEW n \in Nat \ {0}, NEW segment,
           \A i \in 0..(m-1), j \in 0..(n-1) : \E a, b : segment[i][j] = <<a, b>>
    PROVE  /\ Len(Strips(m, n, segment)) = 2 * (m * n)
           /\ IsFiniteSet(ToSet(Strips(m, n, segment)))
           /\ \A f : f \in ToSet(Strips(m, n, segment))
                        <=> \E i \in 0..(m-1), j \in 0..(n-1) :
                               f = segment[i][j][1] \/ f = segment[i][j][2]
<1> DEFINE seqs == [k \in 1..(m * n) |-> segment[(k - 1) \div n][(k - 1) % n]]
           S == UNION {{seqs[k][1], seqs[k][2]} : k \in 1..(m * n)}
<1>1. m * n \in Nat /\ \A k \in 1..(m * n) : k - 1 \in 0..(m * n - 1)
    BY RowAndColumn
<1>2. ASSUME NEW k \in 1..(m * n) PROVE seqs[k] \in Seq(S) /\ Len(seqs[k]) = 2
    <2>1. (k - 1) \div n \in 0..(m-1) /\ (k - 1) % n \in 0..(n-1)
        BY <1>1, RowAndColumn
    <2>2. PICK a, b : segment[(k - 1) \div n][(k - 1) % n] = <<a, b>>
        BY <2>1
    <2>3. seqs[k] = <<a, b>>
        BY <2>2
    <2> HIDE DEF seqs
    <2>4. a \in S /\ b \in S
        BY <2>3
    <2> HIDE DEF S
    <2> QED BY <2>3, <2>4
<1>3. Len(seqs) = m * n
    BY <1>1
<1>4. Strips(m, n, segment) = FlattenSeq(seqs)
    BY DEF Strips
<1>5. ASSUME NEW f
      PROVE  (\E k \in 1..(m * n) : f = seqs[k][1] \/ f = seqs[k][2])
                <=> \E i \in 0..(m-1), j \in 0..(n-1) :
                       f = segment[i][j][1] \/ f = segment[i][j][2]
    <2>1. ASSUME NEW k \in 1..(m * n)
          PROVE  \E i \in 0..(m-1), j \in 0..(n-1) : seqs[k] = segment[i][j]
        <3>1. (k - 1) \div n \in 0..(m-1) /\ (k - 1) % n \in 0..(n-1)
            BY <1>1, RowAndColumn
        <3> QED BY <3>1
    <2>2. ASSUME NEW i \in 0..(m-1), NEW j \in 0..(n-1)
          PROVE  \E k \in 1..(m * n) : seqs[k] = segment[i][j]
        <3>1. PICK x : x = n * i + j
            OBVIOUS
        <3>2. x \in 0..(m * n - 1) /\ x \div n = i /\ x % n = j
            BY <3>1, RowAndColumn
        <3>3. x + 1 \in 1..(m * n) /\ (x + 1) - 1 = x
            BY <1>1, <3>2
        <3>4. seqs[x + 1] = segment[i][j]
            BY <3>2, <3>3
        <3> HIDE DEF seqs
        <3> QED BY <3>3, <3>4
    <2> HIDE DEF seqs
    <2>3. ASSUME NEW k \in 1..(m * n), f = seqs[k][1] \/ f = seqs[k][2]
          PROVE  \E i \in 0..(m-1), j \in 0..(n-1) : f = segment[i][j][1] \/ f = segment[i][j][2]
        <3>1. PICK i \in 0..(m-1), j \in 0..(n-1) : seqs[k] = segment[i][j]
            BY <2>1
        <3> QED BY <2>3, <3>1
    <2>4. ASSUME NEW i \in 0..(m-1), NEW j \in 0..(n-1), f = segment[i][j][1] \/ f = segment[i][j][2]
          PROVE  \E k \in 1..(m * n) : f = seqs[k][1] \/ f = seqs[k][2]
        <3>1. PICK k \in 1..(m * n) : seqs[k] = segment[i][j]
            BY <2>2
        <3> QED BY <2>4, <3>1
    <2> QED BY <2>3, <2>4
<1> HIDE DEF seqs, S
<1>6. /\ FlattenSeq(seqs) \in Seq(S) /\ Len(FlattenSeq(seqs)) = 2 * (m * n)
      /\ \A x : x \in ToSet(FlattenSeq(seqs))
                   <=> \E k \in 1..(m * n) : x = seqs[k][1] \/ x = seqs[k][2]
    BY <1>1, <1>2, <1>3, FlattenedPairs
<1>7. PICK t : t = FlattenSeq(seqs)
    OBVIOUS
<1>8. IsFiniteSet(ToSet(t))
    <2>1. PICK l \in Nat : l = Len(t) /\ t \in [1..l -> ToSet(t)]
        BY <1>6, <1>7 DEF ToSet
    <2>2. t \in Surjection(1..l, ToSet(t))
        BY <2>1 DEF Surjection, ToSet
    <2>3. IsFiniteSet(1..l)
        BY FS_Interval
    <2> QED BY <2>2, <2>3, FS_Surjection
<1> QED
    BY <1>4, <1>5, <1>6, <1>7, <1>8

\* A primitive has two triangles for every segment, and a cube six quads.
LEMMA PrimitiveIsASequence ==
    ASSUME NEW p \in Shapes \cup {NoShape}
    PROVE  Len(FacesOf(p)) \in Nat
<1>1. ASSUME NEW m \in Nat, NEW n \in Nat \ {0}, NEW segment,
             \A i \in 0..(m-1), j \in 0..(n-1) :
                 \E a, b : segment[i][j] = <<a, b>>
      PROVE  Len(Strips(m, n, segment)) = 2 * (m * n)
    BY <1>1, StripsAre
<1>2. CASE p = NoShape
    BY <1>2 DEF NoShape, FacesOf
<1>3. CASE p \in Shapes /\ p.shape = "cube"
    BY <1>3 DEF FacesOf, CubeQuads
<1>4. CASE p \in Shapes /\ p.shape = "torus"
    <2>1. p.m \in Nat \ {0} /\ p.n \in Nat \ {0} /\ Rings(p.n) = p.n + 1
        BY <1>4, ShapesAssumption DEF Rings
    <2> DEFINE Point(i, j) == <<i % p.m, j % p.n>>
               segment == [i \in 0..(p.m-1) |-> [j \in 0..p.n |->
                   Segment(Point(i, j), Point(i+1, j), Point(i, j+1), Point(i+1, j+1))]]
    <2>2. Len(TorusTriangles(p.m, p.n)) = 2 * (p.m * (p.n + 1))
        <3>1. TorusTriangles(p.m, p.n) = Strips(p.m, p.n + 1, segment)
            BY <2>1 DEF TorusTriangles
        <3>2. \A i \in 0..(p.m-1), j \in 0..((p.n + 1)-1) : \E a, b : segment[i][j] = <<a, b>>
            <4> TAKE i \in 0..(p.m-1), j \in 0..((p.n + 1)-1)
            <4>1. j \in 0..p.n
                BY <2>1
            <4> HIDE DEF Point
            <4>2. segment[i][j] = Segment(Point(i, j), Point(i+1, j), Point(i, j+1), Point(i+1, j+1))
                BY <4>1
            <4> QED BY <4>2 DEF Segment
        <3> HIDE DEF segment
        <3>3. PICK m \in Nat, n \in Nat \ {0} : m = p.m /\ n = p.n + 1
            BY <2>1
        <3>4. Len(Strips(m, n, segment)) = 2 * (m * n)
            BY <1>1, <3>2, <3>3
        <3> QED BY <3>1, <3>3, <3>4
    <2>3. 2 * (p.m * (p.n + 1)) \in Nat
        BY <2>1
    <2> QED BY <1>4, <2>2, <2>3 DEF FacesOf
<1>5. CASE p \in Shapes /\ p.shape = "sphere"
    <2>1. p.m \in Nat \ {0} /\ p.n \in Nat \ {0}
        BY <1>5, ShapesAssumption
    <2>2. Len(SphereTriangles(p.m, p.n)) = 2 * (p.n * p.m)
        BY <1>1, <2>1 DEF SphereTriangles, Segment
    <2>3. 2 * (p.n * p.m) \in Nat
        BY <2>1
    <2> QED BY <1>5, <2>2, <2>3 DEF FacesOf
<1> QED
    BY <1>2, <1>3, <1>4, <1>5, ShapesAssumption

\* Three sets of lines that have no line in common.
LEMMA ThreeKinds ==
    ASSUME LoaderInv
    PROVE  Cardinality({i \in LinesOf("f") : Kind(WrittenFace(i).corners)
                           \notin {"quadsConcave", "polygonsConcave"}})
             = Cardinality(FaceLines("triangles")) + Cardinality(FaceLines("quads"))
               + Cardinality(FaceLines("polygons"))
<1> DEFINE counted == {i \in LinesOf("f") : Kind(WrittenFace(i).corners)
                           \notin {"quadsConcave", "polygonsConcave"}}
<1>1. PICK T, Q, P : T = FaceLines("triangles") /\ Q = FaceLines("quads") /\ P = FaceLines("polygons")
    OBVIOUS
<1>2. IsFiniteSet(T) /\ IsFiniteSet(Q) /\ IsFiniteSet(P)
    BY <1>1, LinesAreFinite
<1>3. counted = (T \cup Q) \cup P
    <2>1. \A corners : Kind(corners) \in
              {"triangles", "quads", "quadsConcave", "polygons", "polygonsConcave"}
        BY DEF Kind
    <2> QED BY <1>1, <2>1 DEF FaceLines
<1>4. T \cap Q = {} /\ (T \cup Q) \cap P = {}
    BY <1>1 DEF FaceLines
<1>5. Cardinality(T) \in Nat /\ Cardinality(Q) \in Nat /\ Cardinality(P) \in Nat
    BY <1>2, FS_CardinalityType
<1>6. Cardinality({}) = 0
    BY FS_EmptySet
<1>7. IsFiniteSet(T \cup Q) /\ Cardinality(T \cup Q) = Cardinality(T) + Cardinality(Q)
    <2>1. /\ IsFiniteSet(T \cup Q)
          /\ Cardinality(T \cup Q) = Cardinality(T) + Cardinality(Q) - Cardinality(T \cap Q)
        BY <1>2, FS_Union
    <2>2. Cardinality(T \cap Q) = 0
        BY <1>4, <1>6, Zenon
    <2> QED BY <1>5, <2>1, <2>2
<1>8. Cardinality((T \cup Q) \cup P) = Cardinality(T) + Cardinality(Q) + Cardinality(P)
    <2>1. Cardinality((T \cup Q) \cup P)
            = Cardinality(T \cup Q) + Cardinality(P) - Cardinality((T \cup Q) \cap P)
        BY <1>2, <1>7, FS_Union
    <2>2. Cardinality((T \cup Q) \cap P) = 0
        BY <1>4, <1>6, Zenon
    <2>3. PICK x, y : x = Cardinality(T \cup Q) /\ y = Cardinality((T \cup Q) \cup P)
        OBVIOUS
    <2>4. y = x + Cardinality(P) - 0
        BY <2>1, <2>2, <2>3, Zenon
    <2> QED BY <1>5, <1>7, <2>3, <2>4
<1> QED
    BY <1>1, <1>3, <1>8

\* CountersAreOfTheFrame: every face of the file that has no concave corner is
\* counted once in a frame, with the faces of the primitive, and nothing of the
\* frames before.
THEOREM CountersCountTheFrame ==
    ASSUME ProtoIsNotAsked
    PROVE  Spec => CountersAreOfTheFrame
<1>1. ASSUME TypeInv, FacesAreAsWritten, [Next]_vars
      PROVE  [frame' # frame =>
                counters'.triangles + counters'.quads + counters'.polygons
                    = Cardinality({i \in LinesOf("f") : Kind(WrittenFace(i).corners)
                                      \notin {"quadsConcave", "polygonsConcave"}})
                      + Len(FacesOf(primitive))]_vars
    <2>1. CASE DrawFrame
        <3>1. counters' = CountersAfter
            BY <2>1 DEF DrawFrame
        <3>2. PICK a, b, c, own : /\ a = Len(surfaces.triangles) /\ b = Len(surfaces.quads)
                                  /\ c = Len(surfaces.polygons) /\ own = Len(FacesOf(primitive))
            OBVIOUS
        <3>3. a \in Nat /\ b \in Nat /\ c \in Nat
            BY <1>1, <3>2 DEF TypeInv, LoaderInv, NoSurfaces
        <3>4. own \in Nat
            BY <1>1, <3>2, PrimitiveIsASequence DEF TypeInv, ShowInv
        <3>5. counters'.triangles + counters'.quads + counters'.polygons = a + b + c + own
            <4>1. /\ counters'.triangles = 0 + a + (IF primitive.shape = "cube" THEN 0 ELSE own)
                  /\ counters'.quads = 0 + b + (IF primitive.shape = "cube" THEN own ELSE 0)
                  /\ counters'.polygons = 0 + c
                BY <3>1, <3>2 DEF CountersAfter, CountersBefore
            <4>2. CASE primitive.shape = "cube"
                BY <3>3, <3>4, <4>1, <4>2
            <4>3. CASE primitive.shape # "cube"
                BY <3>3, <3>4, <4>1, <4>3
            <4> QED BY <4>2, <4>3
        <3>6. /\ a = Cardinality(FaceLines("triangles")) /\ b = Cardinality(FaceLines("quads"))
              /\ c = Cardinality(FaceLines("polygons"))
            <4>1. {"triangles", "quads", "polygons"} \subseteq DOMAIN surfaces
                BY <1>1 DEF TypeInv, LoaderInv, NoSurfaces
            <4>2. ~broken
                BY <1>1, <2>1 DEF DrawFrame, TypeInv, LoaderInv
            <4> QED BY <1>1, <3>2, <4>1, <4>2 DEF FacesAreAsWritten
        <3> QED BY <1>1, <3>2, <3>5, <3>6, ThreeKinds DEF TypeInv
    <2>2. CASE ~DrawFrame
        <3>1. frame' = frame
            BY <1>1, <2>2 DEF Next, Load, AddPrimitive, RemovePrimitive, vars, showVars, glVars
        <3> QED BY <3>1
    <2> QED BY <2>1, <2>2
<1> QED
    BY <1>1, TypeInvHolds, FacesHold, PTL DEF Spec, CountersAreOfTheFrame
-----------------------------------------------------------------------------
(* Closed surfaces.                                                        *)

RunsAlong(f, e) == \E i \in DOMAIN f : EdgeAt(f, i) = e

\* Every dart - a face with one of its edges - has another one that runs along
\* the same edge the other way; except for edges from a point to itself.
Mated(F, D, face, edge, mate) ==
    /\ \A d \in D : face[d] \in F
    /\ \A f \in F : \A e : RunsAlong(f, e) <=> \E d \in D : face[d] = f /\ edge[d] = e
    /\ \A c, d \in D : face[c] = face[d] /\ edge[c] = edge[d] => c = d
    /\ \A d \in D : \A a, b : edge[d] = <<a, b>> /\ a # b =>
          mate[d] \in D /\ edge[mate[d]] = <<b, a>> /\ mate[mate[d]] = d

\* Then faces meet evenly at their edges.
LEMMA Mating ==
    ASSUME NEW F, IsFiniteSet(F), NEW D, NEW face, NEW edge, NEW mate,
           Mated(F, D, face, edge, mate), NEW a, NEW b
    PROVE  Uses(F, <<a, b>>) = Uses(F, <<b, a>>) /\ Uses(F, <<a, b>>) \in Nat
<1> DEFINE Along(e) == {f \in F : RunsAlong(f, e)}
           DartOf(f, e) == CHOOSE d \in D : face[d] = f /\ edge[d] = e
<1>1. \A e : Uses(F, e) = Cardinality(Along(e)) /\ IsFiniteSet(Along(e))
    <2> TAKE e
    <2>1. IsFiniteSet(Along(e))
        BY FS_Subset, Along(e) \subseteq F
    <2> QED BY <2>1 DEF Uses, RunsAlong
<1>2. \A e : \A f \in Along(e) :
          DartOf(f, e) \in D /\ face[DartOf(f, e)] = f /\ edge[DartOf(f, e)] = e
    BY DEF Mated
<1>0. \A d \in D : face[d] \in F /\ RunsAlong(face[d], edge[d])
    BY DEF Mated
<1>3. ASSUME NEW x, NEW y, x # y
      PROVE  Cardinality(Along(<<x, y>>)) <= Cardinality(Along(<<y, x>>))
    <2> DEFINE there == <<x, y>>
               back == <<y, x>>
               h == [f \in Along(there) |-> face[mate[DartOf(f, there)]]]
    <2>1. ASSUME NEW f \in Along(there)
          PROVE  /\ DartOf(f, there) \in D
                 /\ face[DartOf(f, there)] = f
                 /\ mate[DartOf(f, there)] \in D
                 /\ edge[mate[DartOf(f, there)]] = back
                 /\ mate[mate[DartOf(f, there)]] = DartOf(f, there)
        <3> HIDE DEF DartOf, Along
        <3> QED BY <1>2, <1>3 DEF Mated
    <2> HIDE DEF DartOf
    <2>2. \A f \in Along(there) : h[f] \in Along(back)
        <3> TAKE f \in Along(there)
        <3>1. h[f] = face[mate[DartOf(f, there)]] /\ mate[DartOf(f, there)] \in D
            BY <2>1
        <3>2. edge[mate[DartOf(f, there)]] = back
            BY <2>1
        <3> HIDE DEF h
        <3> QED BY <1>0, <3>1, <3>2
    <2>3. ASSUME NEW f \in Along(there), NEW g \in Along(there), h[f] = h[g] PROVE f = g
        <3>1. face[mate[DartOf(f, there)]] = face[mate[DartOf(g, there)]]
            BY <2>3
        <3>2. mate[DartOf(f, there)] = mate[DartOf(g, there)]
            <4>1. PICK c, d : c = mate[DartOf(f, there)] /\ d = mate[DartOf(g, there)]
                OBVIOUS
            <4>2. c \in D /\ d \in D /\ edge[c] = back /\ edge[d] = back /\ face[c] = face[d]
                BY <2>1, <3>1, <4>1
            <4>3. edge[c] = edge[d]
                BY <4>2
            <4> HIDE DEF there, back
            <4> QED BY <4>1, <4>2, <4>3 DEF Mated
        <3>3. DartOf(f, there) = DartOf(g, there)
            BY <2>1, <3>2
        <3> QED BY <2>1, <3>3
    <2>4. h \in Injection(Along(there), Along(back))
        <3>1. h \in [Along(there) -> Along(back)]
            <4> HIDE DEF Along
            <4> QED BY <2>2
        <3> HIDE DEF h, Along
        <3> QED BY <2>3, <3>1 DEF Injection, IsInjective
    <2> HIDE DEF h, Along
    <2> QED BY <1>1, <2>4, FS_Injection
<1>4. \A e : Cardinality(Along(e)) \in Nat
    <2> HIDE DEF Along
    <2> QED BY <1>1, FS_CardinalityType
<1> HIDE DEF Along
<1>5. Cardinality(Along(<<a, b>>)) = Cardinality(Along(<<b, a>>))
    <2>1. CASE a = b
        BY <2>1
    <2>2. CASE a # b
        <3>1. PICK x, y : x = Cardinality(Along(<<a, b>>)) /\ y = Cardinality(Along(<<b, a>>))
            OBVIOUS
        <3>2. x <= y /\ y <= x /\ x \in Nat /\ y \in Nat
            BY <1>3, <1>4, <2>2, <3>1
        <3> QED BY <3>1, <3>2
    <2> QED BY <2>1, <2>2
<1> QED
    BY <1>1, <1>4, <1>5

\* The edges of a triangle.
LEMMA TriangleEdges ==
    ASSUME NEW x, NEW y, NEW z, NEW e
    PROVE  RunsAlong(<<x, y, z>>, e) <=> e \in {<<x, y>>, <<y, z>>, <<z, x>>}
<1> DEFINE f == <<x, y, z>>
<1>1. DOMAIN f = {1, 2, 3} /\ Len(f) = 3 /\ f[1] = x /\ f[2] = y /\ f[3] = z
    OBVIOUS
<1> HIDE DEF f
<1>2. EdgeAt(f, 1) = <<x, y>> /\ EdgeAt(f, 2) = <<y, z>> /\ EdgeAt(f, 3) = <<z, x>>
    BY <1>1 DEF EdgeAt, Following
<1>3. RunsAlong(f, e) <=> e = <<x, y>> \/ e = <<y, z>> \/ e = <<z, x>>
    BY <1>1, <1>2 DEF RunsAlong
<1> QED
    BY <1>3 DEF f

\* If it is as often run along one way as the other, a surface is closed and
\* all its faces are wound alike.
LEMMA MatedIsClosed ==
    ASSUME NEW F, \A a, b : Uses(F, <<a, b>>) = Uses(F, <<b, a>>) /\ Uses(F, <<a, b>>) \in Nat
    PROVE  Closed(F) /\ Oriented(F)
<1> SUFFICES ASSUME NEW e \in EdgesOf(F)
             PROVE  /\ (Uses(F, e) + Uses(F, Reversed(e))) % 2 = 0
                    /\ Uses(F, e) = Uses(F, Reversed(e))
    BY DEF Closed, Oriented
<1>1. PICK a, b : e = <<a, b>>
    BY DEF EdgesOf, EdgeAt
<1>2. Reversed(e) = <<b, a>>
    BY <1>1 DEF Reversed
<1>3. PICK u \in Nat : u = Uses(F, e) /\ u = Uses(F, Reversed(e))
    BY <1>1, <1>2
<1>4. (u + u) % 2 = 0
    OBVIOUS
<1> QED
    BY <1>3, <1>4

\* The two triangles between rows i and i+1 and columns j and j+1 of a grid.
Upper(q, i, j) == <<q[i][j], q[i+1][j], q[i][j+1]>>
Lower(q, i, j) == <<q[i+1][j], q[i+1][j+1], q[i][j+1]>>

\* The last column is the first, and the last row is the first, or both these
\* rows are points.
Wraps(q, m, n) ==
    /\ \A i \in 0..m : q[i][n] = q[i][0]
    /\ \/ \A j \in 0..n : q[m][j] = q[0][j]
       \/ \A j \in 0..n : q[0][j] = q[0][0] /\ q[m][j] = q[m][0]

Covers(F, q, m, n) ==
    \A f : f \in F <=> \E i \in 0..(m-1), j \in 0..(n-1) : f = Upper(q, i, j) \/ f = Lower(q, i, j)

\* No triangle is there twice.
FacesDiffer(q, m, n) ==
    \A i, k \in 0..(m-1), j, l \in 0..(n-1) :
        /\ Upper(q, i, j) # Lower(q, k, l)
        /\ Upper(q, i, j) = Upper(q, k, l) => i = k /\ j = l
        /\ Lower(q, i, j) = Lower(q, k, l) => i = k /\ j = l

\* No triangle is a single point, so none has an edge twice.
Extended(q, m, n) ==
    \A i \in 0..(m-1), j \in 0..(n-1) :
        \A f \in {Upper(q, i, j), Lower(q, i, j)} : f[1] # f[2] \/ f[2] # f[3]

\* The darts of a grid: the three edges of each triangle.
Darts(m, n) == {"upper", "lower"} \X (0..(m-1)) \X (0..(n-1)) \X {1, 2, 3}
Side(f, k) ==
    IF k = 1 THEN <<f[1], f[2]>> ELSE IF k = 2 THEN <<f[2], f[3]>> ELSE <<f[3], f[1]>>
FaceOf(q, d) == IF d[1] = "upper" THEN Upper(q, d[2], d[3]) ELSE Lower(q, d[2], d[3])

\* The row or column before and after one of s.
Prev(i, s) == IF i = 0 THEN s - 1 ELSE i - 1
After(i, s) == IF i = s - 1 THEN 0 ELSE i + 1

\* The dart on the other side of an edge.
MateOf(d, m, n) ==
    IF d[1] = "upper"
    THEN IF d[4] = 1 THEN <<"lower", d[2], Prev(d[3], n), 2>>
         ELSE IF d[4] = 2 THEN <<"lower", d[2], d[3], 3>>
         ELSE <<"lower", Prev(d[2], m), d[3], 1>>
    ELSE IF d[4] = 1 THEN <<"upper", After(d[2], m), d[3], 3>>
         ELSE IF d[4] = 2 THEN <<"upper", d[2], After(d[3], n), 1>>
         ELSE <<"upper", d[2], d[3], 2>>

\* The darts, by kind, row, column and side.
LEMMA DartIs ==
    ASSUME NEW m, NEW n, NEW d \in Darts(m, n)
    PROVE  \E i \in 0..(m-1), j \in 0..(n-1), k \in {1, 2, 3} :
               d = <<"upper", i, j, k>> \/ d = <<"lower", i, j, k>>
    BY DEF Darts

LEMMA DartIn ==
    ASSUME NEW m, NEW n, NEW s \in {"upper", "lower"},
           NEW i \in 0..(m-1), NEW j \in 0..(n-1), NEW k \in {1, 2, 3}
    PROVE  <<s, i, j, k>> \in Darts(m, n)
    BY DEF Darts

\* What a dart is of, and what is on the other side.
LEMMA DartOf ==
    ASSUME NEW q, NEW i, NEW j, NEW k
    PROVE  /\ FaceOf(q, <<"upper", i, j, k>>) = Upper(q, i, j)
           /\ FaceOf(q, <<"lower", i, j, k>>) = Lower(q, i, j)
    BY DEF FaceOf

\* The edges of the two kinds of triangles.
EdgeOf(q, d) == Side(FaceOf(q, d), d[4])

\* A triangle runs along its sides.
LEMMA RunsAlongSides ==
    ASSUME NEW x, NEW y, NEW z, NEW e
    PROVE  RunsAlong(<<x, y, z>>, e) <=> \E k \in {1, 2, 3} : Side(<<x, y, z>>, k) = e
<1>1. PICK f : f = <<x, y, z>>
    OBVIOUS
<1>2. Side(f, 1) = <<x, y>> /\ Side(f, 2) = <<y, z>> /\ Side(f, 3) = <<z, x>>
    BY <1>1 DEF Side
<1>3. RunsAlong(f, e) <=> e \in {<<x, y>>, <<y, z>>, <<z, x>>}
    BY <1>1, TriangleEdges
<1> QED
    BY <1>1, <1>2, <1>3

\* Going one row or column on and back again.
LEMMA RoundTheGrid ==
    ASSUME NEW s \in Nat \ {0}, NEW i \in 0..(s-1)
    PROVE  /\ Prev(i, s) \in 0..(s-1) /\ After(i, s) \in 0..(s-1)
           /\ After(Prev(i, s), s) = i /\ Prev(After(i, s), s) = i
           /\ Prev(i, s) + 1 = (IF i = 0 THEN s ELSE i)
           /\ After(i, s) = (IF i + 1 = s THEN 0 ELSE i + 1)
           /\ i \in 0..s /\ i + 1 \in 0..s
    BY DEF Prev, After

\* A dart is known by its face and its edge.
LEMMA DartsDiffer ==
    ASSUME NEW m \in Nat \ {0}, NEW n \in Nat \ {0}, NEW q,
           FacesDiffer(q, m, n), Extended(q, m, n),
           NEW c \in Darts(m, n), NEW d \in Darts(m, n),
           FaceOf(q, c) = FaceOf(q, d), EdgeOf(q, c) = EdgeOf(q, d)
    PROVE  c = d
<1>1. PICK i \in 0..(m-1), j \in 0..(n-1), k \in {1, 2, 3} :
          c = <<"upper", i, j, k>> \/ c = <<"lower", i, j, k>>
    BY DartIs
<1>2. PICK x \in 0..(m-1), y \in 0..(n-1), z \in {1, 2, 3} :
          d = <<"upper", x, y, z>> \/ d = <<"lower", x, y, z>>
    BY DartIs
<1>3. c[4] = k /\ d[4] = z
    BY <1>1, <1>2
<1>4. k = z
    <2>1. PICK f : f = FaceOf(q, c)
        OBVIOUS
    <2>2. f \in {Upper(q, i, j), Lower(q, i, j)}
        BY <1>1, <2>1, DartOf
    <2>3. f[1] # f[2] \/ f[2] # f[3]
        BY <2>2 DEF Extended
    <2>4. Side(f, 1) # Side(f, 2) /\ Side(f, 2) # Side(f, 3) /\ Side(f, 1) # Side(f, 3)
        BY <2>3 DEF Side
    <2>5. Side(f, k) = Side(f, z)
        BY <1>3, <2>1 DEF EdgeOf
    <2> QED BY <2>4, <2>5
<1>5. /\ Upper(q, i, j) # Lower(q, x, y) /\ Upper(q, x, y) # Lower(q, i, j)
      /\ Upper(q, i, j) = Upper(q, x, y) => i = x /\ j = y
      /\ Lower(q, i, j) = Lower(q, x, y) => i = x /\ j = y
    BY DEF FacesDiffer
<1>6. CASE c = <<"upper", i, j, k>> /\ d = <<"upper", x, y, z>>
    <2>1. Upper(q, i, j) = Upper(q, x, y)
        BY <1>6, DartOf
    <2> QED BY <1>4, <1>5, <1>6, <2>1
<1>7. CASE c = <<"lower", i, j, k>> /\ d = <<"lower", x, y, z>>
    <2>1. Lower(q, i, j) = Lower(q, x, y)
        BY <1>7, DartOf
    <2> QED BY <1>4, <1>5, <1>7, <2>1
<1>8. ~(c = <<"upper", i, j, k>> /\ d = <<"lower", x, y, z>>)
    <2>1. FaceOf(q, <<"upper", i, j, k>>) = Upper(q, i, j) /\ FaceOf(q, <<"lower", x, y, z>>) = Lower(q, x, y)
        BY DartOf
    <2> QED BY <1>5, <2>1
<1>9. ~(c = <<"lower", i, j, k>> /\ d = <<"upper", x, y, z>>)
    <2>1. FaceOf(q, <<"lower", i, j, k>>) = Lower(q, i, j) /\ FaceOf(q, <<"upper", x, y, z>>) = Upper(q, x, y)
        BY DartOf
    <2> QED BY <1>5, <2>1
<1> QED
    BY <1>1, <1>2, <1>6, <1>7, <1>8, <1>9

\* The mate of a dart runs along the same edge the other way.
LEMMA MatesMeet ==
    ASSUME NEW m \in Nat \ {0}, NEW n \in Nat \ {0}, NEW q, Wraps(q, m, n),
           NEW d \in Darts(m, n), NEW x, NEW y, EdgeOf(q, d) = <<x, y>>, x # y
    PROVE  /\ MateOf(d, m, n) \in Darts(m, n) /\ MateOf(MateOf(d, m, n), m, n) = d
           /\ EdgeOf(q, MateOf(d, m, n)) = <<y, x>>
<1>1. PICK i \in 0..(m-1), j \in 0..(n-1), k \in {1, 2, 3} :
          d = <<"upper", i, j, k>> \/ d = <<"lower", i, j, k>>
    BY DartIs
<1>2. PICK c : c = MateOf(d, m, n)
    OBVIOUS
<1>3. PICK pi, ai : pi = Prev(i, m) /\ ai = After(i, m)
    OBVIOUS
<1>4. PICK pj, aj : pj = Prev(j, n) /\ aj = After(j, n)
    OBVIOUS
<1>5. /\ pi \in 0..(m-1) /\ ai \in 0..(m-1) /\ After(pi, m) = i /\ Prev(ai, m) = i
      /\ pi + 1 = (IF i = 0 THEN m ELSE i) /\ ai = (IF i + 1 = m THEN 0 ELSE i + 1)
      /\ i \in 0..m /\ i + 1 \in 0..m
    BY <1>3, RoundTheGrid
<1>6. /\ pj \in 0..(n-1) /\ aj \in 0..(n-1) /\ After(pj, n) = j /\ Prev(aj, n) = j
      /\ pj + 1 = (IF j = 0 THEN n ELSE j) /\ aj = (IF j + 1 = n THEN 0 ELSE j + 1)
      /\ j \in 0..n /\ j + 1 \in 0..n
    BY <1>4, RoundTheGrid
<1>7. /\ q[i][pj+1] = q[i][j] /\ q[i+1][pj+1] = q[i+1][j]
      /\ q[i][aj] = q[i][j+1] /\ q[i+1][aj] = q[i+1][j+1]
    <2>1. q[i][n] = q[i][0] /\ q[i+1][n] = q[i+1][0]
        BY <1>5 DEF Wraps
    <2> QED BY <1>6, <2>1
<1>8. \/ q[m][j] = q[0][j] /\ q[m][j+1] = q[0][j+1]
      \/ q[0][j] = q[0][j+1] /\ q[m][j] = q[m][j+1]
    BY <1>6 DEF Wraps
<1>9. /\ q[i][j] = q[i][j+1] \/ (q[pi+1][j] = q[i][j] /\ q[pi+1][j+1] = q[i][j+1])
      /\ q[i+1][j] = q[i+1][j+1] \/ (q[ai][j] = q[i+1][j] /\ q[ai][j+1] = q[i+1][j+1])
    BY <1>5, <1>8
<1> SUFFICES c \in Darts(m, n) /\ MateOf(c, m, n) = d /\ EdgeOf(q, c) = <<y, x>>
    BY <1>2
<1>10. CASE d = <<"upper", i, j, 1>>
    <2>1. c = <<"lower", i, pj, 2>>
        BY <1>2, <1>3, <1>4, <1>10 DEF MateOf
    <2>2. MateOf(c, m, n) = d
        BY <1>6, <1>10, <2>1 DEF MateOf
    <2>3. c \in Darts(m, n)
        BY <1>6, <2>1, DartIn
    <2>4. x = q[i][j] /\ y = q[i+1][j]
        BY <1>10 DEF EdgeOf, FaceOf, Upper, Lower, Side
    <2>5. EdgeOf(q, c) = <<q[i+1][pj+1], q[i][pj+1]>>
        BY <2>1 DEF EdgeOf, FaceOf, Upper, Lower, Side
    <2>6. <<q[i+1][pj+1], q[i][pj+1]>> = <<y, x>>
        BY <1>7, <2>4
    <2> QED BY <2>2, <2>3, <2>5, <2>6
<1>11. CASE d = <<"lower", i, j, 2>>
    <2>1. c = <<"upper", i, aj, 1>>
        BY <1>2, <1>3, <1>4, <1>11 DEF MateOf
    <2>2. MateOf(c, m, n) = d
        BY <1>6, <1>11, <2>1 DEF MateOf
    <2>3. c \in Darts(m, n)
        BY <1>6, <2>1, DartIn
    <2>4. x = q[i+1][j+1] /\ y = q[i][j+1]
        BY <1>11 DEF EdgeOf, FaceOf, Upper, Lower, Side
    <2>5. EdgeOf(q, c) = <<q[i][aj], q[i+1][aj]>>
        BY <2>1 DEF EdgeOf, FaceOf, Upper, Lower, Side
    <2>6. <<q[i][aj], q[i+1][aj]>> = <<y, x>>
        BY <1>7, <2>4
    <2> QED BY <2>2, <2>3, <2>5, <2>6
<1>12. CASE d = <<"upper", i, j, 2>>
    <2>1. c = <<"lower", i, j, 3>>
        BY <1>2, <1>3, <1>4, <1>12 DEF MateOf
    <2>2. MateOf(c, m, n) = d
        BY <1>6, <1>12, <2>1 DEF MateOf
    <2>3. c \in Darts(m, n)
        BY <1>6, <2>1, DartIn
    <2>4. x = q[i+1][j] /\ y = q[i][j+1]
        BY <1>12 DEF EdgeOf, FaceOf, Upper, Lower, Side
    <2>5. EdgeOf(q, c) = <<q[i][j+1], q[i+1][j]>>
        BY <2>1 DEF EdgeOf, FaceOf, Upper, Lower, Side
    <2>6. <<q[i][j+1], q[i+1][j]>> = <<y, x>>
        BY <1>7, <2>4
    <2> QED BY <2>2, <2>3, <2>5, <2>6
<1>13. CASE d = <<"lower", i, j, 3>>
    <2>1. c = <<"upper", i, j, 2>>
        BY <1>2, <1>3, <1>4, <1>13 DEF MateOf
    <2>2. MateOf(c, m, n) = d
        BY <1>6, <1>13, <2>1 DEF MateOf
    <2>3. c \in Darts(m, n)
        BY <1>6, <2>1, DartIn
    <2>4. x = q[i][j+1] /\ y = q[i+1][j]
        BY <1>13 DEF EdgeOf, FaceOf, Upper, Lower, Side
    <2>5. EdgeOf(q, c) = <<q[i+1][j], q[i][j+1]>>
        BY <2>1 DEF EdgeOf, FaceOf, Upper, Lower, Side
    <2>6. <<q[i+1][j], q[i][j+1]>> = <<y, x>>
        BY <1>7, <2>4
    <2> QED BY <2>2, <2>3, <2>5, <2>6
<1>14. CASE d = <<"upper", i, j, 3>>
    <2>1. c = <<"lower", pi, j, 1>>
        BY <1>2, <1>3, <1>4, <1>14 DEF MateOf
    <2>2. MateOf(c, m, n) = d
        BY <1>5, <1>14, <2>1 DEF MateOf
    <2>3. c \in Darts(m, n)
        BY <1>5, <2>1, DartIn
    <2>4. x = q[i][j+1] /\ y = q[i][j]
        BY <1>14 DEF EdgeOf, FaceOf, Upper, Lower, Side
    <2>5. EdgeOf(q, c) = <<q[pi+1][j], q[pi+1][j+1]>>
        BY <2>1 DEF EdgeOf, FaceOf, Upper, Lower, Side
    <2>6. <<q[pi+1][j], q[pi+1][j+1]>> = <<y, x>>
        BY <1>9, <2>4
    <2> QED BY <2>2, <2>3, <2>5, <2>6
<1>15. CASE d = <<"lower", i, j, 1>>
    <2>1. c = <<"upper", ai, j, 3>>
        BY <1>2, <1>3, <1>4, <1>15 DEF MateOf
    <2>2. MateOf(c, m, n) = d
        BY <1>5, <1>15, <2>1 DEF MateOf
    <2>3. c \in Darts(m, n)
        BY <1>5, <2>1, DartIn
    <2>4. x = q[i+1][j] /\ y = q[i+1][j+1]
        BY <1>15 DEF EdgeOf, FaceOf, Upper, Lower, Side
    <2>5. EdgeOf(q, c) = <<q[ai][j+1], q[ai][j]>>
        BY <2>1 DEF EdgeOf, FaceOf, Upper, Lower, Side
    <2>6. <<q[ai][j+1], q[ai][j]>> = <<y, x>>
        BY <1>9, <2>4
    <2> QED BY <2>2, <2>3, <2>5, <2>6
<1> QED
    BY <1>1, <1>10, <1>11, <1>12, <1>13, <1>14, <1>15

\* The edges of such a grid of m by n segments are run along as often one way
\* as the other.
LEMMA GridIsEven ==
    ASSUME NEW m \in Nat \ {0}, NEW n \in Nat \ {0}, NEW q, NEW F, IsFiniteSet(F),
           Wraps(q, m, n), Covers(F, q, m, n), FacesDiffer(q, m, n), Extended(q, m, n),
           NEW a, NEW b
    PROVE  Uses(F, <<a, b>>) = Uses(F, <<b, a>>) /\ Uses(F, <<a, b>>) \in Nat
<1> DEFINE D == Darts(m, n)
           face == [d \in D |-> FaceOf(q, d)]
           edge == [d \in D |-> EdgeOf(q, d)]
           mate == [d \in D |-> MateOf(d, m, n)]
<1>1. \A d \in D : face[d] \in F
    <2> TAKE d \in D
    <2>1. PICK i \in 0..(m-1), j \in 0..(n-1), k \in {1, 2, 3} :
              d = <<"upper", i, j, k>> \/ d = <<"lower", i, j, k>>
        BY DartIs
    <2>2. face[d] = Upper(q, i, j) \/ face[d] = Lower(q, i, j)
        BY <2>1, DartOf
    <2> HIDE DEF face
    <2> QED BY <2>2 DEF Covers
<1>2. ASSUME NEW f \in F, NEW e
      PROVE  RunsAlong(f, e) <=> \E d \in D : face[d] = f /\ edge[d] = e
    <2>1. PICK i \in 0..(m-1), j \in 0..(n-1) : f = Upper(q, i, j) \/ f = Lower(q, i, j)
        BY DEF Covers
    <2>2. RunsAlong(f, e) <=> \E k \in {1, 2, 3} : Side(f, k) = e
        <3>1. PICK x, y, z : f = <<x, y, z>>
            BY <2>1 DEF Upper, Lower
        <3> QED BY <3>1, RunsAlongSides
    <2>3. ASSUME NEW k \in {1, 2, 3}, Side(f, k) = e
          PROVE  \E d \in D : face[d] = f /\ edge[d] = e
        <3>1. PICK s \in {"upper", "lower"} : FaceOf(q, <<s, i, j, k>>) = f
            BY <2>1, DartOf
        <3>2. PICK d : d = <<s, i, j, k>>
            OBVIOUS
        <3>3. d \in D /\ FaceOf(q, d) = f /\ d[4] = k
            BY <3>1, <3>2, DartIn
        <3>4. EdgeOf(q, d) = e
            BY <2>3, <3>3 DEF EdgeOf
        <3> HIDE DEF D
        <3> QED BY <3>3, <3>4
    <2>4. ASSUME NEW d \in D, face[d] = f, edge[d] = e
          PROVE  \E k \in {1, 2, 3} : Side(f, k) = e
        <3>1. d[4] \in {1, 2, 3}
            BY DartIs
        <3>2. Side(f, d[4]) = e
            BY <2>4 DEF EdgeOf
        <3> QED BY <3>1, <3>2
    <2> HIDE DEF D, face, edge
    <2> QED BY <2>2, <2>3, <2>4
<1>3. \A c, d \in D : face[c] = face[d] /\ edge[c] = edge[d] => c = d
    BY DartsDiffer
<1>4. \A d \in D : \A x, y : edge[d] = <<x, y>> /\ x # y =>
          mate[d] \in D /\ edge[mate[d]] = <<y, x>> /\ mate[mate[d]] = d
    <2> TAKE d \in D
    <2> TAKE x, y
    <2> HAVE edge[d] = <<x, y>> /\ x # y
    <2>1. /\ MateOf(d, m, n) \in D /\ MateOf(MateOf(d, m, n), m, n) = d
          /\ EdgeOf(q, MateOf(d, m, n)) = <<y, x>>
        BY MatesMeet
    <2> HIDE DEF D
    <2> QED BY <2>1
<1> HIDE DEF face, edge, mate, D
<1>5. \A f \in F : \A e : RunsAlong(f, e) <=> \E d \in D : face[d] = f /\ edge[d] = e
    BY <1>2
<1>6. Mated(F, D, face, edge, mate)
    BY <1>1, <1>3, <1>4, <1>5 DEF Mated
<1> QED
    BY <1>6, Mating

\* Such a grid is a closed surface, all wound alike.
LEMMA GridIsClosed ==
    ASSUME NEW m \in Nat \ {0}, NEW n \in Nat \ {0}, NEW q, NEW F, IsFiniteSet(F),
           Wraps(q, m, n), Covers(F, q, m, n), FacesDiffer(q, m, n), Extended(q, m, n)
    PROVE  Closed(F) /\ Oriented(F)
<1>1. \A a, b : Uses(F, <<a, b>>) = Uses(F, <<b, a>>) /\ Uses(F, <<a, b>>) \in Nat
    BY GridIsEven
<1> QED
    BY <1>1, MatedIsClosed

\* Angles are counted up to a full turn, which is none.
LEMMA FullTurn ==
    ASSUME NEW s \in Nat \ {0}
    PROVE  /\ \A i \in 0..(s-1) : i % s = i /\ (i + 1) % s = After(i, s)
           /\ s % s = 0
           /\ s >= 2 => (s + 1) % s = 1
<1>1. ASSUME NEW i \in Nat, NEW c \in {0, s}, i - c \in 0..(s-1)
      PROVE  i % s = i - c
    <2>1. PICK q \in Int, r \in 0..(s-1) : q = i \div s /\ r = i % s /\ i = s * q + r
        BY Division
    <2>2. q < 0 => s * q <= -s
        BY <2>1, Z3
    <2>3. q >= 2 => s * q >= 2 * s
        BY <2>1, Z3
    <2>4. (q = 0 => s * q = 0) /\ (q = 1 => s * q = s)
        OBVIOUS
    <2>5. PICK t \in Int : t = s * q
        OBVIOUS
    <2>6. t = c
        BY <1>1, <2>1, <2>2, <2>3, <2>4, <2>5
    <2> QED BY <1>1, <2>1, <2>5, <2>6
<1>2. /\ \A i \in 0..(s-1) : i % s = i
      /\ \A i \in s..(s+1) : i - s \in 0..(s-1) => i % s = i - s
    BY <1>1
<1> QED
    BY <1>2 DEF After

\* The one beside a row is another one, if there are two; and no two have the
\* same beside them.
LEMMA Beside ==
    ASSUME NEW s \in Nat \ {0}
    PROVE  /\ s >= 2 => \A i \in 0..(s-1) : After(i, s) # i
           /\ \A i, k \in 0..(s-1) : After(i, s) = After(k, s) => i = k
           /\ \A i \in 0..(s-1) : After(i, s) \in 0..(s-1)
    BY DEF After

\* The ring that is there twice adds no triangle, and the seams meet.
LEMMA TorusIsClosed ==
    ASSUME NEW m \in Nat, NEW n \in Nat, m >= 2, n >= 2
    PROVE  Closed(ToSet(TorusTriangles(m, n))) /\ Oriented(ToSet(TorusTriangles(m, n)))
<1> DEFINE Point(i, j) == <<i % m, j % n>>
           segment == [i \in 0..(m-1) |-> [j \in 0..n |->
               Segment(Point(i, j), Point(i+1, j), Point(i, j+1), Point(i+1, j+1))]]
           q == [i \in 0..m |-> [j \in 0..n |-> Point(i, j)]]
           F == ToSet(Strips(m, n + 1, segment))
<1>1. F = ToSet(TorusTriangles(m, n))
    BY DEF TorusTriangles, Rings
<1>2. \A i \in 0..(m-1), j \in 0..(n-1) :
          /\ q[i][j] = <<i, j>>
          /\ q[i+1][j] = <<After(i, m), j>>
          /\ q[i][j+1] = <<i, After(j, n)>>
          /\ q[i+1][j+1] = <<After(i, m), After(j, n)>>
    <2> TAKE i \in 0..(m-1), j \in 0..(n-1)
    <2>1. i \in 0..m /\ i + 1 \in 0..m /\ j \in 0..n /\ j + 1 \in 0..n
        OBVIOUS
    <2>2. i % m = i /\ (i + 1) % m = After(i, m) /\ j % n = j /\ (j + 1) % n = After(j, n)
        BY FullTurn
    <2> QED BY <2>1, <2>2
<1>3. \A i \in 0..(m-1), j \in 0..(n-1) : segment[i][j] = <<Upper(q, i, j), Lower(q, i, j)>>
    <2> TAKE i \in 0..(m-1), j \in 0..(n-1)
    <2>1. i \in 0..m /\ i + 1 \in 0..m /\ j \in 0..n /\ j + 1 \in 0..n
        OBVIOUS
    <2>2. segment[i][j] = Segment(Point(i, j), Point(i+1, j), Point(i, j+1), Point(i+1, j+1))
        BY <2>1
    <2>3. /\ q[i][j] = Point(i, j) /\ q[i+1][j] = Point(i+1, j)
          /\ q[i][j+1] = Point(i, j+1) /\ q[i+1][j+1] = Point(i+1, j+1)
        BY <2>1
    <2> HIDE DEF Point, q, segment
    <2> QED BY <2>2, <2>3 DEF Segment, Upper, Lower
<1>4. \A i \in 0..(m-1) : segment[i][n] = segment[i][0]
    <2> TAKE i \in 0..(m-1)
    <2>1. 0 \in 0..n /\ n \in 0..n
        OBVIOUS
    <2>2. n % n = 0 /\ (n + 1) % n = 1 /\ 0 % n = 0 /\ (0 + 1) % n = 1
        BY FullTurn DEF After
    <2>3. Point(i, n) = Point(i, 0) /\ Point(i, n+1) = Point(i, 0+1)
        BY <2>2
    <2>4. Point(i+1, n) = Point(i+1, 0) /\ Point(i+1, n+1) = Point(i+1, 0+1)
        BY <2>2
    <2> HIDE DEF Point
    <2> QED BY <2>1, <2>3, <2>4
<1>5. /\ \A i \in 0..m : q[i][n] = q[i][0]
      /\ \A j \in 0..n : q[m][j] = q[0][j]
    <2>1. m % m = 0 /\ 0 % m = 0 /\ n % n = 0 /\ 0 % n = 0
        BY FullTurn
    <2>2. 0 \in 0..m /\ m \in 0..m /\ 0 \in 0..n /\ n \in 0..n
        OBVIOUS
    <2> QED BY <2>1, <2>2
<1> HIDE DEF Point, segment, q
<1>6. /\ IsFiniteSet(F)
      /\ \A f : f \in F <=> \E i \in 0..(m-1), j \in 0..((n+1)-1) :
                               f = segment[i][j][1] \/ f = segment[i][j][2]
    <2>1. \A i \in 0..(m-1), j \in 0..((n+1)-1) : \E a, b : segment[i][j] = <<a, b>>
        <3> TAKE i \in 0..(m-1), j \in 0..((n+1)-1)
        <3>1. j \in 0..(n-1) \/ j = n
            OBVIOUS
        <3>2. 0 \in 0..(n-1)
            OBVIOUS
        <3> QED BY <1>3, <1>4, <3>1, <3>2
    <2>2. PICK c \in Nat \ {0} : c = n + 1
        OBVIOUS
    <2> QED BY <2>1, <2>2, StripsAre
<1>7. Covers(F, q, m, n)
    <2>1. ASSUME NEW f, NEW i \in 0..(m-1), NEW j \in 0..((n+1)-1),
                 f = segment[i][j][1] \/ f = segment[i][j][2]
          PROVE  \E l \in 0..(n-1) : f = Upper(q, i, l) \/ f = Lower(q, i, l)
        <3>1. PICK l \in 0..(n-1) : segment[i][j] = segment[i][l]
            <4>1. CASE j = n
                <5>1. 0 \in 0..(n-1) OBVIOUS
                <5> QED BY <1>4, <4>1, <5>1
            <4>2. CASE j # n
                <5>1. j \in 0..(n-1) BY <4>2
                <5> QED BY <5>1
            <4> QED BY <4>1, <4>2
        <3>2. segment[i][l] = <<Upper(q, i, l), Lower(q, i, l)>>
            BY <1>3
        <3> QED BY <2>1, <3>1, <3>2
    <2>2. ASSUME NEW f, NEW i \in 0..(m-1), NEW j \in 0..(n-1),
                 f = Upper(q, i, j) \/ f = Lower(q, i, j)
          PROVE  j \in 0..((n+1)-1) /\ (f = segment[i][j][1] \/ f = segment[i][j][2])
        <3>1. segment[i][j] = <<Upper(q, i, j), Lower(q, i, j)>>
            BY <1>3
        <3> QED BY <2>2, <3>1
    <2> HIDE DEF F
    <2> SUFFICES ASSUME NEW f
                 PROVE  f \in F <=> \E i \in 0..(m-1), j \in 0..(n-1) :
                                       f = Upper(q, i, j) \/ f = Lower(q, i, j)
        BY DEF Covers
    <2>3. ASSUME f \in F
          PROVE  \E i \in 0..(m-1), j \in 0..(n-1) : f = Upper(q, i, j) \/ f = Lower(q, i, j)
        <3>1. PICK i \in 0..(m-1), j \in 0..((n+1)-1) : f = segment[i][j][1] \/ f = segment[i][j][2]
            BY <1>6, <2>3
        <3> QED BY <2>1, <3>1
    <2>4. ASSUME NEW i \in 0..(m-1), NEW j \in 0..(n-1), f = Upper(q, i, j) \/ f = Lower(q, i, j)
          PROVE  f \in F
        <3>1. j \in 0..((n+1)-1) /\ (f = segment[i][j][1] \/ f = segment[i][j][2])
            BY <2>2, <2>4
        <3> QED BY <1>6, <3>1
    <2> QED BY <2>3, <2>4
<1>8. Wraps(q, m, n)
    BY <1>5 DEF Wraps
<1>9. FacesDiffer(q, m, n)
    <2> SUFFICES ASSUME NEW i \in 0..(m-1), NEW k \in 0..(m-1), NEW j \in 0..(n-1), NEW l \in 0..(n-1)
                 PROVE  /\ Upper(q, i, j) # Lower(q, k, l)
                        /\ Upper(q, i, j) = Upper(q, k, l) => i = k /\ j = l
                        /\ Lower(q, i, j) = Lower(q, k, l) => i = k /\ j = l
        BY DEF FacesDiffer
    <2>1. /\ Upper(q, i, j) = << <<i, j>>, <<After(i, m), j>>, <<i, After(j, n)>> >>
          /\ Upper(q, k, l) = << <<k, l>>, <<After(k, m), l>>, <<k, After(l, n)>> >>
          /\ Lower(q, i, j) = << <<After(i, m), j>>, <<After(i, m), After(j, n)>>, <<i, After(j, n)>> >>
          /\ Lower(q, k, l) = << <<After(k, m), l>>, <<After(k, m), After(l, n)>>, <<k, After(l, n)>> >>
        BY <1>2 DEF Upper, Lower
    <2>2. After(i, m) # i
        BY Beside
    <2> QED BY <2>1, <2>2
<1>10. Extended(q, m, n)
    <2> SUFFICES ASSUME NEW i \in 0..(m-1), NEW j \in 0..(n-1)
                 PROVE  /\ Upper(q, i, j)[1] # Upper(q, i, j)[2]
                        /\ Lower(q, i, j)[1] # Lower(q, i, j)[2]
        BY DEF Extended
    <2>1. After(i, m) # i /\ After(j, n) # j
        BY Beside
    <2> QED BY <1>2, <2>1 DEF Upper, Lower
<1> HIDE DEF F
<1>11. m \in Nat \ {0} /\ n \in Nat \ {0}
    OBVIOUS
<1>12. Closed(F) /\ Oriented(F)
    BY <1>6, <1>7, <1>8, <1>9, <1>10, <1>11, GridIsClosed
<1> QED
    BY <1>1, <1>12

\* At the poles a row of the grid is one point, and so are the edges along it.
LEMMA SphereIsClosed ==
    ASSUME NEW n \in Nat \ {0}, NEW K \in Nat, K >= 2
    PROVE  Closed(ToSet(SphereTriangles(n, K))) /\ Oriented(ToSet(SphereTriangles(n, K)))
<1> DEFINE Point(i, j) == <<i, IF i \in {0, K} THEN 0 ELSE j % n>>
           segment == [i \in 0..(K-1) |-> [j \in 0..(n-1) |->
               Segment(Point(i, j), Point(i+1, j), Point(i, j+1), Point(i+1, j+1))]]
           q == [i \in 0..K |-> [j \in 0..n |-> Point(i, j)]]
           F == ToSet(Strips(K, n, segment))
           At(i, j) == <<i, IF i \in {0, K} THEN 0 ELSE j>>
<1>1. F = ToSet(SphereTriangles(n, K))
    BY DEF SphereTriangles
<1>2. \A i \in 0..(K-1), j \in 0..(n-1) :
          /\ q[i][j] = At(i, j)
          /\ q[i+1][j] = At(i+1, j)
          /\ q[i][j+1] = At(i, After(j, n))
          /\ q[i+1][j+1] = At(i+1, After(j, n))
    <2> TAKE i \in 0..(K-1), j \in 0..(n-1)
    <2>1. i \in 0..K /\ i + 1 \in 0..K /\ j \in 0..n /\ j + 1 \in 0..n
        OBVIOUS
    <2>2. j % n = j /\ (j + 1) % n = After(j, n)
        BY FullTurn
    <2> QED BY <2>1, <2>2
<1>3. \A i \in 0..(K-1), j \in 0..(n-1) : segment[i][j] = <<Upper(q, i, j), Lower(q, i, j)>>
    <2> TAKE i \in 0..(K-1), j \in 0..(n-1)
    <2>1. i \in 0..K /\ i + 1 \in 0..K /\ j \in 0..n /\ j + 1 \in 0..n
        OBVIOUS
    <2>2. segment[i][j] = Segment(Point(i, j), Point(i+1, j), Point(i, j+1), Point(i+1, j+1))
        BY <2>1
    <2>3. /\ q[i][j] = Point(i, j) /\ q[i+1][j] = Point(i+1, j)
          /\ q[i][j+1] = Point(i, j+1) /\ q[i+1][j+1] = Point(i+1, j+1)
        BY <2>1
    <2> HIDE DEF Point, q, segment
    <2> QED BY <2>2, <2>3 DEF Segment, Upper, Lower
<1>4. Wraps(q, K, n)
    <2>1. n % n = 0 /\ 0 % n = 0
        BY FullTurn
    <2>2. 0 \in 0..K /\ K \in 0..K /\ 0 \in 0..n /\ n \in 0..n
        OBVIOUS
    <2>3. \A i \in 0..K : q[i][n] = q[i][0]
        BY <2>1, <2>2
    <2>4. \A j \in 0..n : q[0][j] = q[0][0] /\ q[K][j] = q[K][0]
        BY <2>2
    <2> QED BY <2>3, <2>4 DEF Wraps
<1> HIDE DEF Point, segment, q
<1>5. /\ IsFiniteSet(F)
      /\ \A f : f \in F <=> \E i \in 0..(K-1), j \in 0..(n-1) :
                               f = segment[i][j][1] \/ f = segment[i][j][2]
    <2>1. \A i \in 0..(K-1), j \in 0..(n-1) : \E a, b : segment[i][j] = <<a, b>>
        BY <1>3
    <2> QED BY <2>1, StripsAre
<1>6. Covers(F, q, K, n)
    <2>1. \A i \in 0..(K-1), j \in 0..(n-1) :
              segment[i][j][1] = Upper(q, i, j) /\ segment[i][j][2] = Lower(q, i, j)
        BY <1>3
    <2> HIDE DEF F
    <2> QED BY <1>5, <2>1 DEF Covers
<1>7. FacesDiffer(q, K, n)
    <2> SUFFICES ASSUME NEW i \in 0..(K-1), NEW k \in 0..(K-1), NEW j \in 0..(n-1), NEW l \in 0..(n-1)
                 PROVE  /\ Upper(q, i, j) # Lower(q, k, l)
                        /\ Upper(q, i, j) = Upper(q, k, l) => i = k /\ j = l
                        /\ Lower(q, i, j) = Lower(q, k, l) => i = k /\ j = l
        BY DEF FacesDiffer
    <2>1. /\ Upper(q, i, j) = <<At(i, j), At(i+1, j), At(i, After(j, n))>>
          /\ Upper(q, k, l) = <<At(k, l), At(k+1, l), At(k, After(l, n))>>
          /\ Lower(q, i, j) = <<At(i+1, j), At(i+1, After(j, n)), At(i, After(j, n))>>
          /\ Lower(q, k, l) = <<At(k+1, l), At(k+1, After(l, n)), At(k, After(l, n))>>
        BY <1>2 DEF Upper, Lower
    <2>2. After(j, n) = After(l, n) => j = l
        BY Beside
    <2>3. \A a, b, c, d : At(a, c) = At(b, d) => a = b /\ (a \notin {0, K} => c = d)
        OBVIOUS
    <2>4. i \notin {0, K} \/ i + 1 \notin {0, K}
        OBVIOUS
    <2>5. Upper(q, i, j) # Lower(q, k, l)
        BY <2>1, <2>3
    <2>6. ASSUME Upper(q, i, j) = Upper(q, k, l) PROVE i = k /\ j = l
        <3>1. At(i, j) = At(k, l) /\ At(i+1, j) = At(k+1, l)
            BY <2>1, <2>6
        <3> HIDE DEF At
        <3> QED BY <2>3, <2>4, <3>1
    <2>7. ASSUME Lower(q, i, j) = Lower(q, k, l) PROVE i = k /\ j = l
        <3>1. At(i+1, j) = At(k+1, l) /\ At(i, After(j, n)) = At(k, After(l, n))
            BY <2>1, <2>7
        <3> HIDE DEF At
        <3> QED BY <2>2, <2>3, <2>4, <3>1
    <2> QED BY <2>5, <2>6, <2>7
<1>8. Extended(q, K, n)
    <2> SUFFICES ASSUME NEW i \in 0..(K-1), NEW j \in 0..(n-1)
                 PROVE  /\ Upper(q, i, j)[1] # Upper(q, i, j)[2]
                        /\ Lower(q, i, j)[2] # Lower(q, i, j)[3]
        BY DEF Extended
    <2>1. /\ Upper(q, i, j)[1] = At(i, j) /\ Upper(q, i, j)[2] = At(i+1, j)
          /\ Lower(q, i, j)[2] = At(i+1, After(j, n)) /\ Lower(q, i, j)[3] = At(i, After(j, n))
        BY <1>2 DEF Upper, Lower
    <2>2. \A c, d : At(i, c) # At(i+1, d)
        OBVIOUS
    <2> HIDE DEF At
    <2> QED BY <2>1, <2>2
<1> HIDE DEF F
<1>9. K \in Nat \ {0}
    OBVIOUS
<1>10. Closed(F) /\ Oriented(F)
    BY <1>4, <1>5, <1>6, <1>7, <1>8, <1>9, GridIsClosed
<1> QED
    BY <1>1, <1>10

\* One face more is one use more for each of its edges.
LEMMA UsesMore ==
    ASSUME NEW F, IsFiniteSet(F), NEW f, f \notin F, NEW e
    PROVE  /\ IsFiniteSet(F \cup {f})
           /\ Uses(F, e) \in Nat
           /\ Uses(F \cup {f}, e) = Uses(F, e) + (IF RunsAlong(f, e) THEN 1 ELSE 0)
<1>1. PICK A : A = {g \in F : RunsAlong(g, e)}
    OBVIOUS
<1>2. IsFiniteSet(A) /\ Cardinality(A) \in Nat /\ f \notin A
    BY <1>1, FS_Subset, FS_CardinalityType, A \subseteq F
<1>3. Uses(F, e) = Cardinality(A)
    BY <1>1 DEF Uses, RunsAlong
<1>4. {g \in F \cup {f} : RunsAlong(g, e)} = IF RunsAlong(f, e) THEN A \cup {f} ELSE A
    BY <1>1
<1>5. Uses(F \cup {f}, e) = Cardinality({g \in F \cup {f} : RunsAlong(g, e)})
    BY DEF Uses, RunsAlong
<1>6. Cardinality(A \cup {f}) = Cardinality(A) + 1
    BY <1>2, FS_AddElement
<1>7. IsFiniteSet(F \cup {f})
    BY FS_AddElement
<1> QED
    BY <1>2, <1>3, <1>4, <1>5, <1>6, <1>7

\* The edges of a quadrilateral.
LEMMA QuadEdges ==
    ASSUME NEW x, NEW y, NEW z, NEW w, NEW e
    PROVE  RunsAlong(<<x, y, z, w>>, e) <=> e \in {<<x, y>>, <<y, z>>, <<z, w>>, <<w, x>>}
<1> DEFINE f == <<x, y, z, w>>
<1>1. DOMAIN f = {1, 2, 3, 4} /\ Len(f) = 4 /\ f[1] = x /\ f[2] = y /\ f[3] = z /\ f[4] = w
    OBVIOUS
<1> HIDE DEF f
<1>2. /\ EdgeAt(f, 1) = <<x, y>> /\ EdgeAt(f, 2) = <<y, z>>
      /\ EdgeAt(f, 3) = <<z, w>> /\ EdgeAt(f, 4) = <<w, x>>
    BY <1>1 DEF EdgeAt, Following
<1>3. RunsAlong(f, e) <=> e = <<x, y>> \/ e = <<y, z>> \/ e = <<z, w>> \/ e = <<w, x>>
    BY <1>1, <1>2 DEF RunsAlong
<1> QED
    BY <1>3 DEF f

\* How often the faces of the cube run along an edge.
LEMMA CubeEdges ==
    ASSUME NEW bottom \in { <<7, 6, 5, 4>>, <<4, 5, 6, 7>> }, NEW e
    PROVE  LET one(f) == IF RunsAlong(f, e) THEN 1 ELSE 0
           IN  /\ Uses({<<0, 1, 2, 3>>, <<7, 3, 2, 4>>, <<6, 5, 1, 0>>, <<7, 6, 0, 3>>,
                        <<1, 5, 4, 2>>, bottom}, e)
                   = one(<<0, 1, 2, 3>>) + one(<<7, 3, 2, 4>>) + one(<<6, 5, 1, 0>>)
                     + one(<<7, 6, 0, 3>>) + one(<<1, 5, 4, 2>>) + one(bottom)
<1> DEFINE one(f) == IF RunsAlong(f, e) THEN 1 ELSE 0
           F1 == {} \cup { <<0, 1, 2, 3>> }
           F2 == F1 \cup { <<7, 3, 2, 4>> }
           F3 == F2 \cup { <<6, 5, 1, 0>> }
           F4 == F3 \cup { <<7, 6, 0, 3>> }
           F5 == F4 \cup { <<1, 5, 4, 2>> }
           F6 == F5 \cup {bottom}
<1>1. /\ <<7, 3, 2, 4>> \notin F1 /\ <<6, 5, 1, 0>> \notin F2 /\ <<7, 6, 0, 3>> \notin F3
      /\ <<1, 5, 4, 2>> \notin F4 /\ bottom \notin F5 /\ <<0, 1, 2, 3>> \notin {}
    OBVIOUS
<1>2. IsFiniteSet({}) /\ Uses({}, e) = 0
    BY FS_EmptySet DEF Uses
<1> HIDE DEF one
<1>3. IsFiniteSet(F1) /\ Uses(F1, e) = 0 + one(<<0, 1, 2, 3>>)
    BY <1>1, <1>2, UsesMore DEF one
<1> HIDE DEF F1
<1>4. IsFiniteSet(F2) /\ Uses(F2, e) = Uses(F1, e) + one(<<7, 3, 2, 4>>)
    BY <1>1, <1>3, UsesMore DEF one
<1> HIDE DEF F2
<1>5. IsFiniteSet(F3) /\ Uses(F3, e) = Uses(F2, e) + one(<<6, 5, 1, 0>>)
    BY <1>1, <1>4, UsesMore DEF one
<1> HIDE DEF F3
<1>6. IsFiniteSet(F4) /\ Uses(F4, e) = Uses(F3, e) + one(<<7, 6, 0, 3>>)
    BY <1>1, <1>5, UsesMore DEF one
<1> HIDE DEF F4
<1>7. IsFiniteSet(F5) /\ Uses(F5, e) = Uses(F4, e) + one(<<1, 5, 4, 2>>)
    BY <1>1, <1>6, UsesMore DEF one
<1> HIDE DEF F5
<1>8. IsFiniteSet(F6) /\ Uses(F6, e) = Uses(F5, e) + one(bottom)
    BY <1>1, <1>7, UsesMore DEF one
<1>9. F6 = {<<0, 1, 2, 3>>, <<7, 3, 2, 4>>, <<6, 5, 1, 0>>, <<7, 6, 0, 3>>, <<1, 5, 4, 2>>, bottom}
    BY DEF F1, F2, F3, F4, F5
<1> HIDE DEF F6
<1>10. Uses(F6, e) = one(<<0, 1, 2, 3>>) + one(<<7, 3, 2, 4>>) + one(<<6, 5, 1, 0>>)
                     + one(<<7, 6, 0, 3>>) + one(<<1, 5, 4, 2>>) + one(bottom)
    <2>1. \A f : one(f) \in Nat
        BY DEF one
    <2> QED BY <1>3, <1>4, <1>5, <1>6, <1>7, <1>8, <2>1
<1> QED
    BY <1>9, <1>10 DEF one

\* The cube is closed, and but for its bottom wound alike.
LEMMA CubeIsClosed ==
    /\ Closed(ToSet(CubeQuads))
    /\ Oriented((ToSet(CubeQuads) \ { <<7, 6, 5, 4>> }) \cup { <<4, 5, 6, 7>> })
<1> DEFINE Sides == {<<0, 1, 2, 3>>, <<7, 3, 2, 4>>, <<6, 5, 1, 0>>, <<7, 6, 0, 3>>, <<1, 5, 4, 2>>}
           F == {<<0, 1, 2, 3>>, <<7, 3, 2, 4>>, <<6, 5, 1, 0>>, <<7, 6, 0, 3>>,
                 <<1, 5, 4, 2>>, <<7, 6, 5, 4>>}
           T == {<<0, 1, 2, 3>>, <<7, 3, 2, 4>>, <<6, 5, 1, 0>>, <<7, 6, 0, 3>>,
                 <<1, 5, 4, 2>>, <<4, 5, 6, 7>>}
<1>1. ToSet(CubeQuads) = F
    <2>1. DOMAIN CubeQuads = 1..6
        BY DEF CubeQuads
    <2> QED BY <2>1 DEF CubeQuads, ToSet
<1>2. (F \ { <<7, 6, 5, 4>> }) \cup { <<4, 5, 6, 7>> } = T
    OBVIOUS
<1>3. \A a, b : /\ (Uses(F, <<a, b>>) + Uses(F, <<b, a>>)) % 2 = 0
                /\ Uses(T, <<a, b>>) = Uses(T, <<b, a>>)
    <2> TAKE a, b
    <2> QED BY CubeEdges, QuadEdges
<1> HIDE DEF F, T
<1>4. Closed(F)
    <2> SUFFICES ASSUME NEW e \in EdgesOf(F)
                 PROVE  (Uses(F, e) + Uses(F, Reversed(e))) % 2 = 0
        BY DEF Closed
    <2>1. PICK a, b : e = <<a, b>>
        BY DEF EdgesOf, EdgeAt
    <2> QED BY <1>3, <2>1 DEF Reversed
<1>5. Oriented(T)
    <2> SUFFICES ASSUME NEW e \in EdgesOf(T)
                 PROVE  Uses(T, e) = Uses(T, Reversed(e))
        BY DEF Oriented
    <2>1. PICK a, b : e = <<a, b>>
        BY DEF EdgesOf, EdgeAt
    <2> QED BY <1>3, <2>1 DEF Reversed
<1> QED
    BY <1>1, <1>2, <1>4, <1>5

\* PrimitivesAreClosed: the index arithmetic of the constructors leaves no hole
\* at the seams, at the poles or where a ring ends, and turns no triangle over,
\* whatever the numbers of rings, slices and stacks.
THEOREM PrimitivesCloseUp ==
    ASSUME Solid
    PROVE  Spec => []PrimitivesAreClosed
<1>1. ASSUME TypeInv PROVE PrimitivesAreClosed
    <2>1. primitive \in Shapes \cup {NoShape}
        BY <1>1 DEF TypeInv, ShowInv
    <2>2. PICK p : p = primitive
        OBVIOUS
    <2>3. CASE p = NoShape
        <3>1. FacesOf(p) = <<>> /\ p.shape # "cube"
            BY <2>3 DEF FacesOf, NoShape
        <3>2. ToSet(<<>>) = {} /\ EdgesOf({}) = {}
            BY DEF ToSet, EdgesOf
        <3> QED BY <2>2, <3>1, <3>2 DEF PrimitivesAreClosed, Closed, Oriented
    <2>4. CASE p \in Shapes /\ p.shape = "cube"
        <3>1. FacesOf(p) = CubeQuads
            BY <2>4 DEF FacesOf
        <3>2. Reverse(<<7, 6, 5, 4>>) = <<4, 5, 6, 7>>
            BY DEF Reverse
        <3> QED BY <2>2, <2>4, <3>1, <3>2, CubeIsClosed DEF PrimitivesAreClosed, Turned
    <2>5. CASE p \in Shapes /\ p.shape = "torus"
        <3>1. FacesOf(p) = TorusTriangles(p.m, p.n) /\ p.shape # "cube"
            BY <2>5 DEF FacesOf
        <3>2. p.m \in Nat /\ p.n \in Nat /\ p.m >= 2 /\ p.n >= 2
            BY <2>5, ShapesAssumption DEF Solid
        <3> QED BY <2>2, <3>1, <3>2, TorusIsClosed DEF PrimitivesAreClosed
    <2>6. CASE p \in Shapes /\ p.shape = "sphere"
        <3>1. FacesOf(p) = SphereTriangles(p.m, p.n) /\ p.shape # "cube"
            BY <2>6 DEF FacesOf
        <3>2. p.m \in Nat \ {0} /\ p.n \in Nat /\ p.n >= 2
            BY <2>6, ShapesAssumption DEF Solid
        <3> QED BY <2>2, <3>1, <3>2, SphereIsClosed DEF PrimitivesAreClosed
    <2> QED BY <2>1, <2>2, <2>3, <2>4, <2>5, <2>6, ShapesAssumption
<1> QED
    BY <1>1, TypeInvHolds, PTL
============================================================================
