---------------------------- MODULE Primitives ----------------------------
(***************************************************************************)
(* The meshes the framework makes itself: Cube, Torus and Sphere.  A       *)
(* corner is named by where it lies: a corner of the cube by its index in  *)
(* _vertices, a point of the torus by its two angles, a point of the       *)
(* sphere by its two angles or as a pole.  The copies the constructors     *)
(* make of a point lie at the same place, and an angle and the angle one   *)
(* turn later are the same: the rounding of sine and cosine is left out.   *)
(***************************************************************************)
EXTENDS Polygons, SequencesExt

\* Top, bottom, left, right, front, back.
CubeQuads ==
    << <<0, 1, 2, 3>>, <<7, 6, 5, 4>>, <<7, 3, 2, 4>>,
       <<6, 5, 1, 0>>, <<7, 6, 0, 3>>, <<1, 5, 4, 2>> >>

\* The two triangles of one segment: Point1, Point2, Point3, and Point2,
\* Point4, Point3.
Segment(p1, p2, p3, p4) == << <<p1, p2, p3>>, <<p2, p4, p3>> >>

\* One segment after the other, the second index running faster.
Strips(m, n, segment) ==
    FlattenSeq([k \in 1..(m * n) |-> segment[(k - 1) \div n][(k - 1) % n]])

\* The segments of a ring: j runs to MinorNum, so the first comes once more.
\* Mutant: the ring is left open.
Rings_Open(MinorNum) == MinorNum - 1
Rings(MinorNum) == MinorNum + 1

TorusTriangles(MajorNum, MinorNum) ==
    LET Point(i, j) == <<i % MajorNum, j % MinorNum>>
    IN  Strips(MajorNum, Rings(MinorNum),
               [i \in 0..(MajorNum-1) |-> [j \in 0..MinorNum |->
                   Segment(Point(i, j), Point(i+1, j), Point(i, j+1), Point(i+1, j+1))]])

SphereTriangles(Slices, Stacks) ==
    LET Point(i, j) == <<i, IF i \in {0, Stacks} THEN 0 ELSE j % Slices>>
    IN  Strips(Stacks, Slices,
               [i \in 0..(Stacks-1) |-> [j \in 0..(Slices-1) |->
                   Segment(Point(i, j), Point(i+1, j), Point(i, j+1), Point(i+1, j+1))]])
===========================================================================
