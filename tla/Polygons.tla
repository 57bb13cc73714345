----------------------------- MODULE Polygons -----------------------------
(***************************************************************************)
(* The faces of a mesh as sequences of corners: the test by which the      *)
(* loader tells convex from concave ones, and what a mesh made of faces    *)
(* should be.  Coordinates are integers; a point is <<x, y>>, since the    *)
(* test never looks at z.                                                  *)
(***************************************************************************)
EXTENDS Integers, Sequences, FiniteSets

Sign(x) == IF x < 0 THEN -1 ELSE 1

\* Vector number i of the walk: from the last point to the first, then from
\* each point to the one before it.
Step(p, i, axis) ==
    IF i = 1 THEN p[Len(p)][axis] - p[1][axis] ELSE p[i-1][axis] - p[i][axis]

\* How often the walk around p turns back along an axis.
Changes(p, axis) ==
    Cardinality({i \in 2..Len(p) : Sign(Step(p, i, axis)) # Sign(Step(p, i-1, axis))})

IsPolygonConvex(p) == Len(p) < 4 \/ (Changes(p, 1) <= 2 /\ Changes(p, 2) <= 2)
-----------------------------------------------------------------------------
(* Reference definitions. *)

Following(p, i) == IF i = Len(p) THEN 1 ELSE i + 1

\* Twice the signed area of the triangle a b c.
Turn(a, b, c) == (b[1] - a[1]) * (c[2] - a[2]) - (b[2] - a[2]) * (c[1] - a[1])

\* No point lies on the other side of an edge: all the points are to the
\* left of every edge, or all to the right.
StrictlyConvex(p) ==
    \E side \in {-1, 1} : \A i, k \in 1..Len(p) :
        k \notin {i, Following(p, i)} => Turn(p[i], p[Following(p, i)], p[k]) * side > 0

\* The edges of a face, each from a corner to the following one.
EdgeAt(c, i) == <<c[i], c[Following(c, i)]>>

\* How many of a set of faces run along the edge e.
Uses(faces, e) == Cardinality({f \in faces : \E i \in DOMAIN f : EdgeAt(f, i) = e})

EdgesOf(faces) == UNION {{EdgeAt(f, i) : i \in DOMAIN f} : f \in faces}
Reversed(e) == <<e[2], e[1]>>

\* No hole: along every edge an even number of faces meet.
Closed(faces) ==
    \A e \in EdgesOf(faces) : (Uses(faces, e) + Uses(faces, Reversed(e))) % 2 = 0

\* All faces are wound the same way: neighbours run along their common edge
\* in opposite directions, so that either all or none show their front.
Oriented(faces) ==
    \A e \in EdgesOf(faces) : Uses(faces, e) = Uses(faces, Reversed(e))
===========================================================================
