---------------------------- MODULE MCMeshShow ----------------------------
(* MeshShow for TLC: five points of a pentagon; a face with an index below *)
(* the first, and one with two corners; a library with two materials, one  *)
(* with a name defined twice, with a line that is swallowed and with Ns    *)
(* before Ks, one that begins without a name, and one that cannot be       *)
(* opened; and the convexity test on all quadrilaterals of a grid.         *)
EXTENDS MeshShow

\* A pentagon; its corners taken crosswise give faces that are not convex.
MCPoints == << <<0, 0>>, <<4, 0>>, <<6, 2>>, <<4, 4>>, <<0, 4>> >>
MCFaces == {<<1, 2, 3>>, <<1, 2, 4, 5>>, <<1, 4, 2, 5>>, <<1, 2, 3, 4, 5>>, <<1, 3, 5, 2, 4>>,
            <<0, 1, 2>>, <<1, 2>>}
MCSmallFaces == {<<1, 2, 3>>}

Line(k) == [kind |-> k]
Newmtl(nm) == [kind |-> "newmtl", name |-> nm]
MCLibraries ==
    { <<Newmtl("a"), Line("color"), Line("Ks"), Line("Ns"), Newmtl("b"), Line("Ns")>>,
      <<Line("bare"), Newmtl("b"), Newmtl("a"), Newmtl("a"), Line("color"),
        Line("Ns"), Line("ignored"), Line("Ks")>>,
      <<Line("ignored"), Line("Ks"), Newmtl("a")>>,
      <<>> }

MCHeap == {<<-1, 0>>, <<-2, 0>>}
MCShapes == {[shape |-> "cube"], [shape |-> "torus", m |-> 3, n |-> 2],
             [shape |-> "sphere", m |-> 3, n |-> 3]}

ASSUME TheyDoNotAskForProto == ProtoIsNotAsked
ASSUME PrimitivesAreSolid == Solid

\* The test never takes a strictly convex quadrilateral for a concave one.
ASSUME ConvexIsFoundConvex ==
    \A p \in [1..4 -> (0..2) \X (0..2)] : StrictlyConvex(p) => IsPolygonConvex(p)
===========================================================================
