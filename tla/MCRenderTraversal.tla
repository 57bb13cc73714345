------------------------ MODULE MCRenderTraversal ------------------------
(* RenderTraversal for TLC: which graphs the runs draw.                    *)
EXTENDS RenderTraversal

\* Every tree of Size nodes.
AllTrees == Trees

\* Every tree of Size - 1 nodes, with an empty group added last.
SmallerTrees ==
    {t \in Trees : t.par[Size] = 1 /\ t.kind[Size] = "group"}

\* The larger trees that look like those of the applications: a geometry is
\* the only child of a transform, only the root is a group, one light.
ApplicationTrees ==
    {t \in Trees :
        /\ \A n \in Nodes \ {1} :
              /\ t.kind[n] # "group"
              /\ t.kind[n] = "geometry" =>
                    /\ t.kind[t.par[n]] = "transform"
                    /\ \A m \in Nodes \ {1} : t.par[m] = t.par[n] => m = n
        /\ Cardinality({n \in Nodes : t.kind[n] = "light"}) = 1}

CheckedTrees == SmallerTrees \cup ApplicationTrees

\* Trees with lights, for the run about an unset flag.
LightTrees == {t \in Trees : \E n \in Nodes : t.kind[n] = "light"}
===========================================================================
