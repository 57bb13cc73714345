-------------------------- MODULE MCRenderState --------------------------
(* RenderState for TLC: interchangeable objects and capabilities.          *)
EXTENDS RenderState, TLC

Interchangeable == Permutations(States) \cup Permutations(Capabilities)
==========================================================================
