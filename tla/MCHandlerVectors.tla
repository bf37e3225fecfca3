--------------------------- MODULE MCHandlerVectors ---------------------------
(* Instances of HandlerVectors for TLC. *)
EXTENDS HandlerVectors

\* No constant or property names a handler or a kind.
VectorSymmetry == Permutations(Handlers) \cup Permutations(Kinds)

===============================================================================
