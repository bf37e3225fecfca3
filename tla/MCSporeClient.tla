--------------------------- MODULE MCSporeClient ---------------------------
(* Instances of SporeClient, and of the channel it implements, for TLC. *)
EXTENDS SporeClientChannel, TLC

\* Threads run the same code and no constant or property names one of them.
ThreadSymmetry == Permutations(Threads)

=============================================================================
