---------------------------- MODULE MCCurlSockets ---------------------------
(* Instances of CurlSockets for TLC.                                       *)
EXTENDS CurlSockets, TLC

\* Nothing depends on the names. Used with safety properties only.
Symmetry == Permutations(Handlers) \cup Permutations(Fds)
            \cup Permutations(Contexts) \cup Permutations(Tokens)
=============================================================================
