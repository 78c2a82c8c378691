------------------------- MODULE MCAsyncHassHandler -------------------------
EXTENDS AsyncHassHandler, TLC

\* Handlers are interchangeable, and so are the reports when NotFound is not
\* one of them. Used only where every property is a safety property.
Symmetry == Permutations(Handlers) \cup Permutations(Reports)
=============================================================================
