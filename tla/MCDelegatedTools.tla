--------------------------- MODULE MCDelegatedTools --------------------------
(* DelegatedTools on small sets of callbacks and requests.                     *)
EXTENDS DelegatedTools, TLC

\* Callbacks are interchangeable; so are the requests other than the first.
Symmetry == Permutations(Calls) \cup Permutations(Streams \ {First})
==============================================================================
