----------------------------- MODULE MCApiServer ----------------------------
(* Instances of ApiServer for TLC.                                         *)
EXTENDS ApiServer, TLC

\* One apiserver with all the handlers.
OneProcess == {Handler}

\* Requests are interchangeable, and so are the keys they ask for.
Symmetry == Permutations(Reader) \cup Permutations(Query)

=============================================================================
