-------------------------- MODULE MCUpdatePipeline --------------------------
(* Instances of UpdatePipeline for TLC.                                    *)
EXTENDS UpdatePipeline, TLC

\* One apiserver with all the handlers.
OneProcess == {Handler}

\* Handlers are interchangeable, and so are clusters.
Symmetry == Permutations(Handler) \cup Permutations(Cluster)

=============================================================================
