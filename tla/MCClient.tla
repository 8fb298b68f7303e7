------------------------------ MODULE MCClient ------------------------------
(***************************************************************************)
(* A small client for TLC.                                                 *)
(***************************************************************************)
EXTENDS Client, TLC

CONSTANTS k1, on, off, a1, dms, w1, w2, f1, f2

TagMap(v) == [k \in Tag |-> IF k = k1 THEN v ELSE Nil]

\* The second rule for a1 is never used.
SmallAlertMap ==
  << [alertName |-> a1, onFiring |-> TagMap(on), onResolved |-> TagMap(off)],
     [alertName |-> a1, onFiring |-> TagMap(off), onResolved |-> TagMap(on)] >>

SmallOwner == [f \in Field |-> IF f = f1 THEN w1 ELSE w2]

\* Objects are made plain, with the skip-ca-cert annotation, or with an
\* excluded tag and a request to keep the caches.
SmallAnnotations ==
  { [skipCA |-> FALSE, excluded |-> {}, quiet |-> FALSE],
    [skipCA |-> TRUE, excluded |-> {}, quiet |-> FALSE],
    [skipCA |-> FALSE, excluded |-> {k1}, quiet |-> TRUE] }

=============================================================================
