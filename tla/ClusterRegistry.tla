--------------------------- MODULE ClusterRegistry --------------------------
(***************************************************************************)
(* What the update path promises of the table: a last-writer-wins map from *)
(* cluster names to items, in which a cluster keeps the RegisteredAt it    *)
(* was first stored with.                                                  *)
(***************************************************************************)
EXTENDS Integers

CONSTANTS Cluster, Item, Nil

VARIABLE registry

Init == registry = [c \in Cluster |-> Nil]

\* item may replace old: a cluster's first item, or one that is not older and
\* keeps RegisteredAt.
Supersedes(item, old) ==
  \/ old = Nil
  \/ /\ item.lastUpdated >= old.lastUpdated
     /\ item.registeredAt = old.registeredAt

Update(c) ==
  LET item == registry'[c]
  IN  /\ item \in Item
      /\ item.body.cluster = c
      /\ Supersedes(item, registry[c])
      /\ registry' = [registry EXCEPT ![c] = item]

Next == \E c \in Cluster : Update(c)

Spec == Init /\ [][Next]_registry

=============================================================================
