------------------------------ MODULE MCRoutes ------------------------------
(***************************************************************************)
(* Routes for TLC: three names, a caller, and pages of two names.          *)
(***************************************************************************)
EXTENDS Routes

CONSTANT u

\* Two times of a day, and one of the next.
Early   == [day |-> 1, second |-> 1]
Late    == [day |-> 1, second |-> 2]
NextDay == [day |-> 2, second |-> 1]

Cluster(status, time, service) ==
  [status |-> status, region |-> "va6", environment |-> "prod",
   lastUpdated |-> time, service |-> service]

Old     == Cluster("Active", Early, TRUE)
Updated == Cluster("Active", NextDay, FALSE)
Deleted == Cluster("Deleted", NextDay, TRUE)

SmallItem == {Old, Updated, Deleted}

SmallTable == {<<Old, Updated, Old>>, <<Nil, Updated, Updated>>, <<Deleted, Updated, Nil>>}

Plain == [status |-> Nil, region |-> Nil, environment |-> Nil, lastUpdated |-> Nil,
          conditions |-> {}]

Condition(operand, time) ==
  [Plain EXCEPT !.conditions = {[field |-> "lastUpdated", operand |-> operand, value |-> time]}]

SmallQuery == {Plain, [Plain EXCEPT !.lastUpdated = Late],
               Condition(">", Early), Condition("<", NextDay)}

SmallTags == {{}, {[key |-> "scaling", value |-> "on"]}, {[key |-> "scaling", value |-> "maybe"]}}

=============================================================================
