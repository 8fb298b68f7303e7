------------------------------- MODULE Queries ------------------------------
(***************************************************************************)
(* Which clusters a list shows: the filter of ListClusters and of          *)
(* ListClustersWithFilter (pkg/database/database.go), the conditions of a  *)
(* request (pkg/apiserver/models/filter.go) as pkg/database/filter.go      *)
(* translates them, and the pages that are cut out of the result.          *)
(*                                                                         *)
(* A time is a day and a second of that day.  The table has it as a number *)
(* (lastUpdatedUnix) and, in the cluster itself, as the text of RFC 3339.  *)
(***************************************************************************)
EXTENDS Integers, SequencesExt, Ordered

CONSTANT Nil

Before(s, t) == s.day < t.day \/ (s.day = t.day /\ s.second < t.second)

-----------------------------------------------------------------------------
(* The parameters of v1.                                                   *)

\* region, environment, status and lastUpdated are Nil when they are not given.
ListFilter(item, q) ==
  /\ IF q.status # Nil THEN item.status = q.status ELSE item.status # "Deleted"
  /\ q.region # Nil => item.region = q.region
  /\ q.environment # Nil => item.environment = q.environment
  /\ q.lastUpdated # Nil => ~Before(item.lastUpdated, q.lastUpdated)

-----------------------------------------------------------------------------
(* The conditions of v2.                                                   *)

\* The alternatives of the operand are tried in the order of AllowedOperands:
\* of "<=" only "<" is taken, and "=" begins the value.
NewFilterConditionFromQuery(c) ==
  IF c.operand = "<="
  THEN [field |-> c.field, operand |-> "<", value |-> c.value, prefix |-> "="]
  ELSE [field |-> c.field, operand |-> c.operand, value |-> c.value, prefix |-> ""]

\* A date is given to an ordering operand as the text of date.String(), with a
\* blank after the day where the table has a "T": the texts differ there at
\* the latest, and the blank is the smaller one.  A text that begins with "="
\* is no date, and it is greater than every text that begins with a digit.
parseValueLess(stored, c) == c.prefix = "=" \/ stored.day < c.value.day

DateHolds(stored, c) ==
  CASE c.operand = "=" -> stored = c.value
    [] c.operand = "<" -> parseValueLess(stored, c)
    [] c.operand \in {">", ">="} -> ~parseValueLess(stored, c)

\* Names of regions and the like begin with a letter, which is greater than
\* "="; of the ordering operands only "<=" is used with them here.
WordHolds(stored, c) == c.operand = "=" /\ c.prefix = "" /\ stored = c.value

\* Mutant: the comparison of dates the other way round.
HoldsReversed(item, c) ==
  IF c.field = "lastUpdated"
  THEN CASE c.operand = "=" -> item.lastUpdated = c.value
         [] c.operand = "<" -> ~parseValueLess(item.lastUpdated, c)
         [] c.operand \in {">", ">="} -> parseValueLess(item.lastUpdated, c)
  ELSE WordHolds(item[c.field], c)

Holds(item, c) ==
  IF c.field = "lastUpdated" THEN DateHolds(item.lastUpdated, c)
                             ELSE WordHolds(item[c.field], c)

\* Every status is shown, "Deleted" too.
Build(item, conditions) ==
  \A c \in conditions : Holds(item, NewFilterConditionFromQuery(c))

Matches(item, q) ==
  /\ item # Nil
  /\ IF q.conditions = {} THEN ListFilter(item, q) ELSE Build(item, q.conditions)

-----------------------------------------------------------------------------
(* Pages.                                                                  *)

EndIndex(count, offset, limit) == IF offset + limit > count THEN count ELSE offset + limit

\* The slice of Go panics when it begins after the end.
Panics(list, offset, limit) == offset > EndIndex(Len(list), offset, limit)

\* Mutant: the last index is left out.
PageShort(list, offset, limit) == SubSeq(list, offset + 1, EndIndex(Len(list), offset, limit) - 1)

Page(list, offset, limit) == SubSeq(list, offset + 1, EndIndex(Len(list), offset, limit))

\* Mutant: the beginning of the page is compared, not its end.
MoreByOffset(list, offset, limit) == offset < Len(list)

More(list, offset, limit) == EndIndex(Len(list), offset, limit) < Len(list)

=============================================================================
