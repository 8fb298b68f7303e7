----------------------------- MODULE ListProofs -----------------------------
(***************************************************************************)
(* What one request does to a list that is read page by page, in Routes,   *)
(* for any number of clusters, any page size and any query.                *)
(*                                                                         *)
(* The steps of a list relate a number, the offset that the reader counts  *)
(* up by its limit, to sets that change under it: the clusters that match  *)
(* now, and those that the query found.  The invariant Orderly compares    *)
(* them by counting.  As long as no cluster begins to match, at most       *)
(* offset clusters lie up to the last one that was listed, so the next     *)
(* page begins after it; as long as none ceases to match, at least offset  *)
(* clusters lie before each one that is yet to be listed, so the page      *)
(* begins no later than there, and not past the end.                       *)
(***************************************************************************)
EXTENDS Routes, FiniteSetTheorems, TLAPS

-----------------------------------------------------------------------------
(* Sets of numbers in order.                                               *)

\* InOrder is what it is meant to be: every finite set of numbers has such a
\* sequence, and it leaves none of them out.
LEMMA InOrderSorts ==
  ASSUME NEW S \in SUBSET Nat, IsFiniteSet(S)
  PROVE  /\ Cardinality(S) \in Nat
         /\ InOrder(S) \in [1 .. Cardinality(S) -> S]
         /\ \A i, j \in 1 .. Cardinality(S) : i < j => InOrder(S)[i] < InOrder(S)[j]
         /\ \A n \in S : \E i \in 1 .. Cardinality(S) : InOrder(S)[i] = n
<1> DEFINE k == Cardinality(S)
           below(n) == {m \in S : m <= n}
           rank == [n \in S |-> Cardinality(below(n))]
           s == [i \in 1 .. k |-> CHOOSE n \in S : rank[n] = i]
<1>1. k \in Nat
  BY FS_CardinalityType
<1>2. ASSUME NEW n \in S
      PROVE  /\ below(n) \in SUBSET S /\ n \in below(n)
             /\ IsFiniteSet(below(n)) /\ Cardinality(below(n)) \in 1 .. k
  <2>1. below(n) \in SUBSET S /\ n \in below(n)
    OBVIOUS
  <2>2. IsFiniteSet(below(n)) /\ Cardinality(below(n)) <= k
    BY <2>1, FS_Subset
  <2>3. Cardinality(below(n)) \in Nat
    BY <2>2, FS_CardinalityType
  <2>4. Cardinality(below(n)) # 0
    BY <2>1, <2>2, FS_EmptySet
  <2> QED BY <1>1, <2>1, <2>2, <2>3, <2>4
<1>3. ASSUME NEW m \in S, NEW n \in S, m < n
      PROVE  Cardinality(below(m)) < Cardinality(below(n))
  <2>1. below(m) \in SUBSET below(n) /\ n \in below(n) /\ n \notin below(m)
    <3>1. m \in Nat /\ n \in Nat /\ \A x \in S : x \in Nat
      OBVIOUS
    <3>2. n <= n /\ ~(n <= m) /\ \A x \in S : x <= m => x <= n
      BY <1>3, <3>1
    <3> QED BY <3>2, Zenon
  <2>2. /\ Cardinality(below(m)) <= Cardinality(below(n))
        /\ Cardinality(below(m)) # Cardinality(below(n))
    BY <1>2, <2>1, FS_Subset
  <2> QED BY <1>2, <2>2
<1>4. rank \in Injection(S, 1 .. k)
  <2>1. rank \in [S -> 1 .. k]
    BY <1>2
  <2>2. ASSUME NEW m \in S, NEW n \in S, m # n PROVE rank[m] # rank[n]
    <3>1. m < n \/ n < m
      BY <2>2
    <3> QED BY <1>2, <1>3, <3>1
  <2> QED BY <2>1, <2>2, Zenon DEF Injection, IsInjective
<1>5. rank \in Surjection(S, 1 .. k)
  <2>1. IsFiniteSet(1 .. k) /\ Cardinality(1 .. k) = k
    BY <1>1, FS_Interval
  <2> QED BY <1>4, <2>1, FS_Injection
<1>6. ASSUME NEW i \in 1 .. k PROVE s[i] \in S /\ rank[s[i]] = i
  <2>1. \E n \in S : rank[n] = i
    BY <1>5, Zenon DEF Surjection
  <2> QED BY <2>1, Zenon
<1>7. s \in [1 .. k -> S]
  BY <1>6, Zenon
<1>8. ASSUME NEW i \in 1 .. k, NEW j \in 1 .. k, i < j PROVE s[i] < s[j]
  <2>1. s[i] \in S /\ s[j] \in S /\ rank[s[i]] < rank[s[j]]
    BY <1>6, <1>8, Zenon
  <2>2. s[i] # s[j] /\ ~(s[j] < s[i])
    <3>1. rank[s[i]] \in 1 .. k /\ rank[s[j]] \in 1 .. k
      BY <1>6, Zenon
    <3>2. s[j] < s[i] => rank[s[j]] < rank[s[i]]
      BY <1>3, <2>1, Zenon
    <3> HIDE DEF rank, s
    <3> QED BY <1>1, <2>1, <3>1, <3>2
  <2>3. s[i] \in Nat /\ s[j] \in Nat
    BY <2>1, Zenon
  <2> HIDE DEF s
  <2> QED BY <2>2, <2>3
<1> HIDE DEF s, rank, below
<1>9. /\ InOrder(S) \in [1 .. k -> S]
      /\ \A i, j \in DOMAIN InOrder(S) : i < j => InOrder(S)[i] < InOrder(S)[j]
  BY <1>7, <1>8, Zenon DEF InOrder
<1>10. InOrder(S) \in Surjection(1 .. k, S)
  <2>1. InOrder(S) \in Injection(1 .. k, S)
    <3>1. SUFFICES ASSUME NEW i \in 1 .. k, NEW j \in 1 .. k, i # j
                   PROVE  InOrder(S)[i] # InOrder(S)[j]
      BY <1>9 DEF Injection, IsInjective
    <3>2. InOrder(S)[i] \in Nat /\ InOrder(S)[j] \in Nat
      BY <1>9, Zenon
    <3>3. i < j \/ j < i
      BY <1>1, <3>1
    <3> QED BY <1>9, <3>2, <3>3
  <2>2. IsFiniteSet(1 .. k) /\ Cardinality(1 .. k) = k
    BY <1>1, FS_Interval
  <2> QED BY <2>1, <2>2, FS_Injection
<1> QED BY <1>1, <1>9, <1>10 DEF Surjection

\* In a sequence that ascends, as many elements are less than or equal to the
\* i-th one as it has positions up to i.
LEMMA CountUpTo ==
  ASSUME NEW k \in Nat, NEW s \in [1 .. k -> Nat], NEW i \in 1 .. k,
         \A a, b \in 1 .. k : a < b => s[a] < s[b]
  PROVE  /\ IsFiniteSet({s[a] : a \in 1 .. k})
         /\ Cardinality({m \in {s[a] : a \in 1 .. k} : m <= s[i]}) = i
<1> DEFINE T == {m \in {s[a] : a \in 1 .. k} : m <= s[i]}
           f == [a \in 1 .. i |-> s[a]]
<1>1. ASSUME NEW a \in 1 .. k PROVE s[a] <= s[i] <=> a <= i
  <2>1. s[a] \in Nat /\ s[i] \in Nat
    OBVIOUS
  <2>2. a < i \/ a = i \/ i < a
    OBVIOUS
  <2> QED BY <2>1, <2>2
<1>2. f \in Bijection(1 .. i, T)
  <2>1. f \in [1 .. i -> T]
    BY <1>1
  <2>2. \A a, b \in 1 .. i : f[a] = f[b] => a = b
    <3>1. SUFFICES ASSUME NEW a \in 1 .. i, NEW b \in 1 .. i, a # b PROVE s[a] # s[b]
      OBVIOUS
    <3>2. a \in 1 .. k /\ b \in 1 .. k /\ (a < b \/ b < a)
      BY <3>1
    <3>3. s[a] \in Nat /\ s[b] \in Nat
      BY <3>2
    <3> QED BY <3>2, <3>3
  <2>3. \A m \in T : \E a \in 1 .. i : f[a] = m
    BY <1>1
  <2> HIDE DEF f, T
  <2> QED BY <2>1, <2>2, <2>3 DEF Bijection, Injection, Surjection, IsInjective
<1>3. Cardinality(T) = i
  <2> HIDE DEF f, T
  <2> QED BY <1>2, FS_CountingElements DEF ExistsBijection
<1>4. IsFiniteSet({s[a] : a \in 1 .. k})
  <2>1. s \in Surjection(1 .. k, {s[a] : a \in 1 .. k})
    BY DEF Surjection
  <2>2. IsFiniteSet(1 .. k)
    BY FS_Interval
  <2> QED BY <2>1, <2>2, FS_Surjection
<1> QED BY <1>3, <1>4

-----------------------------------------------------------------------------
(* The invariant.                                                          *)

Found == [name: Name, service: BOOLEAN]

Names(found) == {found[i].name : i \in DOMAIN found}

UpTo(S, n) == {m \in S : m <= n}

Ascending(found) == \A i, j \in DOMAIN found : i < j => found[i].name < found[j].name

\* The walk goes on, and is in the middle of a request.
Open(w) == w.stage \in {"ask", "query", "answer"}
Reading(w) == w.stage \in {"query", "answer"}

\* What the query has found: in order, nothing past its key, every cluster up
\* to there that matched all the time, and only clusters that match now unless
\* one ceased to, and all of those unless one began to.
Queried(table, w) ==
  /\ w.steady \subseteq MatchingIn(table, w)
  /\ w.stage = "answer" => w.key = N
  /\ w.route = "services" => w.offset = 0 /\ (Open(w) => w.listed = <<>>)
  /\ Reading(w) =>
       /\ Ascending(w.found)
       /\ \A n \in Names(w.found) : n <= w.key
       /\ \A n \in w.steady : n <= w.key =>
            \E i \in DOMAIN w.found :
              w.found[i].name = n /\ (w.route = "services" => w.found[i].service)
       /\ ~w.left => Names(w.found) \subseteq CountedIn(table, w)
       /\ ~w.joined => UpTo(CountedIn(table, w), w.key) \subseteq Names(w.found)

\* As long as no cluster begins to match: no more clusters than the offset
\* says are, or can be found by this query, among those up to the last one
\* that was listed.
Behind(table, w, last, B) ==
  /\ \A i \in DOMAIN w.listed : w.listed[i] <= last
  /\ CountedIn(table, w) \subseteq B
  /\ Reading(w) => Names(w.found) \subseteq B
  /\ Cardinality(UpTo(B, last)) <= w.offset

Passed(table, w) ==
  /\ IsInjective(w.listed)
  /\ Open(w) /\ w.route = "clusters" =>
       \E last \in 0 .. N, B \in SUBSET Name : Behind(table, w, last, B)

\* As long as no cluster ceases to match: at least as many clusters as the
\* offset says match, and are found by this query, before each one that is yet
\* to be listed.
Enough(table, w, B) ==
  /\ w.offset <= Cardinality(B)
  /\ Reading(w) => UpTo(B, w.key) \subseteq Names(w.found)
  /\ \A n \in w.steady \ ToSet(w.listed) : w.offset <= Cardinality({m \in B : m < n})

Ahead(table, w) ==
  /\ w.stage # "panic"
  /\ Open(w) /\ w.route = "clusters" =>
       \E B \in SUBSET CountedIn(table, w) : Enough(table, w, B)
  /\ (w.stage = "done" /\ ~w.failed /\ (w.route = "clusters" \/ w.limit >= N))
       => w.steady \subseteq ToSet(w.listed)

Orderly(table, w) ==
  /\ Queried(table, w)
  /\ ~w.joined => Passed(table, w)
  /\ ~w.left => Ahead(table, w)

WalkInv ==
  /\ item \in [Name -> Item \cup {Nil}]
  /\ walk \in [User -> Walk \cup {Nil}]
  /\ \A u \in User : walk[u] # Nil => Orderly(item, walk[u])

-----------------------------------------------------------------------------
(* Counting what was found.                                                *)

\* Clusters are numbered from 1 to N.
LEMMA NameBounds == N \in Nat /\ Name \in SUBSET Nat /\ \A n \in Name : 0 < n /\ n <= N
<1>1. N \in Nat
  BY RoutesAssumption
<1> QED BY <1>1 DEF Name

\* There are at most N clusters to count.
LEMMA SubsetsOfName ==
  ASSUME NEW S \in SUBSET Name
  PROVE  /\ S \in SUBSET Nat /\ IsFiniteSet(S)
         /\ Cardinality(S) \in Nat /\ Cardinality(S) <= N
<1>1. IsFiniteSet(Name) /\ Cardinality(Name) = N /\ Name \in SUBSET Nat
  BY RoutesAssumption, FS_Interval DEF Name
<1> QED BY <1>1, FS_Subset, FS_CardinalityType, Zenon

\* The i-th cluster that was found has i - 1 before it.
LEMMA FoundCount ==
  ASSUME NEW found \in Seq(Found), Ascending(found), NEW i \in DOMAIN found
  PROVE  /\ Cardinality(UpTo(Names(found), found[i].name)) = i
         /\ Cardinality({m \in Names(found) : m < found[i].name}) = i - 1
<1> DEFINE k == Len(found)
           s == [a \in 1 .. k |-> found[a].name]
           T == {s[a] : a \in 1 .. k}
<1>1. k \in Nat /\ DOMAIN found = 1 .. k /\ Name \subseteq Nat
  BY NameBounds
<1>2. \A a \in 1 .. k : found[a] \in Found
  BY <1>1
<1>3. s \in [1 .. k -> Nat]
  BY <1>1, <1>2, Zenon DEF Found
<1>4. \A a, b \in 1 .. k : a < b => s[a] < s[b]
  BY <1>1 DEF Ascending
<1>5. IsFiniteSet(T) /\ Cardinality({m \in T : m <= s[i]}) = i
  <2> HIDE DEF s
  <2> QED BY <1>1, <1>3, <1>4, CountUpTo, Zenon
<1>6. T = Names(found) /\ s[i] = found[i].name
  BY <1>1 DEF Names
<1> HIDE DEF T, s
<1>7. Cardinality(UpTo(T, s[i])) = i /\ IsFiniteSet(UpTo(T, s[i])) /\ s[i] \in UpTo(T, s[i])
  <2>1. UpTo(T, s[i]) \in SUBSET T
    BY DEF UpTo
  <2>2. s[i] \in T /\ s[i] <= s[i]
    BY <1>1, <1>3 DEF T
  <2> QED BY <1>5, <2>1, <2>2, FS_Subset DEF UpTo
<1>8. {m \in T : m < s[i]} = UpTo(T, s[i]) \ {s[i]}
  <2>1. \A m \in T : m \in Nat
    BY <1>3 DEF T
  <2>2. s[i] \in Nat
    BY <1>1, <1>3
  <2>3. \A m \in T : m < s[i] <=> m <= s[i] /\ m # s[i]
    BY <2>1, <2>2
  <2> QED BY <2>3, Zenon DEF UpTo
<1>9. Cardinality({m \in T : m < s[i]}) = i - 1
  BY <1>7, <1>8, FS_RemoveElement, Zenon
<1> QED BY <1>6, <1>7, <1>9

\* A query finds no cluster twice.
LEMMA FoundLength ==
  ASSUME NEW found \in Seq(Found), Ascending(found)
  PROVE  /\ Names(found) \in SUBSET Name
         /\ Cardinality(Names(found)) = Len(found)
<1>1. Len(found) \in Nat /\ DOMAIN found = 1 .. Len(found)
  OBVIOUS
<1>2. Names(found) \in SUBSET Name
  <2>1. \A a \in DOMAIN found : found[a] \in Found
    OBVIOUS
  <2>2. \A a \in DOMAIN found : found[a].name \in Name
    BY <2>1 DEF Found
  <2> QED BY <2>2, Zenon DEF Names
<1>3. CASE Len(found) = 0
  <2>1. Names(found) = {}
    BY <1>1, <1>3 DEF Names
  <2> QED BY <1>2, <1>3, <2>1, FS_EmptySet
<1>4. CASE Len(found) # 0
  <2> DEFINE i == Len(found)
  <2>1. i \in DOMAIN found
    BY <1>1, <1>4
  <2>2. \A a \in DOMAIN found : found[a].name \in Nat
    <3>1. \A a \in DOMAIN found : found[a].name \in Name
      BY <1>2, Zenon DEF Names
    <3> QED BY <3>1, NameBounds, Zenon
  <2>3. \A a \in DOMAIN found : found[a].name <= found[i].name
    <3>1. SUFFICES ASSUME NEW a \in DOMAIN found PROVE found[a].name <= found[i].name
      OBVIOUS
    <3>2. a < i \/ a = i
      BY <1>1
    <3> QED BY <2>1, <2>2, <3>2 DEF Ascending
  <2>4. UpTo(Names(found), found[i].name) = Names(found)
    BY <2>3 DEF UpTo, Names
  <2> QED BY <1>2, <2>1, <2>4, FoundCount, Zenon
<1> QED BY <1>3, <1>4

-----------------------------------------------------------------------------
(* One request of a walk.                                                  *)

\* What matches depends on the query and the route of a walk only.
LEMMA SameQuery ==
  ASSUME NEW table, NEW v, NEW w, v.query = w.query, v.route = w.route
  PROVE  MatchingIn(table, v) = MatchingIn(table, w) /\ CountedIn(table, v) = CountedIn(table, w)
BY DEF MatchingIn, CountedIn

\* What is shown is counted.
LEMMA CountedType ==
  ASSUME NEW table, NEW w
  PROVE  CountedIn(table, w) \in SUBSET Name /\ MatchingIn(table, w) \subseteq CountedIn(table, w)
BY DEF MatchingIn, CountedIn

\* A walk that has just begun.
LEMMA StartIsOrderly ==
  ASSUME NEW table, NEW w \in Walk,
         w.stage = "ask", w.offset = 0, w.listed = <<>>, w.steady = MatchingIn(table, w),
         ~w.joined, ~w.left
  PROVE  Orderly(table, w)
<1> DEFINE C == CountedIn(table, w)
<1>1. Queried(table, w)
  BY DEF Queried, Reading
<1>2. Passed(table, w)
  <2>1. IsInjective(w.listed)
    BY DEF IsInjective
  <2>2. UpTo(C, 0) = {}
    <3>1. \A n \in C : ~(n <= 0)
      <4>1. \A n \in Name : ~(n <= 0)
        BY NameBounds
      <4> QED BY <4>1, CountedType, Zenon
    <3> QED BY <3>1, Zenon DEF UpTo
  <2>3. Behind(table, w, 0, C)
    <3>1. Cardinality(UpTo(C, 0)) <= w.offset
      <4>1. Cardinality({}) = 0
        BY FS_EmptySet
      <4>2. Cardinality(UpTo(C, 0)) = 0
        BY <2>2, <4>1, Zenon
      <4>3. w.offset = 0
        OBVIOUS
      <4> HIDE DEF C
      <4> QED BY <4>2, <4>3
    <3>2. \A i \in DOMAIN w.listed : w.listed[i] <= 0
      OBVIOUS
    <3>3. ~Reading(w)
      BY DEF Reading
    <3> QED BY <3>1, <3>2, <3>3, Zenon DEF Behind
  <2>4. C \in SUBSET Name /\ 0 \in 0 .. N
    BY RoutesAssumption, CountedType
  <2> QED BY <2>1, <2>3, <2>4, Zenon DEF Passed
<1>3. Ahead(table, w)
  <2>1. \A n : 0 <= Cardinality({m \in C : m < n}) /\ 0 <= Cardinality(C)
    <3>1. SUFFICES ASSUME NEW n PROVE 0 <= Cardinality({m \in C : m < n}) /\ 0 <= Cardinality(C)
      BY Zenon
    <3>2. {m \in C : m < n} \in SUBSET Name /\ C \in SUBSET Name
      BY CountedType, Zenon
    <3>3. Cardinality({m \in C : m < n}) \in Nat /\ Cardinality(C) \in Nat
      BY <3>2, SubsetsOfName, Zenon
    <3> QED BY <3>3
  <2>2. Enough(table, w, C)
    BY <2>1, Zenon DEF Enough, Reading
  <2> QED BY <2>2 DEF Ahead
<1> QED BY <1>1, <1>2, <1>3 DEF Orderly

\* The next page's query begins with nothing found.
LEMMA AskIsOrderly ==
  ASSUME NEW table, NEW w \in Walk, Orderly(table, w), w.stage = "ask",
         NEW v \in Walk,
         v.query = w.query, v.route = w.route, v.limit = w.limit, v.offset = w.offset,
         v.listed = w.listed, v.steady = w.steady, v.joined = w.joined, v.left = w.left,
         v.stage = "query", v.key = 0, v.found = <<>>
  PROVE  Orderly(table, v)
<1>1. Names(v.found) = {}
  BY DEF Names
<1>2. \A S \in SUBSET Name : UpTo(S, 0) = {}
  <2>1. \A n \in Name : ~(n <= 0)
    BY NameBounds
  <2> QED BY <2>1, Zenon DEF UpTo
<1>3. /\ MatchingIn(table, v) = MatchingIn(table, w)
      /\ CountedIn(table, v) = CountedIn(table, w)
      /\ CountedIn(table, v) \in SUBSET Name
  BY SameQuery, CountedType
<1>4. Open(w) /\ Open(v) /\ Reading(v)
  BY DEF Open, Reading
<1>5. Queried(table, v)
  <2>1. \A n \in v.steady : ~(n <= 0)
    <3>1. v.steady \in SUBSET Name
      BY DEF Walk
    <3> QED BY <3>1, NameBounds
  <2>2. Ascending(v.found)
    BY DEF Ascending
  <2>3. UpTo(CountedIn(table, v), 0) = {}
    BY <1>2, <1>3
  <2> QED BY <1>1, <1>3, <1>4, <2>1, <2>2, <2>3 DEF Orderly, Queried
<1>6. ~v.joined => Passed(table, v)
  <2>1. \A last, B : Behind(table, w, last, B) => Behind(table, v, last, B)
    BY <1>1, <1>3 DEF Behind
  <2> QED BY <1>4, <2>1 DEF Orderly, Passed
<1>7. ~v.left => Ahead(table, v)
  <2>1. \A B \in SUBSET Name : Enough(table, w, B) => Enough(table, v, B)
    BY <1>2 DEF Enough
  <2> QED BY <1>3, <1>4, <2>1 DEF Orderly, Ahead
<1> QED BY <1>5, <1>6, <1>7 DEF Orderly

\* A walk that stops without a response.
LEMMA FailureIsOrderly ==
  ASSUME NEW table, NEW w \in Walk, Orderly(table, w),
         NEW v \in Walk,
         v.query = w.query, v.route = w.route, v.limit = w.limit, v.offset = w.offset,
         v.listed = w.listed, v.steady = w.steady, v.joined = w.joined, v.left = w.left,
         v.stage = "done", v.failed
  PROVE  Orderly(table, v)
<1>1. MatchingIn(table, v) = MatchingIn(table, w)
  BY SameQuery
<1>2. ~Open(v) /\ ~Reading(v)
  BY DEF Open, Reading
<1>3. Queried(table, v)
  BY <1>1, <1>2 DEF Orderly, Queried
<1>4. ~v.joined => Passed(table, v)
  BY <1>2 DEF Orderly, Passed
<1>5. Ahead(table, v)
  BY <1>2 DEF Ahead
<1> QED BY <1>3, <1>4, <1>5 DEF Orderly

-----------------------------------------------------------------------------
(* A page of the query.                                                    *)

\* A page of the query holds the items that match, in the order of the index,
\* as the table has them.
LEMMA ReadInOrder ==
  ASSUME item \in [Name -> Item \cup {Nil}], NEW hits \in SUBSET Name,
         \A n \in hits : item[n] # Nil
  PROVE  /\ Read(hits) \in Seq(Found)
         /\ Ascending(Read(hits))
         /\ Names(Read(hits)) = hits
         /\ \A i \in DOMAIN Read(hits) : Read(hits)[i].service = item[Read(hits)[i].name].service
<1> DEFINE s == InOrder(hits)
           k == Cardinality(hits)
           r == [i \in DOMAIN s |-> [name |-> s[i], service |-> item[s[i]].service]]
<1>1. hits \in SUBSET Nat /\ IsFiniteSet(hits)
  BY SubsetsOfName
<1>2. /\ k \in Nat /\ s \in [1 .. k -> hits]
      /\ \A i, j \in 1 .. k : i < j => s[i] < s[j]
      /\ \A n \in hits : \E i \in 1 .. k : s[i] = n
  BY <1>1, InOrderSorts
<1>3. r = Read(hits)
  BY DEF Read
<1> HIDE DEF s, k
<1>4. r \in [1 .. k -> Found]
  <2>1. \A i \in 1 .. k : s[i] \in hits /\ s[i] \in Name
    BY <1>2
  <2>2. \A i \in 1 .. k : item[s[i]] \in Item
    BY <2>1
  <2>3. \A i \in 1 .. k : item[s[i]].service \in BOOLEAN
    BY <2>2, RoutesAssumption
  <2>4. DOMAIN s = 1 .. k
    BY <1>2
  <2> QED BY <2>1, <2>3, <2>4 DEF Found
<1>5. r \in Seq(Found)
  <2> HIDE DEF r
  <2> QED BY <1>2, <1>4
<1>6. DOMAIN r = 1 .. k /\ \A i \in 1 .. k : r[i].name = s[i] /\ r[i].service = item[s[i]].service
  BY <1>2
<1> HIDE DEF r
<1>7. Ascending(r)
  BY <1>2, <1>6 DEF Ascending
<1>8. Names(r) = hits
  BY <1>2, <1>6 DEF Names
<1>9. \A i \in DOMAIN r : r[i].service = item[r[i].name].service
  BY <1>6
<1> QED BY <1>3, <1>5, <1>7, <1>8, <1>9

\* What can be said of each cluster that was found.
LEMMA FoundTypes ==
  ASSUME NEW found \in Seq(Found)
  PROVE  /\ Len(found) \in Nat /\ DOMAIN found = 1 .. Len(found)
         /\ \A i \in DOMAIN found : found[i] \in Found /\ found[i].name \in Name
                                    /\ found[i].name \in Nat /\ found[i].name \in Names(found)
<1>1. Len(found) \in Nat /\ DOMAIN found = 1 .. Len(found)
  OBVIOUS
<1>2. \A i \in DOMAIN found : found[i] \in Found
  OBVIOUS
<1>3. \A i \in DOMAIN found : found[i].name \in Name
  BY <1>2 DEF Found
<1>4. Name \subseteq Nat
  BY NameBounds
<1>5. \A i \in DOMAIN found : found[i].name \in Names(found)
  BY Zenon DEF Names
<1> QED BY <1>1, <1>2, <1>3, <1>4, <1>5, Zenon

\* A page is appended to what earlier pages found before it in the index.
LEMMA AppendInOrder ==
  ASSUME NEW f \in Seq(Found), NEW r \in Seq(Found), Ascending(f), Ascending(r),
         NEW key \in Nat, \A n \in Names(f) : n <= key, \A n \in Names(r) : key < n
  PROVE  /\ f \o r \in Seq(Found)
         /\ Ascending(f \o r)
         /\ Names(f \o r) = Names(f) \cup Names(r)
         /\ \A i \in DOMAIN f : i \in DOMAIN (f \o r) /\ (f \o r)[i] = f[i]
         /\ \A i \in DOMAIN r : \E j \in DOMAIN (f \o r) : (f \o r)[j] = r[i]
<1> DEFINE a == Len(f)
           b == Len(r)
           g == f \o r
<1>1. /\ a \in Nat /\ DOMAIN f = 1 .. a /\ b \in Nat /\ DOMAIN r = 1 .. b
      /\ \A i \in DOMAIN f : f[i].name \in Nat /\ f[i].name \in Names(f)
      /\ \A i \in DOMAIN r : r[i].name \in Nat /\ r[i].name \in Names(r)
  BY FoundTypes
<1>2. /\ g \in Seq(Found) /\ DOMAIN g = 1 .. a + b
      /\ \A i \in 1 .. a : g[i] = f[i]
      /\ \A i \in a + 1 .. a + b : g[i] = r[i - a]
  OBVIOUS
<1> HIDE DEF a, b, g
<1>3. \A i \in 1 .. b : a + i \in a + 1 .. a + b /\ g[a + i] = r[i]
  BY <1>1, <1>2
<1>4. \A j \in DOMAIN g : (j \in 1 .. a /\ g[j] = f[j])
                          \/ (j \in a + 1 .. a + b /\ j - a \in 1 .. b /\ g[j] = r[j - a])
  BY <1>1, <1>2
<1>5. Ascending(g)
  <2> SUFFICES ASSUME NEW i \in DOMAIN g, NEW j \in DOMAIN g, i < j
               PROVE  g[i].name < g[j].name
    BY DEF Ascending
  <2>1. i \in Int /\ j \in Int
    BY <1>1, <1>2
  <2>2. CASE j \in 1 .. a
    <3>1. i \in 1 .. a
      BY <1>1, <1>4, <2>1, <2>2
    <3> QED BY <1>1, <1>2, <2>2, <3>1 DEF Ascending
  <2>3. CASE j \in a + 1 .. a + b /\ i \in 1 .. a
    <3>1. g[i].name <= key /\ g[i].name \in Nat
      BY <1>1, <1>2, <2>3
    <3>2. g[j].name \in Nat /\ key < g[j].name
      <4>1. j - a \in DOMAIN r /\ g[j] = r[j - a]
        BY <1>1, <1>2, <2>3
      <4> QED BY <1>1, <4>1
    <3> QED BY <3>1, <3>2
  <2>4. CASE j \in a + 1 .. a + b /\ i \in a + 1 .. a + b
    <3>1. i - a \in 1 .. b /\ j - a \in 1 .. b /\ i - a < j - a
      BY <1>1, <2>4
    <3>2. r[i - a].name < r[j - a].name
      BY <1>1, <3>1 DEF Ascending
    <3> QED BY <1>2, <2>4, <3>2
  <2> QED BY <1>4, <2>2, <2>3, <2>4
<1>6. Names(g) = Names(f) \cup Names(r)
  <2>1. \A x : x \in Names(g) => x \in Names(f) \cup Names(r)
    <3> SUFFICES ASSUME NEW j \in DOMAIN g PROVE g[j].name \in Names(f) \cup Names(r)
      BY Zenon DEF Names
    <3>1. CASE j \in 1 .. a /\ g[j] = f[j]
      BY <1>1, <3>1
    <3>2. CASE j - a \in 1 .. b /\ g[j] = r[j - a]
      BY <1>1, <3>2
    <3> QED BY <1>4, <3>1, <3>2
  <2>2. \A i \in DOMAIN f : f[i].name \in Names(g)
    <3> SUFFICES ASSUME NEW i \in DOMAIN f PROVE f[i].name \in Names(g)
      OBVIOUS
    <3>1. i \in DOMAIN g /\ g[i] = f[i]
      BY <1>1, <1>2
    <3> QED BY <3>1, Zenon DEF Names
  <2>3. \A i \in DOMAIN r : r[i].name \in Names(g)
    <3> SUFFICES ASSUME NEW i \in DOMAIN r PROVE r[i].name \in Names(g)
      OBVIOUS
    <3>1. a + i \in DOMAIN g /\ g[a + i] = r[i]
      BY <1>1, <1>2, <1>3
    <3> QED BY <3>1, Zenon DEF Names
  <2>4. \A x \in Names(f) : x \in Names(g)
    BY <2>2, Zenon DEF Names
  <2>5. \A x \in Names(r) : x \in Names(g)
    BY <2>3, Zenon DEF Names
  <2> QED BY <2>1, <2>4, <2>5, Zenon
<1>7. \A i \in DOMAIN f : i \in DOMAIN g /\ g[i] = f[i]
  BY <1>1, <1>2
<1>8. \A i \in DOMAIN r : \E j \in DOMAIN g : g[j] = r[i]
  <2> SUFFICES ASSUME NEW i \in DOMAIN r PROVE \E j \in DOMAIN g : g[j] = r[i]
    OBVIOUS
  <2>1. a + i \in DOMAIN g /\ g[a + i] = r[i]
    BY <1>1, <1>2, <1>3
  <2> QED BY <2>1, Zenon
<1> QED BY <1>2, <1>5, <1>6, <1>7, <1>8, Zenon DEF g

\* One page of the query.
LEMMA QueryIsOrderly ==
  ASSUME item \in [Name -> Item \cup {Nil}],
         NEW w \in Walk, Orderly(item, w), w.stage = "query",
         NEW hits, hits = {n \in Evaluated(w.key) : Matches(item[n], w.query)},
         NEW key, key = IF w.key + PageSize > N THEN N ELSE w.key + PageSize,
         NEW v,
         v = [w EXCEPT !.found = w.found \o Read(hits), !.key = key,
                       !.stage = IF key = N THEN "answer" ELSE "query"]
  PROVE  v \in Walk /\ Orderly(item, v)
<1> DEFINE C == CountedIn(item, w)
           r == Read(hits)
           f == w.found
<1>1. /\ w.key \in 0 .. N /\ f \in Seq(Found) /\ w.steady \in SUBSET Name
      /\ N \in Nat /\ PageSize \in Nat \ {0} /\ Name \subseteq Nat
  BY RoutesAssumption DEF Walk, Found, Name
<1>2. key \in 0 .. N /\ w.key <= key
  BY <1>1
<1>3. C \in SUBSET Name /\ hits = {n \in C : w.key < n /\ n <= key}
  <2>1. Evaluated(w.key) = {n \in Name : w.key < n /\ n <= key}
    BY <1>1 DEF Evaluated, Name
  <2> QED BY <2>1, Zenon DEF CountedIn
<1>4. /\ r \in Seq(Found) /\ Ascending(r) /\ Names(r) = hits
      /\ \A i \in DOMAIN r : r[i].service = item[r[i].name].service
  <2>1. \A n \in hits : item[n] # Nil
    BY DEF Matches
  <2>2. hits \in SUBSET Name
    BY <1>3
  <2> QED BY <2>1, <2>2, ReadInOrder
<1>5. /\ v.query = w.query /\ v.route = w.route /\ v.limit = w.limit /\ v.offset = w.offset
      /\ v.listed = w.listed /\ v.steady = w.steady /\ v.joined = w.joined /\ v.left = w.left
      /\ v.stage = (IF key = N THEN "answer" ELSE "query") /\ v.key = key /\ v.found = f \o r
  BY DEF Walk
<1>6. Open(w) /\ Open(v) /\ Reading(w) /\ Reading(v)
  BY <1>5 DEF Open, Reading
<1>7. /\ Ascending(f) /\ \A n \in Names(f) : n <= w.key
  BY <1>6 DEF Orderly, Queried
<1> DEFINE g == f \o r
<1>8. /\ g \in Seq(Found) /\ Ascending(g) /\ Names(g) = Names(f) \cup hits
      /\ \A i \in DOMAIN f : i \in DOMAIN g /\ g[i] = f[i]
      /\ \A i \in DOMAIN r : \E j \in DOMAIN g : g[j] = r[i]
  <2>1. \A n \in Names(r) : w.key < n
    BY <1>3, <1>4
  <2>2. w.key \in Nat
    BY <1>1
  <2> HIDE DEF r, f
  <2> QED BY <1>1, <1>4, <1>7, <2>1, <2>2, AppendInOrder, Zenon
<1>9. v \in Walk
  <2> HIDE DEF g
  <2>1. g \in Seq([name: Name, service: BOOLEAN])
    BY <1>8 DEF Found
  <2>2. v = [w EXCEPT !.found = g, !.key = key, !.stage = IF key = N THEN "answer" ELSE "query"]
    BY DEF g
  <2> HIDE DEF f, r
  <2> QED BY <1>2, <2>1, <2>2, Zenon DEF Walk
<1>10. MatchingIn(item, v) = MatchingIn(item, w) /\ CountedIn(item, v) = C
  BY <1>5, SameQuery, Zenon
<1>11. \A n \in C : n <= key => n <= w.key \/ n \in hits
  BY <1>1, <1>2, <1>3
<1> HIDE DEF C, r, f, g
<1>12. v.found = g
  BY <1>5, Zenon DEF g
<1>13. Queried(item, v)
  <2>1. v.steady \subseteq MatchingIn(item, v) /\ v.steady \subseteq C
    BY <1>5, <1>10, CountedType, Zenon DEF Orderly, Queried, C
  <2>2. v.stage = "answer" => v.key = N
    BY <1>5
  <2>3. v.route = "services" => v.offset = 0 /\ (Open(v) => v.listed = <<>>)
    BY <1>5, <1>6 DEF Orderly, Queried
  <2>4. \A n \in Names(v.found) : n <= v.key
    <3>1. Names(f) \subseteq Nat
      <4>1. \A i \in DOMAIN f : f[i].name \in Nat
        BY <1>1, FoundTypes
      <4> QED BY <4>1, Zenon DEF Names
    <3>2. \A n \in Names(f) : n <= key
      BY <1>1, <1>2, <1>7, <3>1
    <3> QED BY <1>3, <1>5, <1>8, <1>12, <3>2, Zenon
  <2>5. ASSUME NEW n \in v.steady, n <= v.key
        PROVE  \E i \in DOMAIN v.found :
                 v.found[i].name = n /\ (v.route = "services" => v.found[i].service)
    <3>1. CASE n <= w.key
      <4>1. PICK i \in DOMAIN f : f[i].name = n /\ (w.route = "services" => f[i].service)
        BY <1>5, <1>6, <2>5, <3>1 DEF Orderly, Queried, f
      <4> QED BY <1>5, <1>8, <1>12, <4>1, Zenon
    <3>2. CASE n \in hits
      <4>1. PICK i \in DOMAIN r : r[i].name = n
        BY <1>4, <3>2 DEF Names
      <4>2. w.route = "services" => item[n].service
        BY <1>5, <1>10, <2>1 DEF MatchingIn
      <4>3. PICK j \in DOMAIN g : g[j] = r[i]
        BY <1>8
      <4> QED BY <1>4, <1>5, <1>12, <4>1, <4>2, <4>3, Zenon
    <3> QED BY <1>5, <1>11, <2>1, <2>5, <3>1, <3>2, Zenon
  <2>6. ~v.left => Names(v.found) \subseteq CountedIn(item, v)
    <3>1. ~w.left => Names(f) \subseteq C
      BY <1>6 DEF Orderly, Queried, f, C
    <3> QED BY <1>3, <1>5, <1>8, <1>10, <1>12, <3>1, Zenon
  <2>7. ~v.joined => UpTo(CountedIn(item, v), v.key) \subseteq Names(v.found)
    <3>1. ~w.joined => UpTo(C, w.key) \subseteq Names(f)
      BY <1>6 DEF Orderly, Queried, f, C
    <3>2. UpTo(C, key) \subseteq UpTo(C, w.key) \cup hits
      BY <1>11, Zenon DEF UpTo
    <3> QED BY <1>5, <1>8, <1>10, <1>12, <3>1, <3>2, Zenon
  <2>8. Ascending(v.found)
    BY <1>8, <1>12, Zenon
  <2> QED BY <2>1, <2>2, <2>3, <2>4, <2>5, <2>6, <2>7, <2>8, Zenon DEF Queried
<1>14. ~v.joined => Passed(item, v)
  <2>1. ASSUME NEW last, NEW B, Behind(item, w, last, B)
        PROVE  Behind(item, v, last, B)
    <3>1. Names(f) \subseteq B /\ C \subseteq B
      BY <1>6, <2>1 DEF Behind, f, C
    <3>2. Names(v.found) \subseteq B
      BY <1>3, <1>8, <1>12, <3>1, Zenon
    <3> QED BY <1>5, <1>10, <2>1, <3>1, <3>2, Zenon DEF Behind
  <2> QED BY <1>5, <1>6, <2>1, Zenon DEF Orderly, Passed
<1>15. ~v.left => Ahead(item, v)
  <2>1. ASSUME NEW B \in SUBSET C, Enough(item, w, B)
        PROVE  Enough(item, v, B)
    <3>1. UpTo(B, w.key) \subseteq Names(f)
      BY <1>6, <2>1 DEF Enough, f
    <3>2. UpTo(B, v.key) \subseteq Names(v.found)
      BY <1>5, <1>8, <1>11, <1>12, <3>1, Zenon DEF UpTo
    <3> QED BY <1>5, <2>1, <3>2 DEF Enough
  <2>2. ~w.left => \E B \in SUBSET C : w.route = "clusters" => Enough(item, w, B)
    BY <1>6 DEF Orderly, Ahead, C
  <2>3. v.stage # "panic" /\ v.stage # "done"
    BY <1>5
  <2> QED BY <1>5, <1>10, <2>1, <2>2, <2>3, Zenon DEF Ahead
<1> QED BY <1>9, <1>13, <1>14, <1>15 DEF Orderly

-----------------------------------------------------------------------------
(* A response.                                                             *)

\* The page is what was found after the offset, up to an end that is not past
\* the last that was found.
LEMMA PageIsPart ==
  ASSUME NEW f \in Seq(Found), Ascending(f), NEW o \in Nat, NEW l \in Nat \ {0},
         ~Panics(f, o, l), NEW e, e = EndIndex(Len(f), o, l)
  PROVE  /\ e \in Nat /\ o <= e /\ e <= Len(f) /\ e <= o + l
         /\ e < Len(f) => e = o + l
         /\ Page(f, o, l) \in Seq(Found) /\ DOMAIN Page(f, o, l) = 1 .. e - o
         /\ Len(Page(f, o, l)) = e - o
         /\ \A i \in 1 .. e - o : o + i \in DOMAIN f /\ Page(f, o, l)[i] = f[o + i]
         /\ Ascending(Page(f, o, l))
<1>1. Len(f) \in Nat /\ DOMAIN f = 1 .. Len(f)
  OBVIOUS
<1>2. /\ e \in Nat /\ o <= e /\ e <= Len(f) /\ e <= o + l
      /\ e < Len(f) => e = o + l
  BY <1>1 DEF EndIndex, Panics
<1> DEFINE p == SubSeq(f, o + 1, e)
<1>3. p = Page(f, o, l)
  BY DEF Page
<1>4. p \in Seq(Found) /\ Len(p) = e - o /\ DOMAIN p = 1 .. e - o
  BY <1>1, <1>2
<1>5. \A i \in 1 .. e - o : o + i \in DOMAIN f /\ p[i] = f[o + i]
  BY <1>1, <1>2
<1> HIDE DEF p
<1>6. Ascending(p)
  <2> SUFFICES ASSUME NEW i \in 1 .. e - o, NEW j \in 1 .. e - o, i < j
               PROVE  p[i].name < p[j].name
    BY <1>4 DEF Ascending
  <2>1. o + i < o + j
    BY <1>2
  <2> QED BY <1>5, <2>1 DEF Ascending
<1> QED BY <1>2, <1>3, <1>4, <1>5, <1>6

\* A sequence is a function on 1 .. Len.
LEMMA SequenceTypes ==
  ASSUME NEW S, NEW s \in Seq(S)
  PROVE  Len(s) \in Nat /\ DOMAIN s = 1 .. Len(s) /\ \A i \in DOMAIN s : s[i] \in S
OBVIOUS

\* What was appended comes after the rest.
LEMMA Concatenation ==
  ASSUME NEW S, NEW s \in Seq(S), NEW t \in Seq(S)
  PROVE  /\ s \o t \in Seq(S) /\ DOMAIN (s \o t) = 1 .. Len(s) + Len(t)
         /\ \A i \in 1 .. Len(s) : (s \o t)[i] = s[i]
         /\ \A i \in Len(s) + 1 .. Len(s) + Len(t) : (s \o t)[i] = t[i - Len(s)]
OBVIOUS

\* What is shown is added to what was listed.
LEMMA ListMore ==
  ASSUME NEW listed \in Seq(Name), NEW shown \in Seq(Found),
         NEW g, g = listed \o [i \in DOMAIN shown |-> shown[i].name]
  PROVE  /\ g \in Seq(Name)
         /\ \A j \in DOMAIN g :
              \/ j \in DOMAIN listed /\ j <= Len(listed) /\ g[j] = listed[j]
              \/ /\ Len(listed) < j /\ j - Len(listed) \in DOMAIN shown
                 /\ g[j] = shown[j - Len(listed)].name
         /\ ToSet(g) = ToSet(listed) \cup Names(shown)
<1> DEFINE s == [i \in DOMAIN shown |-> shown[i].name]
           a == Len(listed)
           b == Len(shown)
<1>1. /\ a \in Nat /\ b \in Nat /\ DOMAIN listed = 1 .. a /\ DOMAIN shown = 1 .. b
      /\ \A i \in DOMAIN shown : shown[i].name \in Name
  BY FoundTypes
<1>2. s \in [1 .. b -> Name]
  BY <1>1
<1>3. s \in Seq(Name) /\ Len(s) = b
  <2> HIDE DEF s, b
  <2> QED BY <1>1, <1>2
<1>4. \A i \in 1 .. b : s[i] = shown[i].name
  BY <1>1
<1>5. g = listed \o s
  OBVIOUS
<1> HIDE DEF s, a, b
<1>6. /\ g \in Seq(Name) /\ DOMAIN g = 1 .. a + b
      /\ \A i \in 1 .. a : g[i] = listed[i]
      /\ \A i \in a + 1 .. a + b : g[i] = s[i - a]
  <2>1. /\ listed \o s \in Seq(Name) /\ DOMAIN (listed \o s) = 1 .. Len(listed) + Len(s)
        /\ \A i \in 1 .. Len(listed) : (listed \o s)[i] = listed[i]
        /\ \A i \in Len(listed) + 1 .. Len(listed) + Len(s) : (listed \o s)[i] = s[i - Len(listed)]
    BY <1>3, Concatenation, Zenon
  <2>2. Len(s) = b /\ Len(listed) = a
    BY <1>3 DEF a
  <2> QED BY <1>5, <2>1, <2>2, Zenon
<1>7. \A j \in DOMAIN g :
        \/ j \in DOMAIN listed /\ j <= a /\ g[j] = listed[j]
        \/ a < j /\ j - a \in DOMAIN shown /\ g[j] = shown[j - a].name
  <2> SUFFICES ASSUME NEW j \in 1 .. a + b
               PROVE  \/ j \in DOMAIN listed /\ j <= a /\ g[j] = listed[j]
                      \/ a < j /\ j - a \in DOMAIN shown /\ g[j] = shown[j - a].name
    BY <1>6, Zenon
  <2>1. CASE j <= a
    BY <1>1, <1>6, <2>1
  <2>2. CASE a < j
    <3>1. j - a \in 1 .. b /\ j \in a + 1 .. a + b
      BY <1>1, <2>2
    <3> QED BY <1>1, <1>4, <1>6, <2>2, <3>1
  <2> QED BY <1>1, <2>1, <2>2
<1>8. ToSet(g) = ToSet(listed) \cup Names(shown)
  <2>1. \A j \in DOMAIN g : g[j] \in ToSet(listed) \cup Names(shown)
    BY <1>7, Zenon DEF ToSet, Names
  <2>2. \A i \in DOMAIN listed : listed[i] \in ToSet(g)
    <3> SUFFICES ASSUME NEW i \in DOMAIN listed PROVE listed[i] \in ToSet(g)
      OBVIOUS
    <3>1. i \in DOMAIN g /\ g[i] = listed[i]
      BY <1>1, <1>6
    <3> QED BY <3>1, Zenon DEF ToSet
  <2>3. \A i \in DOMAIN shown : shown[i].name \in ToSet(g)
    <3> SUFFICES ASSUME NEW i \in DOMAIN shown PROVE shown[i].name \in ToSet(g)
      OBVIOUS
    <3>1. a + i \in DOMAIN g /\ a + i \in a + 1 .. a + b /\ (a + i) - a = i
      BY <1>1, <1>6
    <3>2. g[a + i] = shown[i].name
      BY <1>1, <1>4, <1>6, <3>1
    <3> QED BY <3>1, <3>2, Zenon DEF ToSet
  <2>4. \A x \in ToSet(g) : x \in ToSet(listed) \cup Names(shown)
    BY <2>1, Zenon DEF ToSet
  <2>5. \A x \in ToSet(listed) : x \in ToSet(g)
    BY <2>2, Zenon DEF ToSet
  <2>6. \A x \in Names(shown) : x \in ToSet(g)
    BY <2>3, Zenon DEF Names
  <2> QED BY <2>4, <2>5, <2>6, Zenon
<1> QED BY <1>6, <1>7, <1>8 DEF a

\* Nothing is listed twice when all that is shown comes after what was listed.
LEMMA ListedOnce ==
  ASSUME NEW listed \in Seq(Name), NEW shown \in Seq(Found), IsInjective(listed), Ascending(shown),
         NEW last \in Nat, \A i \in DOMAIN listed : listed[i] <= last,
         \A i \in DOMAIN shown : last < shown[i].name,
         NEW g, g = listed \o [i \in DOMAIN shown |-> shown[i].name]
  PROVE  IsInjective(g)
<1> DEFINE a == Len(listed)
<1>1. \A j \in DOMAIN g :
        \/ j \in DOMAIN listed /\ j <= a /\ g[j] = listed[j]
        \/ a < j /\ j - a \in DOMAIN shown /\ g[j] = shown[j - a].name
  BY ListMore
<1>2. g \in Seq(Name)
  BY ListMore, Zenon
<1>3. /\ a \in Nat /\ \A j \in DOMAIN g : j \in Int
      /\ \A i \in DOMAIN listed : listed[i] \in Nat
      /\ \A i \in DOMAIN shown : shown[i].name \in Nat /\ i \in Int
  <2>1. Name \subseteq Nat
    BY NameBounds
  <2>2. \A j \in DOMAIN g : j \in Int
    BY <1>2
  <2>3. \A i \in DOMAIN listed : listed[i] \in Nat
    BY <2>1, SequenceTypes, Zenon
  <2>4. \A i \in DOMAIN shown : shown[i].name \in Nat /\ i \in Int
    BY FoundTypes
  <2> QED BY <2>2, <2>3, <2>4
<1> HIDE DEF a
<1>4. SUFFICES ASSUME NEW i \in DOMAIN g, NEW j \in DOMAIN g, g[i] = g[j], i < j
               PROVE  FALSE
  <2>1. \A i, j \in DOMAIN g : i < j \/ j < i \/ i = j
    BY <1>3
  <2> QED BY <1>4, <2>1, Zenon DEF IsInjective
<1>5. CASE j \in DOMAIN listed /\ j <= a /\ g[j] = listed[j]
  <2>1. i \in DOMAIN listed /\ g[i] = listed[i]
    BY <1>1, <1>3, <1>4, <1>5
  <2>2. i = j
    BY <1>4, <1>5, <2>1 DEF IsInjective
  <2> QED BY <1>3, <1>4, <2>2
<1>6. CASE a < j /\ j - a \in DOMAIN shown /\ g[j] = shown[j - a].name
  <2>1. CASE i \in DOMAIN listed /\ i <= a /\ g[i] = listed[i]
    <3>1. listed[i] <= last /\ last < shown[j - a].name
      BY <1>6, <2>1
    <3>2. listed[i] \in Nat /\ shown[j - a].name \in Nat
      BY <1>3, <1>6, <2>1
    <3> QED BY <1>4, <1>6, <2>1, <3>1, <3>2
  <2>2. CASE a < i /\ i - a \in DOMAIN shown /\ g[i] = shown[i - a].name
    <3>1. i - a < j - a
      BY <1>3, <1>4
    <3>2. shown[i - a].name < shown[j - a].name
      BY <1>6, <2>2, <3>1 DEF Ascending
    <3>3. shown[i - a].name \in Nat /\ shown[j - a].name \in Nat
      BY <1>3, <1>6, <2>2
    <3> QED BY <1>4, <1>6, <2>2, <3>2, <3>3
  <2> QED BY <1>1, <2>1, <2>2, Zenon
<1> QED BY <1>1, <1>5, <1>6, Zenon

\* A response with a page of the clusters that were found.
LEMMA ClustersRespond ==
  ASSUME NEW table, NEW w \in Walk, Orderly(table, w), w.stage = "answer", w.route = "clusters",
         ~Panics(w.found, w.offset, w.limit),
         NEW v \in Walk,
         v.query = w.query, v.route = w.route, v.steady = w.steady,
         v.joined = w.joined, v.left = w.left,
         NEW page, page = Page(w.found, w.offset, w.limit),
         v.listed = w.listed \o [i \in DOMAIN page |-> page[i].name],
         v.offset = (IF More(w.found, w.offset, w.limit) THEN w.offset + w.limit ELSE w.offset),
         v.stage = (IF More(w.found, w.offset, w.limit) THEN "ask" ELSE "done")
  PROVE  Orderly(table, v)
<1> DEFINE C == CountedIn(table, w)
           f == w.found
           o == w.offset
           l == w.limit
           e == EndIndex(Len(f), o, l)
<1>1. /\ f \in Seq(Found) /\ w.listed \in Seq(Name) /\ o \in Nat /\ l \in Nat \ {0}
      /\ w.steady \in SUBSET Name
  BY RoutesAssumption, Zenon DEF Walk, Found
<1>2. Reading(w) /\ Open(w) /\ ~Reading(v) /\ w.key = N
  BY DEF Reading, Open, Orderly, Queried
<1>3. /\ Ascending(f) /\ \A n \in Names(f) : n <= N
      /\ w.steady \subseteq MatchingIn(table, w)
      /\ \A n \in w.steady : n <= N => \E i \in DOMAIN f : f[i].name = n
      /\ ~w.left => Names(f) \subseteq C
      /\ ~w.joined => UpTo(C, N) \subseteq Names(f)
  BY <1>2, Zenon DEF Orderly, Queried
<1>4. CountedIn(table, v) = C /\ MatchingIn(table, v) = MatchingIn(table, w) /\ C \in SUBSET Name
  BY SameQuery, CountedType, Zenon
<1>5. \A S \in SUBSET Name : UpTo(S, N) = S
  <2>1. \A n \in Name : n <= N
    BY NameBounds
  <2> QED BY <2>1, Zenon DEF UpTo
<1> HIDE DEF C, f, o, l, e
<1>6. /\ e \in Nat /\ o <= e /\ e <= Len(f) /\ e <= o + l
      /\ e < Len(f) => e = o + l
      /\ page \in Seq(Found) /\ DOMAIN page = 1 .. e - o
      /\ \A i \in 1 .. e - o : o + i \in DOMAIN f /\ page[i] = f[o + i]
      /\ Ascending(page)
  <2>1. ~Panics(f, o, l) /\ page = Page(f, o, l) /\ e = EndIndex(Len(f), o, l)
    BY Zenon DEF e, f, o, l
  <2> QED BY <1>1, <1>3, <2>1, PageIsPart
<1>7. /\ Len(f) \in Nat /\ DOMAIN f = 1 .. Len(f) /\ Names(f) \in SUBSET Name
      /\ \A i \in DOMAIN f : f[i].name \in Nat /\ f[i].name \in Name /\ f[i].name \in Names(f)
  BY <1>1, <1>3, FoundTypes, FoundLength, Zenon
<1>8. /\ v.listed \in Seq(Name)
      /\ \A j \in DOMAIN v.listed :
           \/ j \in DOMAIN w.listed /\ v.listed[j] = w.listed[j]
           \/ j - Len(w.listed) \in DOMAIN page /\ v.listed[j] = page[j - Len(w.listed)].name
      /\ ToSet(v.listed) = ToSet(w.listed) \cup Names(page)
  <2>1. /\ v.listed \in Seq(Name)
        /\ \A j \in DOMAIN v.listed :
             \/ j \in DOMAIN w.listed /\ j <= Len(w.listed) /\ v.listed[j] = w.listed[j]
             \/ /\ Len(w.listed) < j /\ j - Len(w.listed) \in DOMAIN page
                /\ v.listed[j] = page[j - Len(w.listed)].name
        /\ ToSet(v.listed) = ToSet(w.listed) \cup Names(page)
    BY <1>1, <1>6, ListMore, Zenon
  <2> QED BY <2>1, Zenon
<1>9. More(w.found, w.offset, w.limit) <=> e < Len(f)
  BY DEF More, e, f, o, l
<1>10. \A i \in DOMAIN f : o < i /\ i <= e => f[i].name \in Names(page)
  <2> SUFFICES ASSUME NEW i \in DOMAIN f, o < i, i <= e PROVE f[i].name \in Names(page)
    OBVIOUS
  <2>1. i - o \in 1 .. e - o /\ o + (i - o) = i
    BY <1>1, <1>6, <1>7, SMTT(20)
  <2>2. i - o \in DOMAIN page /\ page[i - o] = f[i]
    BY <1>6, <2>1
  <2> QED BY <2>2, Zenon DEF Names
<1>11. Queried(table, v)
  BY <1>2, <1>3, <1>4, Zenon DEF Queried
<1>12. ASSUME ~v.joined PROVE Passed(table, v)
  <2>1. PICK last \in 0 .. N, B \in SUBSET Name : Behind(table, w, last, B)
    BY <1>2, <1>12, Zenon DEF Orderly, Passed
  <2>2. /\ IsInjective(w.listed) /\ \A i \in DOMAIN w.listed : w.listed[i] <= last
        /\ Names(f) \subseteq B /\ Cardinality(UpTo(B, last)) <= o
    BY <1>2, <1>12, <2>1, Zenon DEF Orderly, Passed, Behind, f, o
  <2>3. last \in Nat
    BY RoutesAssumption
  <2>4. ASSUME NEW i \in DOMAIN f, o < i PROVE last < f[i].name
    <3>1. SUFFICES ASSUME f[i].name <= last PROVE FALSE
      BY <1>7, <2>3
    <3>2. UpTo(Names(f), f[i].name) \subseteq UpTo(B, last)
      <4>1. \A m \in Nat : m <= f[i].name => m <= last
        BY <1>7, <2>3, <3>1
      <4>2. Names(f) \subseteq Nat
        BY <1>7, SubsetsOfName, Zenon
      <4> QED BY <2>2, <4>1, <4>2, Zenon DEF UpTo
    <3>3. UpTo(B, last) \in SUBSET Name
      BY Zenon DEF UpTo
    <3>4. /\ IsFiniteSet(UpTo(B, last)) /\ Cardinality(UpTo(B, last)) \in Nat
      BY <3>3, SubsetsOfName, Zenon
    <3>5. Cardinality(UpTo(Names(f), f[i].name)) <= Cardinality(UpTo(B, last))
      BY <3>2, <3>4, FS_Subset, Zenon
    <3>6. Cardinality(UpTo(Names(f), f[i].name)) = i
      BY <1>1, <1>3, FoundCount, Zenon
    <3>7. i \in Nat
      BY <1>7
    <3> QED BY <1>1, <2>2, <2>4, <3>4, <3>5, <3>6, <3>7, SMTT(20)
  <2>5. \A i \in DOMAIN page : last < page[i].name
    <3> SUFFICES ASSUME NEW i \in 1 .. e - o PROVE last < page[i].name
      BY <1>6, Zenon
    <3>1. o + i \in DOMAIN f /\ page[i] = f[o + i]
      BY <1>6, Zenon
    <3>2. o < o + i
      BY <1>1
    <3> QED BY <2>4, <3>1, <3>2, Zenon
  <2>6. IsInjective(v.listed)
    BY <1>1, <1>6, <2>2, <2>3, <2>5, ListedOnce, Zenon
  <2>7. CASE e < Len(f)
    <3> DEFINE end == f[o + l].name
    <3>1. e = o + l /\ o < e /\ e \in DOMAIN f /\ v.offset = e
      BY <1>1, <1>6, <1>7, <1>9, <2>7, SMTT(20) DEF o, l
    <3>2. end \in Nat /\ end \in 0 .. N /\ last < end
      <4>1. end \in Name /\ last < end
        BY <1>7, <2>4, <3>1
      <4> QED BY <4>1 DEF Name
    <3>3. Cardinality(UpTo(Names(f), end)) = e
      BY <1>1, <1>3, <3>1, FoundCount, Zenon
    <3>4. \A i \in DOMAIN page : page[i].name <= end
      <4> SUFFICES ASSUME NEW i \in 1 .. e - o PROVE page[i].name <= end
        BY <1>6, Zenon
      <4>1. o + i \in DOMAIN f /\ page[i] = f[o + i]
        BY <1>6, Zenon
      <4>2. o + i < e \/ o + i = e
        BY <1>1, <1>6
      <4>3. f[o + i].name \in Nat
        BY <1>7, <4>1
      <4>4. o + i < e => f[o + i].name < end
        BY <1>3, <3>1, <4>1, Zenon DEF Ascending
      <4>5. o + i = e => f[o + i].name = end
        BY <3>1
      <4> HIDE DEF end
      <4> QED BY <3>2, <4>1, <4>2, <4>3, <4>4, <4>5
    <3>5. \A j \in DOMAIN v.listed : v.listed[j] <= end
      <4>1. \A j \in DOMAIN w.listed : w.listed[j] <= end
        <5>1. \A j \in DOMAIN w.listed : w.listed[j] \in Nat
          <6>1. Name \subseteq Nat
            BY NameBounds
          <6> QED BY <1>1, <6>1, SequenceTypes, Zenon
        <5> HIDE DEF end
        <5> QED BY <2>2, <2>3, <3>2, <5>1
      <4> HIDE DEF end
      <4> QED BY <1>8, <3>4, <4>1, Zenon
    <3>6. C \subseteq Names(f)
      BY <1>3, <1>4, <1>5, <1>12, Zenon
    <3>7. v.offset = e /\ Cardinality(UpTo(Names(f), end)) <= v.offset
      <4> HIDE DEF end
      <4> QED BY <1>6, <3>1, <3>3
    <3> HIDE DEF end
    <3>8. Behind(table, v, end, Names(f))
      BY <1>2, <1>4, <3>5, <3>6, <3>7, Zenon DEF Behind
    <3> QED BY <1>7, <2>6, <3>2, <3>8, Zenon DEF Passed
  <2>8. CASE ~(e < Len(f))
    <3>1. ~Open(v)
      BY <1>9, <2>8 DEF Open
    <3> QED BY <2>6, <3>1, Zenon DEF Passed
  <2> QED BY <2>7, <2>8, Zenon
<1>13. ASSUME ~v.left PROVE Ahead(table, v)
  <2>1. PICK B \in SUBSET C : Enough(table, w, B)
    BY <1>2, <1>13, Zenon DEF Orderly, Ahead, C
  <2>2. /\ B \subseteq Names(f)
        /\ \A n \in w.steady \ ToSet(w.listed) : o <= Cardinality({m \in B : m < n})
    BY <1>2, <1>4, <1>5, <2>1, Zenon DEF Enough, f, o
  <2>3. ASSUME NEW n \in w.steady \ ToSet(w.listed)
        PROVE  \E i \in DOMAIN f : f[i].name = n /\ o < i
    <3>1. n <= N /\ n \in Name
      BY <1>1 DEF Name
    <3>2. PICK i \in DOMAIN f : f[i].name = n
      BY <1>3, <2>3, <3>1, Zenon
    <3>3. Cardinality({m \in Names(f) : m < n}) = i - 1
      BY <1>1, <1>3, <3>2, FoundCount, Zenon
    <3>4. /\ {m \in B : m < n} \subseteq {m \in Names(f) : m < n}
          /\ {m \in Names(f) : m < n} \in SUBSET Name /\ {m \in B : m < n} \in SUBSET Name
      BY <1>7, <2>2, Zenon
    <3>5. /\ IsFiniteSet({m \in Names(f) : m < n})
          /\ Cardinality({m \in B : m < n}) \in Nat
      BY <3>4, SubsetsOfName, Zenon
    <3>6. Cardinality({m \in B : m < n}) <= Cardinality({m \in Names(f) : m < n})
      BY <3>4, <3>5, FS_Subset, Zenon
    <3>7. o <= Cardinality({m \in B : m < n})
      BY <2>2, <2>3, Zenon
    <3>8. i \in Nat
      BY <1>7
    <3> DEFINE c == Cardinality({m \in B : m < n})
    <3>9. o <= c /\ c <= i - 1 /\ c \in Nat
      BY <3>3, <3>5, <3>6, <3>7, SMTT(20)
    <3> HIDE DEF c
    <3>10. o < i
      BY <1>1, <3>8, <3>9
    <3> QED BY <3>2, <3>10, Zenon
  <2>4. ASSUME NEW n \in w.steady \ ToSet(v.listed)
        PROVE  \E i \in DOMAIN f : f[i].name = n /\ e < i
    <3>1. n \in w.steady \ ToSet(w.listed) /\ n \notin Names(page)
      BY <1>8, <2>4, Zenon
    <3>2. PICK i \in DOMAIN f : f[i].name = n /\ o < i
      BY <2>3, <3>1, Zenon
    <3>3. ~(i <= e)
      BY <1>10, <3>1, <3>2, Zenon
    <3>4. e < i
      BY <1>6, <1>7, <3>3
    <3> QED BY <3>2, <3>4, Zenon
  <2>5. CASE e < Len(f)
    <3>1. e = o + l /\ v.offset = e /\ v.stage = "ask"
      BY <1>6, <1>9, <2>5 DEF o, l
    <3>2. Names(f) \in SUBSET C /\ Cardinality(Names(f)) = Len(f)
      BY <1>1, <1>3, <1>13, FoundLength, Zenon
    <3>3. v.offset <= Cardinality(Names(f))
      BY <1>6, <1>7, <2>5, <3>1, <3>2, SMTT(20)
    <3>4. ASSUME NEW n \in v.steady \ ToSet(v.listed)
          PROVE  v.offset <= Cardinality({m \in Names(f) : m < n})
      <4>1. PICK i \in DOMAIN f : f[i].name = n /\ e < i
        BY <2>4, <3>4, Zenon
      <4>2. Cardinality({m \in Names(f) : m < n}) = i - 1
        BY <1>1, <1>3, <4>1, FoundCount, Zenon
      <4>3. e <= i - 1
        BY <1>6, <1>7, <4>1
      <4> QED BY <3>1, <4>2, <4>3
    <3>5. Enough(table, v, Names(f))
      BY <1>2, <3>3, <3>4, Zenon DEF Enough
    <3>6. v.stage # "panic" /\ v.stage # "done"
      BY <3>1
    <3> QED BY <1>4, <3>2, <3>5, <3>6, Zenon DEF Ahead
  <2>6. CASE ~(e < Len(f))
    <3>1. \A i \in DOMAIN f : ~(e < i)
      BY <1>6, <1>7, <2>6
    <3>2. v.steady \subseteq ToSet(v.listed)
      BY <2>4, <3>1, Zenon
    <3>3. v.stage # "panic" /\ ~Open(v)
      BY <1>9, <2>6 DEF Open
    <3> QED BY <3>2, <3>3, Zenon DEF Ahead
  <2> QED BY <2>5, <2>6, Zenon
<1> QED BY <1>11, <1>12, <1>13, Zenon DEF Orderly

\* Of a page of clusters, those with metadata of the service are shown, in the
\* same order.
LEMMA ServiceShown ==
  ASSUME NEW page \in Seq(Found), Ascending(page)
  PROVE  /\ ListClustersWithService(page) \in Seq(Found)
         /\ Ascending(ListClustersWithService(page))
         /\ Len(ListClustersWithService(page)) <= Len(page)
         /\ \A i \in DOMAIN page :
              page[i].service => page[i].name \in Names(ListClustersWithService(page))
<1> DEFINE S == {i \in DOMAIN page : page[i].service}
           s == InOrder(S)
           k == Cardinality(S)
           r == [i \in DOMAIN s |-> page[s[i]]]
<1>1. Len(page) \in Nat /\ DOMAIN page = 1 .. Len(page) /\ \A i \in DOMAIN page : page[i] \in Found
  OBVIOUS
<1>2. S \in SUBSET (1 .. Len(page)) /\ S \in SUBSET Nat
  BY <1>1
<1>3. /\ IsFiniteSet(1 .. Len(page)) /\ Cardinality(1 .. Len(page)) = Len(page)
  BY <1>1, FS_Interval
<1> HIDE DEF S
<1>4. IsFiniteSet(S) /\ k <= Len(page)
  BY <1>2, <1>3, FS_Subset, Zenon
<1>5. /\ k \in Nat /\ s \in [1 .. k -> S]
      /\ \A i, j \in 1 .. k : i < j => s[i] < s[j]
      /\ \A n \in S : \E i \in 1 .. k : s[i] = n
  BY <1>2, <1>4, InOrderSorts, Zenon
<1>6. r = ListClustersWithService(page)
  BY Zenon DEF ListClustersWithService, S
<1> HIDE DEF s, k
<1>7. r \in [1 .. k -> Found] /\ DOMAIN r = 1 .. k /\ \A i \in 1 .. k : r[i] = page[s[i]]
  BY <1>1, <1>2, <1>5, Zenon
<1> HIDE DEF r
<1>8. r \in Seq(Found) /\ Len(r) = k
  BY <1>5, <1>7
<1>9. Ascending(r)
  <2> SUFFICES ASSUME NEW i \in 1 .. k, NEW j \in 1 .. k, i < j
               PROVE  r[i].name < r[j].name
    BY <1>7, Zenon DEF Ascending
  <2>1. s[i] < s[j] /\ s[i] \in DOMAIN page /\ s[j] \in DOMAIN page
    BY <1>1, <1>2, <1>5, Zenon
  <2> QED BY <1>7, <2>1, Zenon DEF Ascending
<1>10. \A i \in DOMAIN page : page[i].service => page[i].name \in Names(r)
  <2> SUFFICES ASSUME NEW i \in S PROVE page[i].name \in Names(r)
    BY Zenon DEF S
  <2>1. PICK j \in 1 .. k : s[j] = i
    BY <1>5, Zenon
  <2> QED BY <1>7, <2>1, Zenon DEF Names
<1> QED BY <1>4, <1>6, <1>8, <1>9, <1>10, Zenon

\* A response with a page of the list of a service: it is the last one.
LEMMA ServicesRespond ==
  ASSUME NEW table, NEW w \in Walk, Orderly(table, w), w.stage = "answer", w.route = "services",
         ~Panics(w.found, w.offset, w.limit),
         NEW shown, shown = ListClustersWithService(Page(w.found, w.offset, w.limit))
  PROVE  /\ shown \in Seq(Found)
         /\ ~More(shown, w.offset, w.limit)
         /\ \A v \in Walk :
              (/\ v.query = w.query /\ v.route = w.route /\ v.limit = w.limit
               /\ v.steady = w.steady /\ v.joined = w.joined /\ v.left = w.left
               /\ v.listed = w.listed \o [i \in DOMAIN shown |-> shown[i].name]
               /\ v.offset = w.offset /\ v.stage = "done")
              => Orderly(table, v)
<1> DEFINE f == w.found
           l == w.limit
           e == EndIndex(Len(f), 0, l)
           page == Page(f, 0, l)
<1>1. /\ f \in Seq(Found) /\ l \in Nat \ {0} /\ w.steady \in SUBSET Name
      /\ N \in Nat /\ 0 \in Nat
  BY RoutesAssumption, Zenon DEF Walk, Found
<1>2. Reading(w) /\ Open(w) /\ w.key = N /\ w.offset = 0 /\ w.listed = <<>>
  BY DEF Reading, Open, Orderly, Queried
<1>3. /\ Ascending(f)
      /\ w.steady \subseteq MatchingIn(table, w)
      /\ \A n \in w.steady : n <= N => \E i \in DOMAIN f : f[i].name = n /\ f[i].service
  BY <1>2, Zenon DEF Orderly, Queried
<1>4. ~Panics(f, 0, l) /\ shown = ListClustersWithService(page)
  BY <1>2
<1>5. e = EndIndex(Len(f), 0, l) /\ page = Page(f, 0, l)
  OBVIOUS
<1> HIDE DEF f, l, e, page
<1>6. /\ e \in Nat /\ 0 <= e /\ e <= Len(f) /\ e <= 0 + l
      /\ page \in Seq(Found) /\ DOMAIN page = 1 .. e - 0
      /\ Len(page) = e - 0
      /\ \A i \in 1 .. e - 0 : 0 + i \in DOMAIN f /\ page[i] = f[0 + i]
      /\ Ascending(page)
  BY <1>1, <1>3, <1>4, <1>5, PageIsPart
<1>7. /\ shown \in Seq(Found) /\ Ascending(shown) /\ Len(shown) <= Len(page)
      /\ \A i \in DOMAIN page : page[i].service => page[i].name \in Names(shown)
  BY <1>4, <1>6, ServiceShown, Zenon
<1>8. ~More(shown, w.offset, w.limit)
  <2>1. Len(shown) \in Nat
    BY <1>7
  <2>2. Len(shown) <= l
    BY <1>1, <1>6, <1>7, <2>1
  <2> QED BY <1>1, <1>2, <2>1, <2>2 DEF More, EndIndex, l
<1>9. ASSUME NEW v \in Walk,
             v.query = w.query, v.route = w.route, v.limit = w.limit,
             v.steady = w.steady, v.joined = w.joined, v.left = w.left,
             v.listed = w.listed \o [i \in DOMAIN shown |-> shown[i].name],
             v.offset = w.offset, v.stage = "done"
      PROVE  Orderly(table, v)
  <2>1. ~Open(v) /\ ~Reading(v)
    BY <1>9 DEF Open, Reading
  <2>2. MatchingIn(table, v) = MatchingIn(table, w)
    BY <1>9, SameQuery
  <2>3. Queried(table, v)
    BY <1>2, <1>3, <1>9, <2>1, <2>2 DEF Queried
  <2>4. w.listed \in Seq(Name)
    BY DEF Walk
  <2>5. Passed(table, v)
    <3>1. IsInjective(w.listed)
      BY <1>2 DEF IsInjective
    <3>2. \A i \in DOMAIN w.listed : w.listed[i] <= 0
      BY <1>2
    <3>3. \A i \in DOMAIN shown : 0 < shown[i].name
      <4>1. \A i \in DOMAIN shown : shown[i].name \in Name
        BY <1>7, FoundTypes, Zenon
      <4> QED BY <4>1, NameBounds, Zenon
    <3>4. IsInjective(v.listed)
      BY <1>1, <1>7, <1>9, <2>4, <3>1, <3>2, <3>3, ListedOnce, Zenon
    <3> QED BY <2>1, <3>4, Zenon DEF Passed
  <2>6. Ahead(table, v)
    <3>1. ASSUME v.limit >= N PROVE v.steady \subseteq ToSet(v.listed)
      <4>1. /\ Len(f) \in Nat /\ DOMAIN f = 1 .. Len(f) /\ Len(f) <= N
        <5>1. Cardinality(Names(f)) = Len(f) /\ Names(f) \in SUBSET Name
          BY <1>1, <1>3, FoundLength, Zenon
        <5>2. Cardinality(Names(f)) <= N
          BY <5>1, SubsetsOfName, Zenon
        <5>3. Len(f) \in Nat /\ DOMAIN f = 1 .. Len(f)
          BY <1>1
        <5> QED BY <5>1, <5>2, <5>3
      <4>2. l >= N
        BY <1>9, <3>1 DEF l
      <4>3. e = Len(f)
        <5> DEFINE c == Len(f)
        <5>1. e = IF 0 + l > c THEN c ELSE 0 + l
          BY Zenon DEF e, EndIndex
        <5>2. l \in Nat /\ N \in Nat /\ c \in Nat /\ c <= N /\ l >= N
          BY <1>1, <4>1, <4>2
        <5> HIDE DEF c
        <5>3. 0 + l > c \/ 0 + l = c
          BY <5>2
        <5>4. e = c
          BY <5>1, <5>3, Zenon
        <5> QED BY <5>4, Zenon DEF c
      <4>4. \A i \in DOMAIN f : i \in DOMAIN page /\ page[i] = f[i]
        BY <1>6, <4>1, <4>3
      <4>5. \A n \in w.steady : n \in Names(shown)
        <5>1. \A n \in w.steady : n <= N
          BY <1>1 DEF Name
        <5>2. ASSUME NEW n \in w.steady PROVE n \in Names(shown)
          <6>1. PICK i \in DOMAIN f : f[i].name = n /\ f[i].service
            BY <1>3, <5>1, <5>2, Zenon
          <6>2. page[i].service /\ page[i].name = n /\ i \in DOMAIN page
            BY <4>4, <6>1, Zenon
          <6>3. page[i].name \in Names(shown)
            BY <1>7, <6>2, Zenon
          <6> QED BY <6>2, <6>3, Zenon
        <5> QED BY <5>2, Zenon
      <4>6. ToSet(v.listed) = ToSet(w.listed) \cup Names(shown)
        BY <1>7, <1>9, <2>4, ListMore, Zenon
      <4> QED BY <1>9, <4>5, <4>6, Zenon
    <3>2. v.stage # "panic" /\ v.route # "clusters"
      BY <1>9
    <3> QED BY <2>1, <3>1, <3>2, Zenon DEF Ahead
  <2> QED BY <2>3, <2>5, <2>6, Zenon DEF Orderly
<1> QED BY <1>7, <1>8, <1>9, Zenon

\* The offset is not past the end unless a cluster ceased to match.
LEMMA NoPanicUnlessLeft ==
  ASSUME NEW table, NEW w \in Walk, Orderly(table, w), w.stage = "answer", ~w.left
  PROVE  ~Panics(w.found, w.offset, w.limit)
<1> DEFINE f == w.found
           o == w.offset
           l == w.limit
<1>1. f \in Seq(Found) /\ o \in Nat /\ l \in Nat \ {0} /\ w.route \in RouteGroup /\ Len(f) \in Nat
  <2>1. f \in Seq(Found) /\ o \in Nat /\ l \in Limit /\ w.route \in RouteGroup
    BY Zenon DEF Walk, Found
  <2> HIDE DEF f
  <2> QED BY <2>1, RoutesAssumption, SequenceTypes, Zenon
<1>2. Reading(w) /\ Open(w) /\ w.key = N /\ Ascending(f)
  BY DEF Reading, Open, Orderly, Queried
<1>3. o <= Len(f)
  <2>1. CASE w.route = "services"
    <3>1. o = 0
      BY <2>1 DEF Orderly, Queried
    <3> HIDE DEF f, o
    <3> QED BY <1>1, <3>1
  <2>2. CASE w.route = "clusters"
    <3>1. PICK B \in SUBSET CountedIn(table, w) : Enough(table, w, B)
      BY <1>2, <2>2, Zenon DEF Orderly, Ahead
    <3>2. B \in SUBSET Name
      BY CountedType, Zenon
    <3>3. UpTo(B, N) = B
      <4>1. \A n \in Name : n <= N
        BY NameBounds
      <4> QED BY <3>2, <4>1, Zenon DEF UpTo
    <3>4. B \subseteq Names(f) /\ o <= Cardinality(B)
      BY <1>2, <3>1, <3>3, Zenon DEF Enough
    <3> HIDE DEF f, o
    <3>5. Names(f) \in SUBSET Name /\ Cardinality(Names(f)) = Len(f)
      BY <1>1, <1>2, FoundLength, Zenon
    <3>6. IsFiniteSet(Names(f)) /\ Cardinality(B) \in Nat
      BY <3>2, <3>5, SubsetsOfName, Zenon
    <3>7. Cardinality(B) <= Cardinality(Names(f))
      BY <3>4, <3>6, FS_Subset, Zenon
    <3> QED BY <1>1, <3>4, <3>5, <3>6, <3>7
  <2> QED BY <1>1, <2>1, <2>2 DEF RouteGroup
<1> HIDE DEF f, o, l
<1>4. ~Panics(f, o, l)
  BY <1>1, <1>3 DEF Panics, EndIndex
<1> QED BY <1>4 DEF f, o, l

\* An update of the table.
LEMMA WriteIsOrderly ==
  ASSUME NEW t1, NEW t2, NEW w \in Walk, Orderly(t1, w), NEW v,
         v = [w EXCEPT !.steady = w.steady \cap MatchingIn(t2, w),
                       !.joined = w.joined \/ ~(CountedIn(t2, w) \subseteq CountedIn(t1, w)),
                       !.left = w.left \/ ~(CountedIn(t1, w) \subseteq CountedIn(t2, w))]
  PROVE  v \in Walk /\ Orderly(t2, v)
<1> DEFINE C1 == CountedIn(t1, w)
           C2 == CountedIn(t2, w)
<1>1. /\ v.query = w.query /\ v.route = w.route /\ v.limit = w.limit /\ v.offset = w.offset
      /\ v.stage = w.stage /\ v.key = w.key /\ v.found = w.found /\ v.listed = w.listed
      /\ v.failed = w.failed /\ v.steady = w.steady \cap MatchingIn(t2, w)
      /\ v.joined = (w.joined \/ ~(C2 \subseteq C1))
      /\ v.left = (w.left \/ ~(C1 \subseteq C2))
  BY Zenon DEF Walk
<1>2. v \in Walk
  BY Zenon DEF Walk
<1>3. MatchingIn(t2, v) = MatchingIn(t2, w) /\ CountedIn(t2, v) = C2
  BY <1>1, SameQuery, Zenon
<1>4. ~v.left => ~w.left /\ C1 \subseteq C2
  BY <1>1, Zenon
<1>5. ~v.joined => ~w.joined /\ C2 \subseteq C1
  BY <1>1, Zenon
<1>6. v.steady \subseteq w.steady /\ v.steady \subseteq MatchingIn(t2, v)
  BY <1>1, <1>3, Zenon
<1>7. (Open(v) <=> Open(w)) /\ (Reading(v) <=> Reading(w))
  BY <1>1 DEF Open, Reading
<1>8. Queried(t2, v)
  <2>1. ~v.left /\ Reading(v) => Names(v.found) \subseteq CountedIn(t2, v)
    BY <1>1, <1>3, <1>4, <1>7, Zenon DEF Orderly, Queried
  <2>2. ~v.joined /\ Reading(v) => UpTo(CountedIn(t2, v), v.key) \subseteq Names(v.found)
    <3>1. C2 \subseteq C1 => UpTo(C2, w.key) \subseteq UpTo(C1, w.key)
      BY Zenon DEF UpTo
    <3> QED BY <1>1, <1>3, <1>5, <1>7, <3>1, Zenon DEF Orderly, Queried
  <2> QED BY <1>1, <1>6, <1>7, <2>1, <2>2, Zenon DEF Orderly, Queried
<1>9. ~v.joined => Passed(t2, v)
  <2>1. ASSUME ~v.joined, NEW last, NEW B, Behind(t1, w, last, B)
        PROVE  Behind(t2, v, last, B)
    BY <1>1, <1>3, <1>5, <1>7, <2>1, Zenon DEF Behind
  <2> QED BY <1>1, <1>5, <1>7, <2>1, Zenon DEF Orderly, Passed
<1>10. ~v.left => Ahead(t2, v)
  <2>1. ASSUME NEW B, Enough(t1, w, B)
        PROVE  Enough(t2, v, B)
    BY <1>1, <1>6, <1>7, <2>1, Zenon DEF Enough
  <2>2. ASSUME ~v.left, Open(v), v.route = "clusters"
        PROVE  \E B \in SUBSET CountedIn(t2, v) : Enough(t2, v, B)
    <3>1. PICK B \in SUBSET C1 : Enough(t1, w, B)
      BY <1>1, <1>4, <1>7, <2>2, Zenon DEF Orderly, Ahead
    <3>2. B \in SUBSET CountedIn(t2, v)
      BY <1>3, <1>4, <2>2, Zenon
    <3> QED BY <2>1, <3>1, <3>2, Zenon
  <2>3. ~v.left => v.stage # "panic"
    BY <1>1, <1>4 DEF Orderly, Ahead
  <2>4. ~v.left /\ v.stage = "done" /\ ~v.failed /\ (v.route = "clusters" \/ v.limit >= N)
        => v.steady \subseteq ToSet(v.listed)
    BY <1>1, <1>4, <1>6, Zenon DEF Orderly, Ahead
  <2> QED BY <2>2, <2>3, <2>4, Zenon DEF Ahead
<1> QED BY <1>2, <1>8, <1>9, <1>10, Zenon DEF Orderly

=============================================================================
