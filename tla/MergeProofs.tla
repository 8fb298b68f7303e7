---------------------------- MODULE MergeProofs -----------------------------
(***************************************************************************)
(* Lemmas about ResourceHandlers: what the merges of the patches that the  *)
(* handlers return leave in a ClusterSpec, and that their order does not   *)
(* matter.                                                                 *)
(*                                                                         *)
(* The patches of two kinds fill different fields, and of two tiers with   *)
(* the same name one comes from a machine pool and one from an EKS         *)
(* configuration, so two patches commute.  Any patch can then be the last  *)
(* one, and orders of n + 1 patches with the same last one leave the same, *)
(* if those of n patches do.                                               *)
(***************************************************************************)
EXTENDS ResourceHandlers, FiniteSetTheorems, WellFoundedInduction, TLAPS

-----------------------------------------------------------------------------
(* Lists of tiers.  The loops over tiers are recursive functions; what     *)
(* holds after each round is shown by the least round after which it would *)
(* not.                                                                    *)

\* A set of numbers has a least one.
LEMMA LeastNumber ==
  ASSUME NEW T \in SUBSET Nat, T # {}
  PROVE  \E n \in T : \A m \in T : ~(m < n)
<1> DEFINE R == OpToRel(<, Nat)
<1>1. IsWellFoundedOn(R, Nat)
  BY NatLessThanWellFounded, Zenon
<1>2. \A m, n \in Nat : m < n => <<m, n>> \in R
  BY DEF OpToRel
<1> HIDE DEF R
<1>3. PICK n \in T : \A m \in T : <<m, n>> \notin R
  BY <1>1, WFMin, Zenon
<1> QED BY <1>2, <1>3, Zenon

\* FirstOf finds the first tier of a name, or none.
LEMMA FirstOfIsFirst ==
  ASSUME NEW tiers, Len(tiers) \in Nat, NEW name
  PROVE  \/ /\ FirstOf(tiers, name) = 0
            /\ \A i \in 1 .. Len(tiers) : tiers[i].name # name
         \/ /\ FirstOf(tiers, name) \in 1 .. Len(tiers)
            /\ tiers[FirstOf(tiers, name)].name = name
            /\ \A i \in 1 .. FirstOf(tiers, name) - 1 : tiers[i].name # name
<1> DEFINE I == {i \in 1 .. Len(tiers) : tiers[i].name = name}
<1>1. FirstOf(tiers, name) = IF I # {} THEN Min(I) ELSE 0
  BY Zenon DEF FirstOf, SelectInSeq
<1>2. CASE I = {}
  BY <1>1, <1>2
<1>3. CASE I # {}
  <2>1. I \in SUBSET Nat
    OBVIOUS
  <2>2. \E n \in I : \A m \in I : n <= m
    <3> HIDE DEF I
    <3>1. PICK n \in I : \A m \in I : ~(m < n)
      BY <1>3, <2>1, LeastNumber, Zenon
    <3> QED BY <2>1, <3>1
  <2>3. Min(I) \in I /\ \A m \in I : Min(I) <= m
    <3> HIDE DEF I
    <3> QED BY <2>2, Zenon DEF Min
  <2>4. FirstOf(tiers, name) \in I /\ \A m \in I : FirstOf(tiers, name) <= m
    BY <1>1, <1>3, <2>3, Zenon
  <2> QED BY <2>4
<1> QED BY <1>2, <1>3

\* The tiers after each of the first l rounds of PutTiers.
PutRounds(g, src, l) ==
  g = [n \in 0 .. l |-> IF n = 0 THEN <<>> ELSE PutTier(g[n - 1], src[n])]

\* This loop too has a value after every round.
LEMMA PutGoesOn ==
  ASSUME NEW src, NEW L \in Nat
  PROVE  \E g : PutRounds(g, src, L)
<1> DEFINE Rounds(l) == \E g : PutRounds(g, src, l)
           T == {l \in Nat : ~Rounds(l)}
<1>1. Rounds(0)
  <2> DEFINE g == [n \in 0 .. 0 |-> <<>>]
  <2>1. g = [n \in 0 .. 0 |-> IF n = 0 THEN <<>> ELSE PutTier(g[n - 1], src[n])]
    OBVIOUS
  <2> QED BY <2>1, Zenon DEF PutRounds
<1>2. ASSUME NEW l \in Nat, Rounds(l)
      PROVE  Rounds(l + 1)
  <2>1. PICK h : h = [n \in 0 .. l |-> IF n = 0 THEN <<>> ELSE PutTier(h[n - 1], src[n])]
    BY <1>2, Zenon DEF PutRounds
  <2> DEFINE g == [n \in 0 .. l + 1 |-> IF n = l + 1 THEN PutTier(h[l], src[n]) ELSE h[n]]
  <2>2. g[0] = <<>>
    BY <2>1
  <2>3. ASSUME NEW n \in 1 .. l + 1
        PROVE  g[n] = PutTier(g[n - 1], src[n])
    <3>1. g[n - 1] = h[n - 1] /\ n - 1 \in 0 .. l
      OBVIOUS
    <3>2. CASE n = l + 1
      BY <3>1, <3>2
    <3>3. CASE n # l + 1
      <4>1. n \in 0 .. l /\ n # 0 /\ g[n] = h[n]
        BY <3>3
      <4>2. h[n] = PutTier(h[n - 1], src[n])
        BY <2>1, <4>1
      <4> QED BY <3>1, <4>1, <4>2
    <3> QED BY <3>2, <3>3
  <2>4. g = [n \in 0 .. l + 1 |-> g[n]]
    OBVIOUS
  <2> HIDE DEF g
  <2>5. \A n \in 0 .. l + 1 : g[n] = IF n = 0 THEN <<>> ELSE PutTier(g[n - 1], src[n])
    BY <2>2, <2>3
  <2>6. g = [n \in 0 .. l + 1 |-> IF n = 0 THEN <<>> ELSE PutTier(g[n - 1], src[n])]
    BY <2>4, <2>5, Zenon
  <2> QED BY <2>6, Zenon DEF PutRounds
<1> HIDE DEF Rounds
<1>3. T = {}
  <2> SUFFICES ASSUME T # {} PROVE FALSE
    OBVIOUS
  <2>1. PICK l \in T : \A m \in T : ~(m < l)
    <3>1. T \in SUBSET Nat
      OBVIOUS
    <3> HIDE DEF T
    <3> QED BY <3>1, LeastNumber, Zenon
  <2>2. l \in Nat /\ l # 0 /\ ~Rounds(l)
    BY <1>1, <2>1
  <2>3. l - 1 \in Nat /\ l - 1 \notin T /\ (l - 1) + 1 = l
    BY <2>1, <2>2
  <2> QED BY <1>2, <2>2, <2>3
<1>4. Rounds(L)
  BY <1>3
<1> QED BY <1>4 DEF Rounds

\* No two tiers have the same name.
Distinct(tiers) ==
  \A k, l \in DOMAIN tiers : tiers[k].name = tiers[l].name => k = l

\* The last tier of each name among the first n, and no other.
LastOnes(tiers, src, n) ==
  /\ Distinct(tiers)
  /\ \A k \in DOMAIN tiers : \E j \in 1 .. n :
       tiers[k] = src[j] /\ \A m \in j + 1 .. n : src[m].name # src[j].name
  /\ \A j \in 1 .. n : \E k \in DOMAIN tiers : tiers[k].name = src[j].name

\* One round of PutTiers.
LEMMA PutOne ==
  ASSUME NEW R, NEW tiers \in Seq(R), NEW src \in Seq(R), NEW n \in Nat, n + 1 <= Len(src),
         LastOnes(tiers, src, n)
  PROVE  /\ PutTier(tiers, src[n + 1]) \in Seq(R)
         /\ LastOnes(PutTier(tiers, src[n + 1]), src, n + 1)
<1> DEFINE t == src[n + 1]
           f == FirstOf(tiers, t.name)
           L == Len(tiers)
           put == PutTier(tiers, t)
           Latest(x, l) == \E j \in 1 .. l : x = src[j] /\ \A m \in j + 1 .. l : src[m].name # src[j].name
<1>1. L \in Nat /\ DOMAIN tiers = 1 .. L /\ t \in R /\ \A i \in 1 .. L : tiers[i] \in R
  OBVIOUS
<1>2. \/ f = 0 /\ \A i \in 1 .. L : tiers[i].name # t.name
      \/ f \in 1 .. L /\ tiers[f].name = t.name
  BY <1>1, FirstOfIsFirst, Zenon
<1>3. put = IF f = 0 THEN Append(tiers, t) ELSE [tiers EXCEPT ![f] = t]
  BY Zenon DEF PutTier
<1>4. /\ \A k, l \in 1 .. L : tiers[k].name = tiers[l].name => k = l
      /\ \A k \in 1 .. L : Latest(tiers[k], n)
      /\ \A j \in 1 .. n : \E k \in 1 .. L : tiers[k].name = src[j].name
  BY <1>1, Zenon DEF LastOnes, Distinct
<1>5. Latest(t, n + 1)
  <2>1. n + 1 \in 1 .. n + 1 /\ n + 1 + 1 .. n + 1 = {}
    OBVIOUS
  <2> QED BY <2>1
<1>6. ASSUME NEW x, Latest(x, n), x.name # t.name
      PROVE  Latest(x, n + 1)
  <2>1. PICK j \in 1 .. n : x = src[j] /\ \A m \in j + 1 .. n : src[m].name # src[j].name
    BY <1>6
  <2>2. j \in 1 .. n + 1 /\ j + 1 .. n + 1 = (j + 1 .. n) \cup {n + 1}
    OBVIOUS
  <2>3. \A m \in j + 1 .. n + 1 : src[m].name # src[j].name
    BY <1>6, <2>1, <2>2
  <2> QED BY <2>1, <2>2, <2>3
<1> HIDE DEF t, f, Latest
<1>7. CASE f = 0
  <2>1. /\ put = Append(tiers, t) /\ put \in Seq(R) /\ Len(put) = L + 1
        /\ DOMAIN put = 1 .. L + 1 /\ put[L + 1] = t /\ \A i \in 1 .. L : put[i] = tiers[i]
    BY <1>1, <1>3, <1>7
  <2> HIDE DEF put
  <2>2. \A i \in 1 .. L : tiers[i].name # t.name
    BY <1>2, <1>7
  <2>3. \A k, l \in 1 .. L + 1 : put[k].name = put[l].name => k = l
    BY <1>1, <1>4, <2>1, <2>2
  <2>4. \A k \in 1 .. L + 1 : Latest(put[k], n + 1)
    <3>1. \A k \in 1 .. L : Latest(put[k], n + 1)
      BY <1>4, <1>6, <2>1, <2>2, Zenon
    <3>2. \A k \in 1 .. L + 1 : k \in 1 .. L \/ k = L + 1
      BY <1>1
    <3> QED BY <1>5, <2>1, <3>1, <3>2, Zenon
  <2>5. \A j \in 1 .. n + 1 : \E k \in 1 .. L + 1 : put[k].name = src[j].name
    <3>1. \A j \in 1 .. n + 1 : j \in 1 .. n \/ j = n + 1
      OBVIOUS
    <3>2. 1 .. L \subseteq 1 .. L + 1 /\ L + 1 \in 1 .. L + 1
      BY <1>1
    <3>3. ASSUME NEW j \in 1 .. n
          PROVE  \E k \in 1 .. L : put[k].name = src[j].name
      <4>1. PICK k \in 1 .. L : tiers[k].name = src[j].name
        BY <1>4, Zenon
      <4>2. put[k] = tiers[k]
        BY <2>1, Zenon
      <4> QED BY <4>1, <4>2
    <3>4. put[L + 1].name = src[n + 1].name
      BY <2>1 DEF t
    <3> QED BY <3>1, <3>2, <3>3, <3>4, Zenon
  <2>6. LastOnes(put, src, n + 1)
    BY <2>1, <2>3, <2>4, <2>5, Zenon DEF LastOnes, Distinct, Latest
  <2> QED BY <2>1, <2>6 DEF put, t
<1>8. CASE f # 0
  <2>1. f \in 1 .. L /\ tiers[f].name = t.name
    BY <1>2, <1>8
  <2>2. /\ put = [tiers EXCEPT ![f] = t] /\ put \in Seq(R) /\ Len(put) = L
        /\ DOMAIN put = 1 .. L /\ put[f] = t /\ \A i \in 1 .. L : i # f => put[i] = tiers[i]
    <3>1. put = [tiers EXCEPT ![f] = t]
      BY <1>3, <1>8, Zenon
    <3>2. tiers \in [1 .. L -> R]
      BY <1>1
    <3>3. put \in [1 .. L -> R]
      BY <1>1, <2>1, <3>1, <3>2, Zenon
    <3> QED BY <1>1, <2>1, <3>1, <3>2, <3>3
  <2> HIDE DEF put
  <2>3. \A k \in 1 .. L : put[k].name = tiers[k].name
    BY <2>1, <2>2
  <2>4. \A k \in 1 .. L : k # f => tiers[k].name # t.name
    BY <1>4, <2>1
  <2>5. \A k \in 1 .. L : Latest(put[k], n + 1)
    BY <1>4, <1>5, <1>6, <2>2, <2>4, Zenon
  <2>6. \A j \in 1 .. n + 1 : \E k \in 1 .. L : put[k].name = src[j].name
    <3>1. \A j \in 1 .. n + 1 : j \in 1 .. n \/ j = n + 1
      OBVIOUS
    <3>2. put[f].name = src[n + 1].name
      BY <2>2 DEF t
    <3>3. ASSUME NEW j \in 1 .. n
          PROVE  \E k \in 1 .. L : put[k].name = src[j].name
      <4>1. PICK k \in 1 .. L : tiers[k].name = src[j].name
        BY <1>4, Zenon
      <4> QED BY <2>3, <4>1
    <3> QED BY <2>1, <3>1, <3>2, <3>3, Zenon
  <2>7. \A k, l \in 1 .. L : put[k].name = put[l].name => k = l
    BY <1>4, <2>3
  <2>8. LastOnes(put, src, n + 1)
    <3>1. DOMAIN put = 1 .. L
      BY <2>2
    <3> QED BY <2>5, <2>6, <2>7, <3>1, Zenon DEF LastOnes, Distinct, Latest
  <2> QED BY <2>2, <2>8 DEF put, t
<1> QED BY <1>7, <1>8

\* What PutTiers makes of a list: the last tier of each name, once.
LEMMA PutTiersKeepsLast ==
  ASSUME NEW R, NEW src \in Seq(R)
  PROVE  PutTiers(src).list \in Seq(R) /\ LastOnes(PutTiers(src).list, src, Len(src))
<1> DEFINE L == Len(src)
           put == CHOOSE g : PutRounds(g, src, L)
<1>1. PutTiers(src) = IF src = <<>> THEN NoTiers ELSE TierList(put[L])
  BY DEF PutTiers, PutRounds
<1>2. put = [n \in 0 .. L |-> IF n = 0 THEN <<>> ELSE PutTier(put[n - 1], src[n])]
  <2>1. L \in Nat
    OBVIOUS
  <2>2. \E g : PutRounds(g, src, L)
    BY <2>1, PutGoesOn, Zenon
  <2>3. PutRounds(put, src, L)
    BY <2>2, Zenon
  <2> QED BY <2>3, Zenon DEF PutRounds
<1> HIDE DEF put
<1> DEFINE Good(n) == put[n] \in Seq(R) /\ LastOnes(put[n], src, n)
           T == {n \in 0 .. L : ~Good(n)}
<1>3. <<>> \in Seq(R) /\ LastOnes(<<>>, src, 0)
  BY DEF LastOnes, Distinct
<1>4. L \in Nat
  OBVIOUS
<1>5. T = {}
  <2> SUFFICES ASSUME T # {} PROVE FALSE
    OBVIOUS
  <2>1. PICK n \in T : \A m \in T : ~(m < n)
    <3>1. T \in SUBSET Nat
      OBVIOUS
    <3> HIDE DEF T
    <3> QED BY <3>1, LeastNumber, Zenon
  <2>2. n \in 0 .. L /\ ~Good(n)
    BY <2>1
  <2>3. put[0] = <<>>
    BY <1>2, <1>4
  <2>4. n # 0
    BY <1>3, <2>2, <2>3, Zenon
  <2>5. n - 1 \in Nat /\ n - 1 \in 0 .. L /\ n - 1 < n /\ (n - 1) + 1 = n /\ n <= Len(src)
    BY <1>4, <2>2, <2>4
  <2>6. Good(n - 1)
    BY <2>1, <2>5, Zenon
  <2>7. put[n] = PutTier(put[n - 1], src[n])
    BY <1>2, <2>2, <2>4
  <2> QED BY <2>2, <2>5, <2>6, <2>7, PutOne, Zenon
<1>6. Good(L)
  BY <1>4, <1>5
<1>7. CASE src = <<>>
  <2>1. PutTiers(src).list = <<>> /\ Len(src) = 0
    BY <1>1, <1>7 DEF NoTiers
  <2> QED BY <1>3, <2>1, Zenon
<1>8. CASE src # <<>>
  <2>1. PutTiers(src).list = put[L]
    BY <1>1, <1>8 DEF TierList
  <2> QED BY <1>6, <2>1, Zenon
<1> QED BY <1>7, <1>8

\* The tiers after each of the first l rounds of mergeTiers.
MergeRounds(g, dst, src, l) ==
  g = [n \in 0 .. l |-> IF n = 0 THEN dst ELSE MergeOneTier(g[n - 1], src[n])]

\* The loop has a value after every round.
LEMMA MergeGoesOn ==
  ASSUME NEW dst, NEW src, NEW L \in Nat
  PROVE  \E g : MergeRounds(g, dst, src, L)
<1> DEFINE Rounds(l) == \E g : MergeRounds(g, dst, src, l)
           T == {l \in Nat : ~Rounds(l)}
<1>1. Rounds(0)
  <2> DEFINE g == [n \in 0 .. 0 |-> dst]
  <2>1. g = [n \in 0 .. 0 |-> IF n = 0 THEN dst ELSE MergeOneTier(g[n - 1], src[n])]
    OBVIOUS
  <2> QED BY <2>1, Zenon DEF MergeRounds
<1>2. ASSUME NEW l \in Nat, Rounds(l)
      PROVE  Rounds(l + 1)
  <2>1. PICK h : h = [n \in 0 .. l |-> IF n = 0 THEN dst ELSE MergeOneTier(h[n - 1], src[n])]
    BY <1>2, Zenon DEF MergeRounds
  <2> DEFINE g == [n \in 0 .. l + 1 |-> IF n = l + 1 THEN MergeOneTier(h[l], src[n]) ELSE h[n]]
  <2>2. g[0] = dst
    BY <2>1
  <2>3. ASSUME NEW n \in 1 .. l + 1
        PROVE  g[n] = MergeOneTier(g[n - 1], src[n])
    <3>1. g[n - 1] = h[n - 1] /\ n - 1 \in 0 .. l
      OBVIOUS
    <3>2. CASE n = l + 1
      BY <3>1, <3>2
    <3>3. CASE n # l + 1
      <4>1. n \in 0 .. l /\ n # 0 /\ g[n] = h[n]
        BY <3>3
      <4>2. h[n] = MergeOneTier(h[n - 1], src[n])
        BY <2>1, <4>1
      <4> QED BY <3>1, <4>1, <4>2
    <3> QED BY <3>2, <3>3
  <2>4. g = [n \in 0 .. l + 1 |-> g[n]]
    OBVIOUS
  <2> HIDE DEF g
  <2>5. \A n \in 0 .. l + 1 : g[n] = IF n = 0 THEN dst ELSE MergeOneTier(g[n - 1], src[n])
    BY <2>2, <2>3
  <2>6. g = [n \in 0 .. l + 1 |-> IF n = 0 THEN dst ELSE MergeOneTier(g[n - 1], src[n])]
    BY <2>4, <2>5, Zenon
  <2> QED BY <2>6, Zenon DEF MergeRounds
<1> HIDE DEF Rounds
<1>3. T = {}
  <2> SUFFICES ASSUME T # {} PROVE FALSE
    OBVIOUS
  <2>1. PICK l \in T : \A m \in T : ~(m < l)
    <3>1. T \in SUBSET Nat
      OBVIOUS
    <3> HIDE DEF T
    <3> QED BY <3>1, LeastNumber, Zenon
  <2>2. l \in Nat /\ l # 0 /\ ~Rounds(l)
    BY <1>1, <2>1
  <2>3. l - 1 \in Nat /\ l - 1 \notin T /\ (l - 1) + 1 = l
    BY <2>1, <2>2
  <2> QED BY <1>2, <2>2, <2>3
<1>4. Rounds(L)
  BY <1>3
<1> QED BY <1>4 DEF Rounds

\* A tier is the first one of its name.
IsFirst(tiers, i) == \A j \in 1 .. i - 1 : tiers[j].name # tiers[i].name

\* What the merge of the first n tiers of src, which have distinct names, makes
\* of the tiers of dst: the first one of a name takes what src has for it.
MergedInto(tiers, dst, src, n) ==
  /\ tiers = [i \in DOMAIN dst |-> tiers[i]]
  /\ \A i \in DOMAIN dst :
       /\ "name" \in DOMAIN tiers[i] /\ tiers[i].name = dst[i].name
       /\ \A j \in 1 .. n : IsFirst(dst, i) /\ src[j].name = dst[i].name =>
                              tiers[i] = MergeTier(dst[i], src[j])
       /\ ~IsFirst(dst, i) \/ (\A j \in 1 .. n : src[j].name # dst[i].name) =>
            tiers[i] = dst[i]

\* One round of mergeTiers.
LEMMA MergeOne ==
  ASSUME NEW D, NEW dst \in Seq(D), \A i \in DOMAIN dst : "name" \in DOMAIN dst[i],
         NEW R, NEW src \in Seq(R), Distinct(src),
         NEW n \in Nat, n + 1 <= Len(src), NEW tiers, MergedInto(tiers, dst, src, n)
  PROVE  MergedInto(MergeOneTier(tiers, src[n + 1]), dst, src, n + 1)
<1> DEFINE s == src[n + 1]
           L == Len(dst)
           f == FirstOf(tiers, s.name)
           merged == MergeOneTier(tiers, s)
<1>1. L \in Nat /\ DOMAIN dst = 1 .. L
  OBVIOUS
<1>2. /\ tiers = [i \in 1 .. L |-> tiers[i]]
      /\ DOMAIN tiers = 1 .. L /\ Len(tiers) = L
  <2>1. tiers = [i \in 1 .. L |-> tiers[i]]
    BY <1>1, Zenon DEF MergedInto
  <2>2. DOMAIN tiers = 1 .. L
    BY <2>1
  <2>3. Len([i \in 1 .. L |-> tiers[i]]) = L
    BY <1>1
  <2> QED BY <2>1, <2>2, <2>3, Zenon
<1>3. \A i \in 1 .. L :
        /\ "name" \in DOMAIN tiers[i] /\ tiers[i].name = dst[i].name
        /\ \A j \in 1 .. n : IsFirst(dst, i) /\ src[j].name = dst[i].name =>
                               tiers[i] = MergeTier(dst[i], src[j])
        /\ ~IsFirst(dst, i) \/ (\A j \in 1 .. n : src[j].name # dst[i].name) =>
             tiers[i] = dst[i]
  BY <1>1, Zenon DEF MergedInto
<1>4. \/ f = 0 /\ \A i \in 1 .. L : tiers[i].name # s.name
      \/ /\ f \in 1 .. L /\ tiers[f].name = s.name
         /\ \A i \in 1 .. f - 1 : tiers[i].name # s.name
  <2>1. Len(tiers) \in Nat
    BY <1>1, <1>2
  <2> QED BY <1>2, <2>1, FirstOfIsFirst
<1>5. merged = IF f = 0 THEN tiers ELSE [tiers EXCEPT ![f] = MergeTier(tiers[f], s)]
  BY DEF MergeOneTier
<1>6. \A j \in 1 .. n : src[j].name # s.name
  <2>1. n + 1 \in DOMAIN src /\ \A j \in 1 .. n : j \in DOMAIN src /\ j # n + 1
    OBVIOUS
  <2> QED BY <2>1, Zenon DEF Distinct
<1>7. \A j \in 1 .. n + 1 : j \in 1 .. n \/ j = n + 1
  OBVIOUS
<1>8. n + 1 \in 1 .. n + 1 /\ \A j \in 1 .. n : j \in 1 .. n + 1
  OBVIOUS
<1> HIDE DEF f, merged, s, L
<1>9. CASE f = 0
  <2>1. merged = tiers
    BY <1>5, <1>9, Zenon
  <2>2. \A i \in 1 .. L : s.name # dst[i].name
    BY <1>3, <1>4, <1>9
  <2>3. ASSUME NEW i \in 1 .. L
        PROVE  /\ \A j \in 1 .. n + 1 : IsFirst(dst, i) /\ src[j].name = dst[i].name =>
                                          merged[i] = MergeTier(dst[i], src[j])
               /\ ~IsFirst(dst, i) \/ (\A j \in 1 .. n + 1 : src[j].name # dst[i].name) =>
                    merged[i] = dst[i]
    BY <1>3, <1>7, <1>8, <2>1, <2>2, Zenon DEF s
  <2>4. MergedInto(merged, dst, src, n + 1)
    BY <1>1, <1>2, <1>3, <2>1, <2>3, Zenon DEF MergedInto, L
  <2> QED BY <2>4 DEF merged, s
<1>10. CASE f # 0
  <2>1. f \in 1 .. L /\ tiers[f].name = s.name /\ \A i \in 1 .. f - 1 : tiers[i].name # s.name
    BY <1>4, <1>10
  <2>2. merged = [tiers EXCEPT ![f] = MergeTier(tiers[f], s)]
    BY <1>5, <1>10, Zenon
  <2>3. /\ merged = [i \in 1 .. L |-> merged[i]]
        /\ merged[f] = MergeTier(tiers[f], s)
        /\ \A i \in 1 .. L : i # f => merged[i] = tiers[i]
    BY <1>2, <2>1, <2>2, Zenon
  <2>4. IsFirst(dst, f) /\ dst[f].name = s.name
    <3>1. \A i \in 1 .. f - 1 : i \in 1 .. L
      BY <1>1, <2>1 DEF L
    <3> QED BY <1>3, <2>1, <3>1, Zenon DEF IsFirst
  <2>5. tiers[f] = dst[f]
    BY <1>3, <1>6, <2>1, <2>4, Zenon
  <2>6. "name" \in DOMAIN merged[f] /\ merged[f].name = tiers[f].name
    <3>1. \A d : "name" \in DOMAIN d =>
            "name" \in DOMAIN MergeTier(d, s) /\ MergeTier(d, s).name = d.name
      BY DEF MergeTier
    <3> QED BY <1>3, <2>1, <2>3, <3>1, Zenon
  <2>7. \A i \in 1 .. L : "name" \in DOMAIN merged[i] /\ merged[i].name = dst[i].name
    BY <1>3, <2>1, <2>3, <2>6, Zenon
  <2>8. ASSUME NEW i \in 1 .. L
        PROVE  /\ \A j \in 1 .. n + 1 : IsFirst(dst, i) /\ src[j].name = dst[i].name =>
                                          merged[i] = MergeTier(dst[i], src[j])
               /\ ~IsFirst(dst, i) \/ (\A j \in 1 .. n + 1 : src[j].name # dst[i].name) =>
                    merged[i] = dst[i]
    <3>1. CASE i = f
      <4>1. merged[i] = MergeTier(dst[i], src[n + 1])
        BY <2>3, <2>5, <3>1, Zenon DEF s
      <4>2. \A j \in 1 .. n + 1 : src[j].name = dst[i].name => j = n + 1
        BY <1>6, <1>7, <2>4, <3>1, Zenon
      <4>3. src[n + 1].name = dst[i].name /\ IsFirst(dst, i)
        BY <2>4, <3>1, Zenon DEF s
      <4> QED BY <1>8, <4>1, <4>2, <4>3, Zenon
    <3>2. CASE i # f
      <4>1. merged[i] = tiers[i]
        BY <2>3, <3>2, Zenon
      <4>2. IsFirst(dst, i) => src[n + 1].name # dst[i].name
        <5> SUFFICES ASSUME IsFirst(dst, i), src[n + 1].name = dst[i].name PROVE FALSE
          OBVIOUS
        <5>1. tiers[i].name = s.name /\ dst[f].name = dst[i].name
          BY <1>3, <2>4, Zenon DEF s
        <5>2. ~(i < f)
          <6>1. i < f => i \in 1 .. f - 1
            BY <1>1, <2>1 DEF L
          <6> QED BY <2>1, <5>1, <6>1, Zenon
        <5>3. ~(f < i)
          <6>1. f < i => f \in 1 .. i - 1
            BY <1>1, <2>1 DEF L
          <6> QED BY <5>1, <6>1, Zenon DEF IsFirst
        <5> QED BY <1>1, <2>1, <3>2, <5>2, <5>3 DEF L
      <4> QED BY <1>3, <1>7, <1>8, <4>1, <4>2, Zenon
    <3> QED BY <3>1, <3>2
  <2>9. MergedInto(merged, dst, src, n + 1)
    BY <1>1, <2>3, <2>7, <2>8, Zenon DEF MergedInto, L
  <2> QED BY <2>9 DEF merged, s
<1> QED BY <1>9, <1>10

\* What mergeTiers makes of a list, for a source with distinct names.
LEMMA MergedTiers ==
  ASSUME NEW D, NEW dst \in Seq(D), \A i \in DOMAIN dst : "name" \in DOMAIN dst[i],
         NEW R, NEW src \in Seq(R), Distinct(src)
  PROVE  MergedInto(mergeTiers(dst, src), dst, src, Len(src))
<1> DEFINE L == Len(src)
           merged == CHOOSE g : MergeRounds(g, dst, src, L)
<1>1. mergeTiers(dst, src) = merged[L]
  BY DEF mergeTiers, MergeRounds
<1>2. L \in Nat
  OBVIOUS
<1>3. merged = [n \in 0 .. L |-> IF n = 0 THEN dst ELSE MergeOneTier(merged[n - 1], src[n])]
  <2>1. \E g : MergeRounds(g, dst, src, L)
    BY <1>2, MergeGoesOn, Zenon
  <2>2. MergeRounds(merged, dst, src, L)
    BY <2>1, Zenon
  <2> QED BY <2>2, Zenon DEF MergeRounds
<1> HIDE DEF merged
<1>4. MergedInto(dst, dst, src, 0)
  <2>1. dst = [i \in DOMAIN dst |-> dst[i]] /\ 1 .. 0 = {}
    OBVIOUS
  <2> QED BY <2>1 DEF MergedInto
<1> DEFINE T == {n \in 0 .. L : ~MergedInto(merged[n], dst, src, n)}
<1>5. T = {}
  <2> SUFFICES ASSUME T # {} PROVE FALSE
    OBVIOUS
  <2>1. PICK n \in T : \A m \in T : ~(m < n)
    <3>1. T \in SUBSET Nat
      OBVIOUS
    <3> HIDE DEF T
    <3> QED BY <3>1, LeastNumber, Zenon
  <2>2. n \in 0 .. L /\ ~MergedInto(merged[n], dst, src, n)
    BY <2>1
  <2>3. merged[0] = dst
    BY <1>2, <1>3
  <2>4. n # 0
    BY <1>4, <2>2, <2>3, Zenon
  <2>5. n - 1 \in Nat /\ n - 1 \in 0 .. L /\ n - 1 < n /\ (n - 1) + 1 = n /\ n <= Len(src)
    BY <1>2, <2>2, <2>4
  <2>6. MergedInto(merged[n - 1], dst, src, n - 1)
    BY <2>1, <2>5, Zenon
  <2>7. merged[n] = MergeOneTier(merged[n - 1], src[n])
    BY <1>2, <1>3, <2>2, <2>4
  <2> HIDE DEF T, L
  <2> QED BY <2>2, <2>5, <2>6, <2>7, MergeOne, Zenon
<1>6. MergedInto(merged[L], dst, src, L)
  BY <1>2, <1>5
<1> QED BY <1>1, <1>6, Zenon

-----------------------------------------------------------------------------
(* Tiers of machine pools and of EKS configurations complete each other.   *)

\* A list is one whatever it is said to hold.
LEMMA Lists ==
  ASSUME NEW R, NEW s \in Seq(R)
  PROVE  IsList(s)
<1>1. Len(s) \in Nat /\ DOMAIN s = 1 .. Len(s)
  OBVIOUS
<1>2. s \in [1 .. Len(s) -> {s[i] : i \in DOMAIN s}]
  BY <1>1
<1> QED BY <1>1, <1>2 DEF IsList

\* So is one list after another.
LEMMA ListsAppend ==
  ASSUME NEW s, IsList(s)
  PROVE  /\ s \o <<>> = s
         /\ \A t : IsList(t) => IsList(s \o t)
<1> DEFINE R(t) == {t[i] : i \in DOMAIN t}
<1>1. s \in Seq(R(s))
  BY DEF IsList
<1> HIDE DEF R
<1>2. s \o <<>> = s
  BY <1>1
<1>3. ASSUME NEW t, IsList(t) PROVE IsList(s \o t)
  <2>1. t \in Seq(R(t))
    BY <1>3 DEF IsList, R
  <2> DEFINE S == R(s) \cup R(t)
  <2>2. s \in Seq(S) /\ t \in Seq(S)
    BY <1>1, <2>1
  <2> HIDE DEF S
  <2>3. s \o t \in Seq(S)
    BY <2>2
  <2> QED BY <2>3, Lists, Zenon
<1> QED BY <1>2, <1>3

\* A tier as the initial data has it.
IsTier(t) ==
  /\ DOMAIN t = DOMAIN EmptyTier
  /\ IsList(t.taints)

\* A tier made from a machine pool does not know the runtime.
PoolTier(t) == IsTier(t) /\ t.containerRuntime = ""

\* A tier made from an EKS configuration knows nothing else.
ConfigTier(t) ==
  /\ IsTier(t)
  /\ t.instanceType = "" /\ t.minCapacity = 0 /\ t.maxCapacity = 0
  /\ t.labels = <<>> /\ t.taints = <<>>

\* The fields of a merged tier.
LEMMA MergedTierFields ==
  ASSUME NEW t, IsTier(t), NEW s, IsTier(s)
  PROVE  /\ IsTier(MergeTier(t, s))
         /\ MergeTier(t, s) = [f \in DOMAIN EmptyTier |-> MergeTier(t, s)[f]]
         /\ MergeTier(t, s).name = t.name
         /\ MergeTier(t, s).instanceType =
              IF t.instanceType = "" THEN s.instanceType ELSE t.instanceType
         /\ MergeTier(t, s).containerRuntime =
              IF t.containerRuntime = "" THEN s.containerRuntime ELSE t.containerRuntime
         /\ MergeTier(t, s).minCapacity = IF t.minCapacity = 0 THEN s.minCapacity ELSE t.minCapacity
         /\ MergeTier(t, s).maxCapacity = IF t.maxCapacity = 0 THEN s.maxCapacity ELSE t.maxCapacity
         /\ MergeTier(t, s).labels = MergeLabels(t.labels, s.labels)
         /\ MergeTier(t, s).taints = t.taints \o s.taints
<1>1. DOMAIN EmptyTier = {"name", "instanceType", "containerRuntime", "minCapacity",
                          "maxCapacity", "labels", "taints"}
  BY DEF EmptyTier
<1>2. DOMAIN t = DOMAIN EmptyTier
  BY DEF IsTier
<1>3. /\ MergeTier(t, s) = [f \in DOMAIN EmptyTier |-> MergeTier(t, s)[f]]
      /\ DOMAIN MergeTier(t, s) = DOMAIN EmptyTier
  BY <1>2, Zenon DEF MergeTier
<1>4. /\ MergeTier(t, s).name = t.name
      /\ MergeTier(t, s).instanceType =
           IF t.instanceType = "" THEN s.instanceType ELSE t.instanceType
      /\ MergeTier(t, s).containerRuntime =
           IF t.containerRuntime = "" THEN s.containerRuntime ELSE t.containerRuntime
      /\ MergeTier(t, s).minCapacity = IF t.minCapacity = 0 THEN s.minCapacity ELSE t.minCapacity
      /\ MergeTier(t, s).maxCapacity = IF t.maxCapacity = 0 THEN s.maxCapacity ELSE t.maxCapacity
      /\ MergeTier(t, s).labels = MergeLabels(t.labels, s.labels)
      /\ MergeTier(t, s).taints = t.taints \o s.taints
  BY <1>1, <1>2 DEF MergeTier
<1>5. IsList(MergeTier(t, s).taints)
  <2>1. IsList(t.taints) /\ IsList(s.taints)
    BY DEF IsTier
  <2>2. IsList(t.taints \o s.taints)
    BY <2>1, ListsAppend, Zenon
  <2> QED BY <1>4, <2>2, Zenon
<1> QED BY <1>3, <1>4, <1>5, Zenon DEF IsTier

\* Labels are merged with none at all in either order.
LEMMA LabelsCommute ==
  ASSUME NEW l, NEW m
  PROVE  MergeLabels(MergeLabels(l, m), <<>>) = MergeLabels(MergeLabels(l, <<>>), m)
<1> DEFINE D == DOMAIN l \cup DOMAIN m
<1>1. DOMAIN <<>> = {}
  OBVIOUS
<1>2. DOMAIN MergeLabels(l, m) = D /\ DOMAIN MergeLabels(l, <<>>) = DOMAIN l \cup DOMAIN <<>>
  BY Zenon DEF MergeLabels
<1>3. DOMAIN MergeLabels(l, <<>>) = DOMAIN l /\ D \cup DOMAIN <<>> = D
  BY <1>1, <1>2
<1>4. \A k \in D : MergeLabels(l, m)[k] = IF k \in DOMAIN l THEN l[k] ELSE m[k]
  BY Zenon DEF MergeLabels
<1>5. \A k \in DOMAIN l : MergeLabels(l, <<>>)[k] = l[k]
  BY Zenon DEF MergeLabels
<1>6. MergeLabels(MergeLabels(l, m), <<>>)
        = [k \in D |-> IF k \in D THEN MergeLabels(l, m)[k] ELSE <<>>[k]]
  BY <1>2, <1>3, Zenon DEF MergeLabels
<1>7. MergeLabels(MergeLabels(l, <<>>), m)
        = [k \in D |-> IF k \in DOMAIN l THEN MergeLabels(l, <<>>)[k] ELSE m[k]]
  BY <1>3, Zenon DEF MergeLabels
<1>8. \A k \in D : (IF k \in D THEN MergeLabels(l, m)[k] ELSE <<>>[k]) =
                    (IF k \in DOMAIN l THEN MergeLabels(l, <<>>)[k] ELSE m[k])
  BY <1>4, <1>5, Zenon
<1> HIDE DEF D
<1> QED BY <1>6, <1>7, <1>8, Zenon

\* A pool and a configuration may come in either order.
LEMMA TiersCommute ==
  ASSUME NEW t, IsTier(t), NEW p, PoolTier(p), NEW c, ConfigTier(c)
  PROVE  MergeTier(MergeTier(t, p), c) = MergeTier(MergeTier(t, c), p)
<1> DEFINE tp == MergeTier(t, p)
           tc == MergeTier(t, c)
           x == MergeTier(tp, c)
           y == MergeTier(tc, p)
<1>1. IsTier(p) /\ p.containerRuntime = "" /\ IsTier(c)
  BY Zenon DEF PoolTier, ConfigTier
<1>2. /\ c.instanceType = "" /\ c.minCapacity = 0 /\ c.maxCapacity = 0
      /\ c.labels = <<>> /\ c.taints = <<>>
  BY Zenon DEF ConfigTier
<1>3. /\ IsTier(tp) /\ tp.name = t.name
      /\ tp.instanceType = IF t.instanceType = "" THEN p.instanceType ELSE t.instanceType
      /\ tp.containerRuntime =
           IF t.containerRuntime = "" THEN p.containerRuntime ELSE t.containerRuntime
      /\ tp.minCapacity = IF t.minCapacity = 0 THEN p.minCapacity ELSE t.minCapacity
      /\ tp.maxCapacity = IF t.maxCapacity = 0 THEN p.maxCapacity ELSE t.maxCapacity
      /\ tp.labels = MergeLabels(t.labels, p.labels) /\ tp.taints = t.taints \o p.taints
  BY <1>1, MergedTierFields, Zenon
<1>4. /\ IsTier(tc) /\ tc.name = t.name
      /\ tc.instanceType = IF t.instanceType = "" THEN c.instanceType ELSE t.instanceType
      /\ tc.containerRuntime =
           IF t.containerRuntime = "" THEN c.containerRuntime ELSE t.containerRuntime
      /\ tc.minCapacity = IF t.minCapacity = 0 THEN c.minCapacity ELSE t.minCapacity
      /\ tc.maxCapacity = IF t.maxCapacity = 0 THEN c.maxCapacity ELSE t.maxCapacity
      /\ tc.labels = MergeLabels(t.labels, c.labels) /\ tc.taints = t.taints \o c.taints
  BY <1>1, MergedTierFields, Zenon
<1> HIDE DEF tp, tc
<1>5. IsTier(tp) /\ IsTier(tc)
  BY <1>3, <1>4, Zenon
<1>6. /\ x = [f \in DOMAIN EmptyTier |-> x[f]] /\ x.name = tp.name
      /\ x.instanceType = IF tp.instanceType = "" THEN c.instanceType ELSE tp.instanceType
      /\ x.containerRuntime =
           IF tp.containerRuntime = "" THEN c.containerRuntime ELSE tp.containerRuntime
      /\ x.minCapacity = IF tp.minCapacity = 0 THEN c.minCapacity ELSE tp.minCapacity
      /\ x.maxCapacity = IF tp.maxCapacity = 0 THEN c.maxCapacity ELSE tp.maxCapacity
      /\ x.labels = MergeLabels(tp.labels, c.labels) /\ x.taints = tp.taints \o c.taints
  BY <1>1, <1>5, MergedTierFields, Zenon
<1>7. /\ y = [f \in DOMAIN EmptyTier |-> y[f]] /\ y.name = tc.name
      /\ y.instanceType = IF tc.instanceType = "" THEN p.instanceType ELSE tc.instanceType
      /\ y.containerRuntime =
           IF tc.containerRuntime = "" THEN p.containerRuntime ELSE tc.containerRuntime
      /\ y.minCapacity = IF tc.minCapacity = 0 THEN p.minCapacity ELSE tc.minCapacity
      /\ y.maxCapacity = IF tc.maxCapacity = 0 THEN p.maxCapacity ELSE tc.maxCapacity
      /\ y.labels = MergeLabels(tc.labels, p.labels) /\ y.taints = tc.taints \o p.taints
  BY <1>1, <1>5, MergedTierFields, Zenon
<1> HIDE DEF x, y
<1>8. x.name = y.name /\ x.instanceType = y.instanceType
  BY <1>2, <1>3, <1>4, <1>6, <1>7, Zenon
<1>9. x.containerRuntime = y.containerRuntime
  BY <1>1, <1>3, <1>4, <1>6, <1>7, Zenon
<1>10. x.minCapacity = y.minCapacity
  BY <1>2, <1>3, <1>4, <1>6, <1>7, Zenon
<1>11. x.maxCapacity = y.maxCapacity
  BY <1>2, <1>3, <1>4, <1>6, <1>7, Zenon
<1>12. x.labels = y.labels
  <2>1. MergeLabels(MergeLabels(t.labels, p.labels), <<>>)
          = MergeLabels(MergeLabels(t.labels, <<>>), p.labels)
    BY LabelsCommute, Zenon
  <2> QED BY <1>2, <1>3, <1>4, <1>6, <1>7, <2>1, Zenon
<1>13. x.taints = y.taints
  <2>1. IsList(t.taints) /\ IsList(p.taints)
    BY <1>1, Zenon DEF IsTier
  <2>2. IsList(t.taints \o p.taints)
    BY <2>1, ListsAppend, Zenon
  <2>3. /\ (t.taints \o p.taints) \o <<>> = t.taints \o p.taints
        /\ t.taints \o <<>> = t.taints
    BY <2>1, <2>2, ListsAppend, Zenon
  <2> QED BY <1>2, <1>3, <1>4, <1>6, <1>7, <2>3, Zenon
<1>14. DOMAIN EmptyTier = {"name", "instanceType", "containerRuntime", "minCapacity",
                           "maxCapacity", "labels", "taints"}
  BY DEF EmptyTier
<1>15. \A f \in DOMAIN EmptyTier : x[f] = y[f]
  BY <1>8, <1>9, <1>10, <1>11, <1>12, <1>13, <1>14
<1>16. x = y
  BY <1>6, <1>7, <1>15, Zenon
<1> QED BY <1>16 DEF x, y, tp, tc

-----------------------------------------------------------------------------
(* Lists of tiers, and whole patches.                                      *)

AreTiers(list) ==
  /\ IsList(list)
  /\ \A i \in DOMAIN list : IsTier(list[i])

\* What mergeTiers makes of tiers, place by place.
LEMMA MergeByPlace ==
  ASSUME NEW dst, AreTiers(dst), NEW src, AreTiers(src), Distinct(src)
  PROVE  LET merged == mergeTiers(dst, src)
         IN /\ AreTiers(merged)
            /\ merged = [i \in DOMAIN dst |-> merged[i]]
            /\ DOMAIN merged = DOMAIN dst
            /\ \A i \in DOMAIN dst :
                 /\ merged[i].name = dst[i].name
                 /\ IsFirst(merged, i) <=> IsFirst(dst, i)
                 /\ \A j \in DOMAIN src : IsFirst(dst, i) /\ src[j].name = dst[i].name =>
                                            merged[i] = MergeTier(dst[i], src[j])
                 /\ ~IsFirst(dst, i) \/ (\A j \in DOMAIN src : src[j].name # dst[i].name) =>
                      merged[i] = dst[i]
<1> DEFINE merged == mergeTiers(dst, src)
           D == {dst[i] : i \in DOMAIN dst}
           R == {src[i] : i \in DOMAIN src}
<1>1. /\ dst \in Seq(D) /\ src \in Seq(R)
      /\ \A i \in DOMAIN dst : IsTier(dst[i])
      /\ \A j \in DOMAIN src : IsTier(src[j])
  BY Zenon DEF AreTiers, IsList
<1>2. "name" \in DOMAIN EmptyTier
  BY Zenon DEF EmptyTier
<1>3. \A i \in DOMAIN dst : "name" \in DOMAIN dst[i]
  BY <1>1, <1>2, Zenon DEF IsTier
<1> HIDE DEF D, R
<1>4. DOMAIN dst = 1 .. Len(dst) /\ Len(dst) \in Nat /\ DOMAIN src = 1 .. Len(src)
  BY <1>1
<1>5. MergedInto(merged, dst, src, Len(src))
  BY <1>1, <1>3, MergedTiers, Zenon
<1> HIDE DEF merged
<1>6. /\ merged = [i \in DOMAIN dst |-> merged[i]]
      /\ \A i \in DOMAIN dst :
           /\ merged[i].name = dst[i].name
           /\ \A j \in DOMAIN src : IsFirst(dst, i) /\ src[j].name = dst[i].name =>
                                      merged[i] = MergeTier(dst[i], src[j])
           /\ ~IsFirst(dst, i) \/ (\A j \in DOMAIN src : src[j].name # dst[i].name) =>
                merged[i] = dst[i]
  BY <1>4, <1>5, Zenon DEF MergedInto
<1>7. DOMAIN merged = DOMAIN dst
  <2>1. DOMAIN [i \in DOMAIN dst |-> merged[i]] = DOMAIN dst
    OBVIOUS
  <2> QED BY <1>6, <2>1, Zenon
<1>8. \A i \in DOMAIN dst : IsFirst(merged, i) <=> IsFirst(dst, i)
  <2>1. \A i \in DOMAIN dst : \A j \in 1 .. i - 1 : j \in DOMAIN dst
    BY <1>4
  <2> QED BY <1>6, <2>1, Zenon DEF IsFirst
<1>9. ASSUME NEW i \in DOMAIN dst
      PROVE  IsTier(merged[i])
  <2>1. merged[i] = dst[i] \/ \E j \in DOMAIN src : merged[i] = MergeTier(dst[i], src[j])
    BY <1>6, Zenon
  <2>2. ASSUME NEW j \in DOMAIN src PROVE IsTier(MergeTier(dst[i], src[j]))
    <3>1. IsTier(dst[i]) /\ IsTier(src[j])
      BY <1>1, Zenon
    <3> QED BY <3>1, MergedTierFields, Zenon
  <2> QED BY <1>1, <2>1, <2>2, Zenon
<1>10. AreTiers(merged)
  <2>1. merged \in [1 .. Len(dst) -> {merged[i] : i \in DOMAIN merged}]
    BY <1>4, <1>6, <1>7
  <2>2. merged \in Seq({merged[i] : i \in DOMAIN merged})
    BY <1>4, <2>1
  <2> QED BY <1>7, <1>9, <2>2, Zenon DEF AreTiers, IsList
<1> QED BY <1>6, <1>7, <1>8, <1>10, Zenon DEF merged

ArePools(list) == AreTiers(list) /\ Distinct(list) /\ \A i \in DOMAIN list : PoolTier(list[i])

AreConfigs(list) == AreTiers(list) /\ Distinct(list) /\ \A i \in DOMAIN list : ConfigTier(list[i])

\* Pools and configurations may be merged in either order.
LEMMA ListsCommute ==
  ASSUME NEW dst, AreTiers(dst), NEW p, ArePools(p), NEW c, AreConfigs(c)
  PROVE  mergeTiers(mergeTiers(dst, p), c) = mergeTiers(mergeTiers(dst, c), p)
<1> DEFINE dp == mergeTiers(dst, p)
           dc == mergeTiers(dst, c)
           x == mergeTiers(dp, c)
           y == mergeTiers(dc, p)
<1>1. /\ AreTiers(p) /\ Distinct(p) /\ AreTiers(c) /\ Distinct(c)
      /\ \A j \in DOMAIN p : PoolTier(p[j])
      /\ \A j \in DOMAIN c : ConfigTier(c[j])
  BY Zenon DEF ArePools, AreConfigs
<1>2. /\ AreTiers(dp) /\ DOMAIN dp = DOMAIN dst
      /\ \A i \in DOMAIN dst :
           /\ dp[i].name = dst[i].name
           /\ IsFirst(dp, i) <=> IsFirst(dst, i)
           /\ \A j \in DOMAIN p : IsFirst(dst, i) /\ p[j].name = dst[i].name =>
                                    dp[i] = MergeTier(dst[i], p[j])
           /\ ~IsFirst(dst, i) \/ (\A j \in DOMAIN p : p[j].name # dst[i].name) => dp[i] = dst[i]
  BY <1>1, MergeByPlace, Zenon
<1>3. /\ AreTiers(dc) /\ DOMAIN dc = DOMAIN dst
      /\ \A i \in DOMAIN dst :
           /\ dc[i].name = dst[i].name
           /\ IsFirst(dc, i) <=> IsFirst(dst, i)
           /\ \A j \in DOMAIN c : IsFirst(dst, i) /\ c[j].name = dst[i].name =>
                                    dc[i] = MergeTier(dst[i], c[j])
           /\ ~IsFirst(dst, i) \/ (\A j \in DOMAIN c : c[j].name # dst[i].name) => dc[i] = dst[i]
  BY <1>1, MergeByPlace, Zenon
<1> HIDE DEF dp, dc
<1>4. /\ x = [i \in DOMAIN dp |-> x[i]]
      /\ \A i \in DOMAIN dp :
           /\ \A j \in DOMAIN c : IsFirst(dp, i) /\ c[j].name = dp[i].name =>
                                    x[i] = MergeTier(dp[i], c[j])
           /\ ~IsFirst(dp, i) \/ (\A j \in DOMAIN c : c[j].name # dp[i].name) => x[i] = dp[i]
  BY <1>1, <1>2, MergeByPlace, Zenon
<1>5. /\ y = [i \in DOMAIN dc |-> y[i]]
      /\ \A i \in DOMAIN dc :
           /\ \A j \in DOMAIN p : IsFirst(dc, i) /\ p[j].name = dc[i].name =>
                                    y[i] = MergeTier(dc[i], p[j])
           /\ ~IsFirst(dc, i) \/ (\A j \in DOMAIN p : p[j].name # dc[i].name) => y[i] = dc[i]
  BY <1>1, <1>3, MergeByPlace, Zenon
<1> HIDE DEF x, y
<1>6. ASSUME NEW i \in DOMAIN dst
      PROVE  x[i] = y[i]
  <2>1. IsTier(dst[i])
    BY Zenon DEF AreTiers, IsList
  <2>2. CASE ~IsFirst(dst, i)
    <3>1. dp[i] = dst[i] /\ dc[i] = dst[i] /\ ~IsFirst(dp, i) /\ ~IsFirst(dc, i)
      BY <1>2, <1>3, <2>2, Zenon
    <3> QED BY <1>2, <1>3, <1>4, <1>5, <3>1, Zenon
  <2>3. CASE IsFirst(dst, i)
    <3>1. IsFirst(dp, i) /\ IsFirst(dc, i) /\ dp[i].name = dst[i].name /\ dc[i].name = dst[i].name
      BY <1>2, <1>3, <2>3, Zenon
    <3>2. /\ \A j \in DOMAIN p : p[j].name = dst[i].name =>
               dp[i] = MergeTier(dst[i], p[j]) /\ y[i] = MergeTier(dc[i], p[j])
          /\ (\A j \in DOMAIN p : p[j].name # dst[i].name) => dp[i] = dst[i] /\ y[i] = dc[i]
      BY <1>2, <1>3, <1>5, <2>3, <3>1, Zenon
    <3>3. /\ \A j \in DOMAIN c : c[j].name = dst[i].name =>
               dc[i] = MergeTier(dst[i], c[j]) /\ x[i] = MergeTier(dp[i], c[j])
          /\ (\A j \in DOMAIN c : c[j].name # dst[i].name) => dc[i] = dst[i] /\ x[i] = dp[i]
      BY <1>2, <1>3, <1>4, <2>3, <3>1, Zenon
    <3>4. CASE \A j \in DOMAIN p : p[j].name # dst[i].name
      BY <3>2, <3>3, <3>4, Zenon
    <3>5. CASE \A j \in DOMAIN c : c[j].name # dst[i].name
      BY <3>2, <3>3, <3>5, Zenon
    <3>6. ASSUME NEW j \in DOMAIN p, p[j].name = dst[i].name,
                 NEW k \in DOMAIN c, c[k].name = dst[i].name
          PROVE  x[i] = y[i]
      <4>1. PoolTier(p[j]) /\ ConfigTier(c[k])
        BY <1>1, Zenon
      <4>2. /\ x[i] = MergeTier(MergeTier(dst[i], p[j]), c[k])
            /\ y[i] = MergeTier(MergeTier(dst[i], c[k]), p[j])
        BY <3>2, <3>3, <3>6, Zenon
      <4>3. MergeTier(MergeTier(dst[i], p[j]), c[k]) = MergeTier(MergeTier(dst[i], c[k]), p[j])
        BY <2>1, <4>1, TiersCommute
      <4> QED BY <4>2, <4>3, Zenon
    <3> QED BY <3>4, <3>5, <3>6, Zenon
  <2> QED BY <2>2, <2>3, Zenon
<1>7. x = y
  BY <1>2, <1>3, <1>4, <1>5, <1>6, Zenon
<1> QED BY <1>7 DEF x, y, dp, dc

\* A buffer whose tiers were set.
HasTierList(spec) ==
  DOMAIN spec = DOMAIN EmptySpec /\ spec.tiers.set = TRUE /\ AreTiers(spec.tiers.list)

\* A patch with one tier of each name.
IsPatch(patch) == AreTiers(patch.tiers.list) /\ Distinct(patch.tiers.list)

\* Patches that fill different fields, or complete each other's tiers.
Compatible(x, y) ==
  /\ \A f \in DOMAIN EmptySpec \ {"tiers"} :
       x[f] = EmptySpec[f] \/ y[f] = EmptySpec[f] \/ x[f] = y[f]
  /\ \/ x.tiers.list = y.tiers.list
     \/ ArePools(x.tiers.list) /\ AreConfigs(y.tiers.list)
     \/ AreConfigs(x.tiers.list) /\ ArePools(y.tiers.list)

\* The tiers that a merge leaves.
LEMMA MergeIntoList ==
  ASSUME NEW spec, HasTierList(spec), NEW patch, IsPatch(patch)
  PROVE  /\ HasTierList(Merge(spec, patch))
         /\ Merge(spec, patch).tiers = TierList(mergeTiers(spec.tiers.list, patch.tiers.list))
         /\ Merge(spec, patch).tiers.list = mergeTiers(spec.tiers.list, patch.tiers.list)
<1> DEFINE merged == Merge(spec, patch)
<1>1. DOMAIN spec = DOMAIN EmptySpec /\ spec.tiers.set = TRUE /\ AreTiers(spec.tiers.list)
  BY Zenon DEF HasTierList
<1>2. "tiers" \in DOMAIN EmptySpec
  BY Zenon DEF EmptySpec
<1>3. DOMAIN merged = DOMAIN EmptySpec
  BY <1>1, Zenon DEF Merge
<1>4. merged.tiers = MergeTierLists(spec.tiers, patch.tiers)
  BY <1>1, <1>2, Zenon DEF Merge
<1>5. merged.tiers = TierList(mergeTiers(spec.tiers.list, patch.tiers.list))
  BY <1>1, <1>4, Zenon DEF MergeTierLists
<1>6. merged.tiers.set = TRUE /\ merged.tiers.list = mergeTiers(spec.tiers.list, patch.tiers.list)
  BY <1>5 DEF TierList
<1>7. AreTiers(mergeTiers(spec.tiers.list, patch.tiers.list))
  BY <1>1, MergeByPlace, Zenon DEF IsPatch
<1> QED BY <1>3, <1>5, <1>6, <1>7, Zenon DEF HasTierList

\* A field that a patch does not fill stays, one that it fills is replaced.
LEMMA MergedField ==
  ASSUME NEW d, NEW s, NEW f \in DOMAIN d, f # "tiers"
  PROVE  /\ s[f] = EmptySpec[f] => Merge(d, s)[f] = d[f]
         /\ s[f] # EmptySpec[f] => Merge(d, s)[f] = s[f]
BY Zenon DEF Merge

\* Compatible patches may be merged in either order.
LEMMA PatchesCommute ==
  ASSUME NEW spec, HasTierList(spec), NEW x, IsPatch(x), NEW y, IsPatch(y), Compatible(x, y)
  PROVE  Merge(Merge(spec, x), y) = Merge(Merge(spec, y), x)
<1> DEFINE sx == Merge(spec, x)
           sy == Merge(spec, y)
           a == Merge(sx, y)
           b == Merge(sy, x)
           F == DOMAIN EmptySpec
           l == spec.tiers.list
<1>1. HasTierList(sx) /\ sx.tiers.list = mergeTiers(l, x.tiers.list)
  BY MergeIntoList, Zenon
<1>2. HasTierList(sy) /\ sy.tiers.list = mergeTiers(l, y.tiers.list)
  BY MergeIntoList, Zenon
<1>3. DOMAIN spec = F /\ DOMAIN sx = F /\ DOMAIN sy = F /\ AreTiers(l)
  BY <1>1, <1>2, Zenon DEF HasTierList
<1>4. a.tiers = TierList(mergeTiers(sx.tiers.list, y.tiers.list))
  BY <1>1, MergeIntoList, Zenon
<1>5. b.tiers = TierList(mergeTiers(sy.tiers.list, x.tiers.list))
  BY <1>2, MergeIntoList, Zenon
<1>6. a = [f \in F |-> a[f]] /\ b = [f \in F |-> b[f]]
  <2>1. \A d, s : Merge(d, s) = [f \in DOMAIN d |-> Merge(d, s)[f]]
    BY DEF Merge
  <2> QED BY <1>3, <2>1, Zenon
<1> HIDE DEF sx, sy, a, b
<1>8. ASSUME NEW f \in F, f # "tiers" PROVE a[f] = b[f]
  <2>1. f \in DOMAIN spec /\ f \in DOMAIN sx /\ f \in DOMAIN sy
    BY <1>3, <1>8, Zenon
  <2>2. /\ y[f] = EmptySpec[f] => a[f] = sx[f]
        /\ y[f] # EmptySpec[f] => a[f] = y[f]
    BY <1>8, <2>1, MergedField DEF a
  <2>3. /\ x[f] = EmptySpec[f] => b[f] = sy[f]
        /\ x[f] # EmptySpec[f] => b[f] = x[f]
    BY <1>8, <2>1, MergedField DEF b
  <2>4. /\ x[f] = EmptySpec[f] => sx[f] = spec[f]
        /\ x[f] # EmptySpec[f] => sx[f] = x[f]
    BY <1>8, <2>1, MergedField DEF sx
  <2>5. /\ y[f] = EmptySpec[f] => sy[f] = spec[f]
        /\ y[f] # EmptySpec[f] => sy[f] = y[f]
    BY <1>8, <2>1, MergedField DEF sy
  <2>6. x[f] = EmptySpec[f] \/ y[f] = EmptySpec[f] \/ x[f] = y[f]
    BY <1>8, Zenon DEF Compatible
  <2> QED BY <2>2, <2>3, <2>4, <2>5, <2>6, Zenon
<1>9. mergeTiers(sx.tiers.list, y.tiers.list) = mergeTiers(sy.tiers.list, x.tiers.list)
  <2> DEFINE p == x.tiers.list
             q == y.tiers.list
  <2>1. \/ p = q
        \/ ArePools(p) /\ AreConfigs(q)
        \/ AreConfigs(p) /\ ArePools(q)
    BY Zenon DEF Compatible
  <2>2. sx.tiers.list = mergeTiers(l, p) /\ sy.tiers.list = mergeTiers(l, q)
    BY <1>1, <1>2, Zenon
  <2> HIDE DEF p, q, l, sx, sy
  <2>3. mergeTiers(mergeTiers(l, p), q) = mergeTiers(mergeTiers(l, q), p)
    BY <1>3, <2>1, ListsCommute, ZenonT(30)
  <2> QED BY <2>2, <2>3, Zenon DEF p, q
<1>10. \A f \in F : a[f] = b[f]
  BY <1>4, <1>5, <1>8, <1>9, Zenon
<1>11. a = b
  BY <1>6, <1>10, Zenon
<1> QED BY <1>11 DEF a, b, sx, sy

-----------------------------------------------------------------------------
(* Patches.                                                                *)

\* The tier of a machine pool.
PoolOf(obj) ==
  [EmptyTier EXCEPT !.name = obj.fields["name"],
                    !.instanceType = obj.fields["instanceType"],
                    !.minCapacity = obj.fields["minSize"],
                    !.maxCapacity = obj.fields["maxSize"],
                    !.labels = obj.fields["labels"],
                    !.taints = getTaintsAsStringSlice(obj.fields["taints"])]

\* The tier of an EKS configuration.
ConfigOf(obj) ==
  [EmptyTier EXCEPT !.name = obj.name,
                    !.containerRuntime = obj.fields["containerRuntime"]]

\* The tiers of the objects of a kind.
TiersOf(kind, objs) ==
  CASE kind = "AWSManagedMachinePool" -> [i \in DOMAIN objs |-> PoolOf(objs[i])]
    [] kind = "EKSConfig" -> [i \in DOMAIN objs |-> ConfigOf(objs[i])]
    [] OTHER -> <<>>

\* A machine pool has a list of taints.
HasTaints(obj) == IsList(obj.fields["taints"])

\* A list of texts is made of it.
LEMMA TaintsAreTexts ==
  ASSUME NEW obj, HasTaints(obj)
  PROVE  IsList(getTaintsAsStringSlice(obj.fields["taints"]))
<1> DEFINE taints == obj.fields["taints"]
           texts == getTaintsAsStringSlice(taints)
<1>1. taints \in Seq({taints[i] : i \in DOMAIN taints})
  BY Zenon DEF HasTaints, IsList
<1> HIDE DEF taints
<1>2. Len(taints) \in Nat /\ DOMAIN taints = 1 .. Len(taints)
  BY <1>1
<1>3. texts = [i \in DOMAIN taints |-> TaintText(taints[i])]
  BY Zenon DEF getTaintsAsStringSlice
<1> HIDE DEF texts
<1>4. texts \in [1 .. Len(taints) -> {texts[i] : i \in DOMAIN taints}]
  BY <1>2, <1>3
<1>5. texts \in Seq({texts[i] : i \in DOMAIN taints})
  BY <1>2, <1>4
<1>6. IsList(texts)
  BY <1>5, Lists, Zenon
<1> QED BY <1>6 DEF texts, taints

\* What the tier of a pool has.
LEMMA PoolFields ==
  ASSUME NEW obj
  PROVE  /\ PoolOf(obj).name = obj.fields["name"]
         /\ PoolOf(obj).instanceType = obj.fields["instanceType"]
         /\ PoolOf(obj).minCapacity = obj.fields["minSize"]
         /\ PoolOf(obj).maxCapacity = obj.fields["maxSize"]
         /\ PoolOf(obj).containerRuntime = ""
         /\ HasTaints(obj) => PoolTier(PoolOf(obj))
<1>1. /\ PoolOf(obj).name = obj.fields["name"]
      /\ PoolOf(obj).instanceType = obj.fields["instanceType"]
      /\ PoolOf(obj).minCapacity = obj.fields["minSize"]
      /\ PoolOf(obj).maxCapacity = obj.fields["maxSize"]
      /\ PoolOf(obj).containerRuntime = ""
      /\ PoolOf(obj).taints = getTaintsAsStringSlice(obj.fields["taints"])
  BY Zenon DEF PoolOf, EmptyTier
<1>2. DOMAIN PoolOf(obj) = DOMAIN EmptyTier
  BY Zenon DEF PoolOf
<1> QED BY <1>1, <1>2, TaintsAreTexts, Zenon DEF PoolTier, IsTier

\* What the tier of a configuration has.
LEMMA ConfigFields ==
  ASSUME NEW obj
  PROVE  /\ ConfigOf(obj).name = obj.name
         /\ ConfigOf(obj).containerRuntime = obj.fields["containerRuntime"]
         /\ ConfigTier(ConfigOf(obj))
<1>1. /\ ConfigOf(obj).name = obj.name
      /\ ConfigOf(obj).containerRuntime = obj.fields["containerRuntime"]
      /\ ConfigOf(obj).instanceType = ""
      /\ ConfigOf(obj).minCapacity = 0 /\ ConfigOf(obj).maxCapacity = 0
      /\ ConfigOf(obj).labels = <<>> /\ ConfigOf(obj).taints = <<>>
  BY Zenon DEF ConfigOf, EmptyTier
<1>2. DOMAIN ConfigOf(obj) = DOMAIN EmptyTier
  BY Zenon DEF ConfigOf
<1>3. IsList(<<>>)
  BY DEF IsList
<1> QED BY <1>1, <1>2, <1>3, Zenon DEF ConfigTier, IsTier

\* The objects that a handler can make tiers of.
Readable(kind, objs) ==
  /\ IsList(objs)
  /\ kind = "AWSManagedMachinePool" => \A i \in DOMAIN objs : HasTaints(objs[i])

\* Tiers of objects.
LEMMA TiersOfObjects ==
  ASSUME NEW kind, NEW objs, Readable(kind, objs)
  PROVE  /\ AreTiers(TiersOf(kind, objs))
         /\ kind = "EKSConfig" \/ \A i \in DOMAIN TiersOf(kind, objs) : PoolTier(TiersOf(kind, objs)[i])
         /\ kind = "AWSManagedMachinePool" \/
              \A i \in DOMAIN TiersOf(kind, objs) : ConfigTier(TiersOf(kind, objs)[i])
<1> DEFINE tiers == TiersOf(kind, objs)
<1>1. objs \in Seq({objs[i] : i \in DOMAIN objs})
  BY Zenon DEF Readable, IsList
<1>2. Len(objs) \in Nat /\ DOMAIN objs = 1 .. Len(objs)
  BY <1>1
<1>3. CASE kind = "AWSManagedMachinePool"
  <2>1. tiers = [i \in DOMAIN objs |-> PoolOf(objs[i])]
    BY <1>3, Zenon DEF TiersOf
  <2> HIDE DEF tiers
  <2>2. DOMAIN tiers = DOMAIN objs /\ \A i \in DOMAIN tiers : tiers[i] = PoolOf(objs[i])
    BY <2>1
  <2>3. \A i \in DOMAIN tiers : PoolTier(tiers[i])
    BY <1>3, <2>2, PoolFields, Zenon DEF Readable
  <2>4. tiers \in [1 .. Len(objs) -> {tiers[i] : i \in DOMAIN tiers}]
    BY <1>2, <2>1, <2>2
  <2>5. tiers \in Seq({tiers[i] : i \in DOMAIN tiers})
    BY <1>2, <2>4
  <2>6. AreTiers(tiers)
    BY <2>3, <2>5, Zenon DEF AreTiers, IsList, PoolTier
  <2> QED BY <1>3, <2>3, <2>6, Zenon DEF tiers
<1>4. CASE kind = "EKSConfig"
  <2>1. tiers = [i \in DOMAIN objs |-> ConfigOf(objs[i])]
    BY <1>4, Zenon DEF TiersOf
  <2> HIDE DEF tiers
  <2>2. DOMAIN tiers = DOMAIN objs /\ \A i \in DOMAIN tiers : tiers[i] = ConfigOf(objs[i])
    BY <2>1
  <2>3. \A i \in DOMAIN tiers : ConfigTier(tiers[i])
    BY <2>2, ConfigFields, Zenon
  <2>4. tiers \in [1 .. Len(objs) -> {tiers[i] : i \in DOMAIN tiers}]
    BY <1>2, <2>1, <2>2
  <2>5. tiers \in Seq({tiers[i] : i \in DOMAIN tiers})
    BY <1>2, <2>4
  <2>6. AreTiers(tiers)
    BY <2>3, <2>5, Zenon DEF AreTiers, IsList, ConfigTier
  <2> QED BY <1>4, <2>3, <2>6, Zenon DEF tiers
<1>5. CASE kind # "AWSManagedMachinePool" /\ kind # "EKSConfig"
  <2>1. tiers = <<>>
    BY <1>5, Zenon DEF TiersOf
  <2> HIDE DEF tiers
  <2>2. DOMAIN tiers = {} /\ tiers \in Seq({tiers[i] : i \in DOMAIN tiers})
    BY <2>1
  <2>3. AreTiers(tiers) /\ \A i \in DOMAIN tiers : PoolTier(tiers[i]) /\ ConfigTier(tiers[i])
    BY <2>2, Zenon DEF AreTiers, IsList
  <2> QED BY <2>3, Zenon DEF tiers
<1> QED BY <1>3, <1>4, <1>5, Zenon

\* A list of tiers in which each name is kept once is one of tiers.
LEMMA PutTiersAreTiers ==
  ASSUME NEW src, AreTiers(src)
  PROVE  LET list == PutTiers(src).list
         IN /\ AreTiers(list) /\ Distinct(list)
            /\ \A k \in DOMAIN list : \E j \in DOMAIN src :
                 list[k] = src[j] /\ \A m \in DOMAIN src : m > j => src[m].name # src[j].name
            /\ \A j \in DOMAIN src : \E k \in DOMAIN list : list[k].name = src[j].name
<1> DEFINE list == PutTiers(src).list
           R == {src[i] : i \in DOMAIN src}
<1>1. src \in Seq(R) /\ \A i \in DOMAIN src : IsTier(src[i])
  BY Zenon DEF AreTiers, IsList
<1> HIDE DEF R
<1>2. list \in Seq(R) /\ LastOnes(list, src, Len(src))
  BY <1>1, PutTiersKeepsLast, Zenon
<1> HIDE DEF list
<1>3. DOMAIN src = 1 .. Len(src) /\ Len(src) \in Nat
  BY <1>1
<1>4. /\ Distinct(list)
      /\ \A k \in DOMAIN list : \E j \in DOMAIN src :
           list[k] = src[j] /\ \A m \in j + 1 .. Len(src) : src[m].name # src[j].name
      /\ \A j \in DOMAIN src : \E k \in DOMAIN list : list[k].name = src[j].name
  BY <1>2, <1>3, Zenon DEF LastOnes
<1>5. \A j \in DOMAIN src : \A m \in DOMAIN src : m > j => m \in j + 1 .. Len(src)
  BY <1>3
<1>6. \A k \in DOMAIN list : \E j \in DOMAIN src :
           list[k] = src[j] /\ \A m \in DOMAIN src : m > j => src[m].name # src[j].name
  <2> SUFFICES ASSUME NEW k \in DOMAIN list
               PROVE  \E j \in DOMAIN src : list[k] = src[j] /\
                        \A m \in DOMAIN src : m > j => src[m].name # src[j].name
    OBVIOUS
  <2>1. PICK j \in DOMAIN src :
          list[k] = src[j] /\ \A m \in j + 1 .. Len(src) : src[m].name # src[j].name
    BY <1>4, Zenon
  <2>2. \A m \in DOMAIN src : m > j => src[m].name # src[j].name
    BY <1>5, <2>1, Zenon
  <2> QED BY <2>1, <2>2, Zenon
<1>7. list \in Seq({list[i] : i \in DOMAIN list})
  BY <1>2
<1>8. \A k \in DOMAIN list : IsTier(list[k])
  BY <1>1, <1>4, Zenon
<1>9. AreTiers(list)
  BY <1>7, <1>8, Zenon DEF AreTiers, IsList
<1> QED BY <1>4, <1>6, <1>9, Zenon DEF list

\* The tiers of what a handler returns.
LEMMA HandledTiers ==
  ASSUME NEW kind \in Registered, NEW objs
  PROVE  Handle(kind, objs).tiers = PutTiers(TiersOf(kind, objs))
<1>1. CASE kind \notin {"AWSManagedMachinePool", "EKSConfig"}
  <2>1. kind \in {"Cluster", "VPC", "Subnet", "AWSManagedControlPlane"}
    BY <1>1 DEF Registered
  <2>2. Handle(kind, objs).tiers = NoTiers
    BY <2>1 DEF Handle, HandleCluster, HandleVPC, HandleSubnet, HandleControlPlane, EmptySpec
  <2>3. TiersOf(kind, objs) = <<>>
    BY <1>1, Zenon DEF TiersOf
  <2>4. PutTiers(<<>>) = NoTiers
    BY DEF PutTiers
  <2> QED BY <2>2, <2>3, <2>4
<1>2. CASE kind = "AWSManagedMachinePool"
  <2>1. TiersOf(kind, objs) = [i \in DOMAIN objs |-> PoolOf(objs[i])]
    BY <1>2, Zenon DEF TiersOf
  <2>2. Handle(kind, objs)
          = [EmptySpec EXCEPT !.tiers = PutTiers([i \in DOMAIN objs |-> PoolOf(objs[i])])]
    BY <1>2, Zenon DEF Handle, HandleMachinePool, PoolOf
  <2>3. "tiers" \in DOMAIN EmptySpec
    BY Zenon DEF EmptySpec
  <2> QED BY <2>1, <2>2, <2>3, Zenon
<1>3. CASE kind = "EKSConfig"
  <2>1. TiersOf(kind, objs) = [i \in DOMAIN objs |-> ConfigOf(objs[i])]
    BY <1>3, Zenon DEF TiersOf
  <2>2. Handle(kind, objs)
          = [EmptySpec EXCEPT !.tiers = PutTiers([i \in DOMAIN objs |-> ConfigOf(objs[i])])]
    BY <1>3, Zenon DEF Handle, HandleEKSConfig, ConfigOf
  <2>3. "tiers" \in DOMAIN EmptySpec
    BY Zenon DEF EmptySpec
  <2> QED BY <2>1, <2>2, <2>3, Zenon
<1> QED BY <1>1, <1>2, <1>3, Zenon

\* The fields that a handler fills.
FilledBy ==
  [Cluster |-> DOMAIN LabelOf,
   VPC |-> {"accountId", "virtualNetworks"},
   Subnet |-> {"availabilityZones"},
   AWSManagedControlPlane |-> {"oidcIssuer"},
   AWSManagedMachinePool |-> {"tiers"},
   EKSConfig |-> {"tiers"}]

\* A handler leaves the other fields empty, and all of them if there is no object.
LEMMA HandledFields ==
  ASSUME NEW kind \in Registered, NEW objs, NEW f \in DOMAIN EmptySpec
  PROVE  f \notin FilledBy[kind] => Handle(kind, objs)[f] = EmptySpec[f]
<1> SUFFICES ASSUME f \notin FilledBy[kind] PROVE Handle(kind, objs)[f] = EmptySpec[f]
  OBVIOUS
<1>1. CASE kind = "Cluster"
  <2>1. Handle(kind, objs) = HandleCluster(objs)
    BY <1>1, Zenon DEF Handle
  <2>2. f \notin {"shortName", "region", "cloudType", "cloudProviderRegion", "environment"}
    BY <1>1 DEF FilledBy, LabelOf
  <2> QED BY <2>1, <2>2, Zenon DEF HandleCluster
<1>2. CASE kind = "VPC"
  <2>1. Handle(kind, objs) = HandleVPC(objs)
    BY <1>2, Zenon DEF Handle
  <2>2. f \notin {"accountId", "virtualNetworks"}
    BY <1>2 DEF FilledBy
  <2> QED BY <2>1, <2>2, Zenon DEF HandleVPC
<1>3. CASE kind = "Subnet"
  <2>1. Handle(kind, objs) = HandleSubnet(objs)
    BY <1>3, Zenon DEF Handle
  <2>2. f # "availabilityZones"
    BY <1>3 DEF FilledBy
  <2> QED BY <2>1, <2>2, Zenon DEF HandleSubnet
<1>4. CASE kind = "AWSManagedControlPlane"
  <2>1. Handle(kind, objs) = HandleControlPlane(objs)
    BY <1>4, Zenon DEF Handle
  <2>2. f # "oidcIssuer"
    BY <1>4 DEF FilledBy
  <2> QED BY <2>1, <2>2, Zenon DEF HandleControlPlane
<1>5. CASE kind = "AWSManagedMachinePool"
  <2>1. Handle(kind, objs) = HandleMachinePool(objs)
    BY <1>5, Zenon DEF Handle
  <2>2. f # "tiers"
    BY <1>5 DEF FilledBy
  <2> QED BY <2>1, <2>2, Zenon DEF HandleMachinePool
<1>6. CASE kind = "EKSConfig"
  <2>1. Handle(kind, objs) = HandleEKSConfig(objs)
    BY <1>6, Zenon DEF Handle
  <2>2. f # "tiers"
    BY <1>6 DEF FilledBy
  <2> QED BY <2>1, <2>2, Zenon DEF HandleEKSConfig
<1> QED BY <1>1, <1>2, <1>3, <1>4, <1>5, <1>6, Zenon DEF Registered

\* No subnet of an empty list is private.
LEMMA NoSubnets == DOMAIN Considered("Subnet", <<>>) = {}
<1> DEFINE S == {i \in DOMAIN <<>> : isPrivateSubnet(<<>>[i])}
<1>1. S = {}
  OBVIOUS
<1>2. Cardinality(S) = 0
  BY <1>1, FS_EmptySet
<1>3. \E s \in [1 .. 0 -> {}] : \A i, j \in DOMAIN s : i < j => s[i] < s[j]
  <2>1. [i \in 1 .. 0 |-> 0] \in [1 .. 0 -> {}]
    OBVIOUS
  <2>2. \A i, j \in DOMAIN [k \in 1 .. 0 |-> 0] :
          i < j => [k \in 1 .. 0 |-> 0][i] < [k \in 1 .. 0 |-> 0][j]
    OBVIOUS
  <2> QED BY <2>1, <2>2, Zenon
<1>4. InOrder(S) \in [1 .. 0 -> {}]
  BY <1>1, <1>2, <1>3, Zenon DEF InOrder
<1>5. DOMAIN InOrder(S) = {}
  BY <1>4
<1> QED BY <1>5 DEF Considered

\* A handler makes nothing of no objects.
LEMMA NothingHandled ==
  ASSUME NEW kind \in Registered
  PROVE  Handle(kind, <<>>) = EmptySpec
<1>1. CASE kind \in {"Cluster", "VPC", "AWSManagedControlPlane"}
  BY <1>1, Zenon DEF Handle, HandleCluster, HandleVPC, HandleControlPlane
<1>2. EmptySpec = [f \in DOMAIN EmptySpec |-> EmptySpec[f]]
  BY Zenon DEF EmptySpec
<1>3. CASE kind = "Subnet"
  <2> DEFINE private == Considered("Subnet", <<>>)
             zones == [i \in DOMAIN private |-> [name |-> private[i].fields["availabilityZone"],
                                                 id |-> private[i].fields["availabilityZoneID"]]]
  <2>1. DOMAIN private = {}
    BY NoSubnets
  <2>2. Handle(kind, <<>>) = [EmptySpec EXCEPT !.availabilityZones = zones]
    BY <1>3, Zenon DEF Handle, HandleSubnet
  <2> HIDE DEF private
  <2>3. zones = <<>>
    BY <2>1
  <2> HIDE DEF zones
  <2>4. EmptySpec.availabilityZones = <<>>
    BY Zenon DEF EmptySpec
  <2> QED BY <1>2, <2>2, <2>3, <2>4, Zenon
<1>4. ASSUME NEW tier(_)
      PROVE  [EmptySpec EXCEPT !.tiers = PutTiers([i \in DOMAIN <<>> |-> tier(<<>>[i])])] = EmptySpec
  <2>1. [i \in DOMAIN <<>> |-> tier(<<>>[i])] = <<>>
    OBVIOUS
  <2>2. PutTiers(<<>>) = NoTiers
    BY DEF PutTiers
  <2>3. EmptySpec.tiers = NoTiers
    BY Zenon DEF EmptySpec
  <2> QED BY <1>2, <2>1, <2>2, <2>3, Zenon
<1>5. CASE kind = "AWSManagedMachinePool"
  <2>1. Handle(kind, <<>>)
          = [EmptySpec EXCEPT !.tiers = PutTiers([i \in DOMAIN <<>> |-> PoolOf(<<>>[i])])]
    BY <1>5, Zenon DEF Handle, HandleMachinePool, PoolOf
  <2> QED BY <1>4, <2>1
<1>6. CASE kind = "EKSConfig"
  <2>1. Handle(kind, <<>>)
          = [EmptySpec EXCEPT !.tiers = PutTiers([i \in DOMAIN <<>> |-> ConfigOf(<<>>[i])])]
    BY <1>6, Zenon DEF Handle, HandleEKSConfig, ConfigOf
  <2> QED BY <1>4, <2>1
<1> QED BY <1>1, <1>3, <1>5, <1>6, Zenon DEF Registered

\* What a handler returns can be merged.
LEMMA HandledPatch ==
  ASSUME NEW kind \in Registered, NEW objs, Readable(kind, objs)
  PROVE  LET list == Handle(kind, objs).tiers.list
         IN /\ IsPatch(Handle(kind, objs))
            /\ kind # "EKSConfig" => ArePools(list)
            /\ kind # "AWSManagedMachinePool" => AreConfigs(list)
<1> DEFINE list == Handle(kind, objs).tiers.list
           src == TiersOf(kind, objs)
<1>1. list = PutTiers(src).list
  BY HandledTiers, Zenon
<1>2. /\ AreTiers(src)
      /\ kind # "EKSConfig" => \A i \in DOMAIN src : PoolTier(src[i])
      /\ kind # "AWSManagedMachinePool" => \A i \in DOMAIN src : ConfigTier(src[i])
  BY TiersOfObjects, Zenon
<1> HIDE DEF src
<1>3. /\ AreTiers(list) /\ Distinct(list)
      /\ \A k \in DOMAIN list : \E j \in DOMAIN src : list[k] = src[j]
  <2>1. AreTiers(list) /\ Distinct(list)
    BY <1>1, <1>2, PutTiersAreTiers, Zenon
  <2>2. \A k \in DOMAIN PutTiers(src).list : \E j \in DOMAIN src : PutTiers(src).list[k] = src[j]
    BY <1>2, PutTiersAreTiers, Zenon
  <2> HIDE DEF list
  <2> QED BY <1>1, <2>1, <2>2, Zenon
<1>4. IsPatch(Handle(kind, objs))
  BY <1>3, Zenon DEF IsPatch
<1> HIDE DEF list
<1>5. kind # "EKSConfig" => ArePools(list)
  BY <1>2, <1>3, Zenon DEF ArePools
<1>6. kind # "AWSManagedMachinePool" => AreConfigs(list)
  BY <1>2, <1>3, Zenon DEF AreConfigs
<1> QED BY <1>4, <1>5, <1>6, Zenon DEF list

\* Different handlers fill different fields, or complete each other's tiers, and
\* one that is called twice returns the same, unless a list fails.
LEMMA HandledCompatible ==
  ASSUME NEW k \in Registered, NEW o, Readable(k, o),
         NEW l \in Registered, NEW p, Readable(l, p),
         k = l => o = p \/ o = <<>> \/ p = <<>>
  PROVE  Compatible(Handle(k, o), Handle(l, p))
<1> DEFINE x == Handle(k, o)
           y == Handle(l, p)
<1>1. ASSUME NEW f \in DOMAIN EmptySpec \ {"tiers"}
      PROVE  x[f] = EmptySpec[f] \/ y[f] = EmptySpec[f] \/ x[f] = y[f]
  <2>1. CASE k = l
    BY <2>1, NothingHandled, Zenon
  <2>2. CASE k # l
    <3>1. f \notin FilledBy[k] \/ f \notin FilledBy[l]
      BY <2>2 DEF FilledBy, LabelOf, Registered
    <3> QED BY <3>1, HandledFields, Zenon
  <2> QED BY <2>1, <2>2
<1>2. /\ k # "EKSConfig" => ArePools(x.tiers.list)
      /\ k # "AWSManagedMachinePool" => AreConfigs(x.tiers.list)
      /\ l # "EKSConfig" => ArePools(y.tiers.list)
      /\ l # "AWSManagedMachinePool" => AreConfigs(y.tiers.list)
  BY HandledPatch, Zenon
<1>3. \A spec : spec = EmptySpec => ArePools(spec.tiers.list) /\ AreConfigs(spec.tiers.list)
  <2>1. EmptySpec.tiers.list = <<>>
    BY Zenon DEF EmptySpec, NoTiers
  <2>2. IsList(<<>>) /\ DOMAIN <<>> = {}
    BY DEF IsList
  <2> QED BY <2>1, <2>2, Zenon DEF ArePools, AreConfigs, AreTiers, Distinct
<1>4. \/ x.tiers.list = y.tiers.list
      \/ ArePools(x.tiers.list) /\ AreConfigs(y.tiers.list)
      \/ AreConfigs(x.tiers.list) /\ ArePools(y.tiers.list)
  <2>1. CASE k = l
    <3>1. x = y \/ x = EmptySpec \/ y = EmptySpec
      BY <2>1, NothingHandled, Zenon
    <3>2. k # "EKSConfig" \/ k # "AWSManagedMachinePool"
      OBVIOUS
    <3> HIDE DEF x, y
    <3> QED BY <1>2, <1>3, <2>1, <3>1, <3>2, Zenon
  <2>2. CASE k # l
    <3> HIDE DEF x, y
    <3>1. \/ k # "EKSConfig" /\ l # "AWSManagedMachinePool"
          \/ k # "AWSManagedMachinePool" /\ l # "EKSConfig"
      BY <2>2
    <3> QED BY <1>2, <3>1, Zenon
  <2> QED BY <2>1, <2>2
<1> QED BY <1>1, <1>4, Zenon DEF Compatible

-----------------------------------------------------------------------------
(* What tiers get.                                                         *)

\* The places of the tiers that are merged into the one at place i.
PlacesOf(dst, i, src) ==
  {k \in DOMAIN src : IsFirst(dst, i) /\ src[k].name = dst[i].name}

\* The first tier of a name gets what the last object of that name has.
LEMMA MergeLast ==
  ASSUME NEW dst, AreTiers(dst), NEW src, AreTiers(src), NEW i \in DOMAIN dst
  PROVE  LET places == PlacesOf(dst, i, src)
             tier == mergeTiers(dst, PutTiers(src).list)[i]
         IN /\ places = {} => tier = dst[i]
            /\ places # {} => /\ Max(places) \in places
                              /\ tier = MergeTier(dst[i], src[Max(places)])
<1> DEFINE list == PutTiers(src).list
           merged == mergeTiers(dst, list)
           places == {k \in DOMAIN src : IsFirst(dst, i) /\ src[k].name = dst[i].name}
<1>1. /\ AreTiers(list) /\ Distinct(list)
      /\ \A k \in DOMAIN list : \E j \in DOMAIN src :
           list[k] = src[j] /\ \A m \in DOMAIN src : m > j => src[m].name # src[j].name
      /\ \A j \in DOMAIN src : \E k \in DOMAIN list : list[k].name = src[j].name
  BY PutTiersAreTiers, Zenon
<1> HIDE DEF list
<1>2. /\ \A j \in DOMAIN list : IsFirst(dst, i) /\ list[j].name = dst[i].name =>
           merged[i] = MergeTier(dst[i], list[j])
      /\ ~IsFirst(dst, i) \/ (\A j \in DOMAIN list : list[j].name # dst[i].name) =>
           merged[i] = dst[i]
  BY <1>1, MergeByPlace, Zenon
<1> HIDE DEF merged
<1>3. ASSUME places = {} PROVE merged[i] = dst[i]
  <2>1. ~IsFirst(dst, i) \/ \A j \in DOMAIN src : src[j].name # dst[i].name
    BY <1>3, Zenon
  <2> QED BY <1>1, <1>2, <2>1, ZenonT(30)
<1>4. ASSUME places # {}
      PROVE  Max(places) \in places /\ merged[i] = MergeTier(dst[i], src[Max(places)])
  <2>1. PICK k \in DOMAIN src : IsFirst(dst, i) /\ src[k].name = dst[i].name
    BY <1>4, Zenon
  <2>2. PICK l \in DOMAIN list : list[l].name = src[k].name
    BY <1>1, Zenon
  <2>3. PICK j \in DOMAIN src :
          list[l] = src[j] /\ \A m \in DOMAIN src : m > j => src[m].name # src[j].name
    BY <1>1, Zenon
  <2>4. merged[i] = MergeTier(dst[i], src[j]) /\ src[j].name = dst[i].name
    BY <1>2, <2>1, <2>2, <2>3, Zenon
  <2>5. j \in places /\ \A m \in places : ~(m > j)
    BY <2>1, <2>3, <2>4, Zenon
  <2>6. places \subseteq Int
    <3>1. DOMAIN src = 1 .. Len(src)
      BY DEF AreTiers, IsList
    <3> QED BY <3>1
  <2> HIDE DEF places
  <2>7. \A m \in places : j >= m
    BY <2>5, <2>6
  <2>8. Max(places) \in places /\ \A m \in places : Max(places) >= m
    BY <2>5, <2>7, Zenon DEF Max
  <2>9. Max(places) = j
    BY <2>5, <2>6, <2>7, <2>8
  <2> QED BY <2>4, <2>8, <2>9, Zenon
<1>5. places = PlacesOf(dst, i, src)
  BY DEF PlacesOf
<1> HIDE DEF places
<1> QED BY <1>3, <1>4, <1>5, Zenon DEF merged, list

\* A tier, completed by the last of its pools and of its configurations.
CompletedTier(t, given, pools, ps, configs, cs) ==
  /\ t.name = given.name
  /\ t.instanceType = Completed(given.instanceType, "", pools, ps, "instanceType")
  /\ t.minCapacity = Completed(given.minCapacity, 0, pools, ps, "minSize")
  /\ t.maxCapacity = Completed(given.maxCapacity, 0, pools, ps, "maxSize")
  /\ t.containerRuntime = Completed(given.containerRuntime, "", configs, cs, "containerRuntime")

PoolsOf(initial, i, kinds, world) ==
  {k \in DOMAIN world["AWSManagedMachinePool"] :
     /\ "AWSManagedMachinePool" \in kinds /\ IsFirst(initial, i)
     /\ world["AWSManagedMachinePool"][k].fields["name"] = initial[i].name}

ConfigsOf(initial, i, kinds, world) ==
  {k \in DOMAIN world["EKSConfig"] :
     /\ "EKSConfig" \in kinds /\ IsFirst(initial, i)
     /\ world["EKSConfig"][k].name = initial[i].name}

\* HasTiers, tier by tier.
LEMMA HasTiersByTier ==
  ASSUME NEW tiers, NEW initial, NEW kinds, NEW world
  PROVE  HasTiers(tiers, initial, kinds, world) <=>
           /\ DOMAIN tiers = DOMAIN initial
           /\ \A i \in DOMAIN initial :
                CompletedTier(tiers[i], initial[i],
                              world["AWSManagedMachinePool"], PoolsOf(initial, i, kinds, world),
                              world["EKSConfig"], ConfigsOf(initial, i, kinds, world))
BY Zenon DEF HasTiers, CompletedTier, PoolsOf, ConfigsOf, IsFirst

\* A value is completed once.
LEMMA CompletedOnce ==
  ASSUME NEW given, NEW nothing, NEW objs, NEW all, NEW places, places = {} \/ places = all, NEW path
  PROVE  Completed(Completed(given, nothing, objs, places, path), nothing, objs, all, path)
           = Completed(given, nothing, objs, all, path)
BY DEF Completed

\* A tier that gets its last pool.
LEMMA TierGetsPool ==
  ASSUME NEW t, IsTier(t), NEW given, NEW pools, NEW ps, NEW configs, NEW cs,
         CompletedTier(t, given, pools, ps, configs, cs),
         NEW all, ps = {} \/ ps = all, NEW u,
         all = {} => u = t,
         all # {} => u = MergeTier(t, PoolOf(pools[Max(all)])) /\ HasTaints(pools[Max(all)])
  PROVE  CompletedTier(u, given, pools, all, configs, cs)
<1>0. \A g, n, path :
        Completed(Completed(g, n, pools, ps, path), n, pools, all, path)
          = Completed(g, n, pools, all, path)
  BY CompletedOnce
<1>1. /\ u.name = t.name /\ u.containerRuntime = t.containerRuntime
      /\ u.instanceType = Completed(t.instanceType, "", pools, all, "instanceType")
      /\ u.minCapacity = Completed(t.minCapacity, 0, pools, all, "minSize")
      /\ u.maxCapacity = Completed(t.maxCapacity, 0, pools, all, "maxSize")
  <2>1. CASE all = {}
    BY <2>1, Zenon DEF Completed
  <2>2. CASE all # {}
    <3> DEFINE obj == pools[Max(all)]
               p == PoolOf(obj)
    <3>1. u = MergeTier(t, p) /\ HasTaints(obj)
      BY <2>2
    <3>2. /\ p.instanceType = obj.fields["instanceType"]
          /\ p.minCapacity = obj.fields["minSize"]
          /\ p.maxCapacity = obj.fields["maxSize"]
          /\ p.containerRuntime = ""
          /\ IsTier(p)
      BY <3>1, PoolFields, Zenon DEF PoolTier
    <3> HIDE DEF p
    <3>3. /\ u.name = t.name
          /\ u.instanceType = IF t.instanceType = "" THEN p.instanceType ELSE t.instanceType
          /\ u.containerRuntime =
               IF t.containerRuntime = "" THEN p.containerRuntime ELSE t.containerRuntime
          /\ u.minCapacity = IF t.minCapacity = 0 THEN p.minCapacity ELSE t.minCapacity
          /\ u.maxCapacity = IF t.maxCapacity = 0 THEN p.maxCapacity ELSE t.maxCapacity
      <4>1. IsTier(p)
        BY <3>2, Zenon
      <4> DEFINE v == MergeTier(t, p)
      <4>2. /\ v.name = t.name
            /\ v.instanceType = IF t.instanceType = "" THEN p.instanceType ELSE t.instanceType
            /\ v.containerRuntime =
                 IF t.containerRuntime = "" THEN p.containerRuntime ELSE t.containerRuntime
            /\ v.minCapacity = IF t.minCapacity = 0 THEN p.minCapacity ELSE t.minCapacity
            /\ v.maxCapacity = IF t.maxCapacity = 0 THEN p.maxCapacity ELSE t.maxCapacity
        BY <4>1, MergedTierFields, Zenon
      <4> HIDE DEF v
      <4>3. u = v
        BY <3>1, Zenon DEF v
      <4> QED BY <4>2, <4>3, Zenon
    <3>4. u.containerRuntime = t.containerRuntime
      <4>1. CASE t.containerRuntime = ""
        BY <3>2, <3>3, <4>1, Zenon
      <4>2. CASE t.containerRuntime # ""
        BY <3>3, <4>2, Zenon
      <4> QED BY <4>1, <4>2, Zenon
    <3>5. u.instanceType = Completed(t.instanceType, "", pools, all, "instanceType")
      BY <2>2, <3>2, <3>3, Zenon DEF Completed
    <3>6. u.minCapacity = Completed(t.minCapacity, 0, pools, all, "minSize")
      BY <2>2, <3>2, <3>3, Zenon DEF Completed
    <3>7. u.maxCapacity = Completed(t.maxCapacity, 0, pools, all, "maxSize")
      BY <2>2, <3>2, <3>3, Zenon DEF Completed
    <3> QED BY <3>3, <3>4, <3>5, <3>6, <3>7, Zenon
  <2> QED BY <2>1, <2>2, Zenon
<1>2. /\ t.name = given.name
      /\ t.instanceType = Completed(given.instanceType, "", pools, ps, "instanceType")
      /\ t.minCapacity = Completed(given.minCapacity, 0, pools, ps, "minSize")
      /\ t.maxCapacity = Completed(given.maxCapacity, 0, pools, ps, "maxSize")
      /\ t.containerRuntime = Completed(given.containerRuntime, "", configs, cs, "containerRuntime")
  BY Zenon DEF CompletedTier
<1>3. u.instanceType = Completed(given.instanceType, "", pools, all, "instanceType")
  <2>1. Completed(Completed(given.instanceType, "", pools, ps, "instanceType"),
                  "", pools, all, "instanceType")
          = Completed(given.instanceType, "", pools, all, "instanceType")
    BY <1>0, Zenon
  <2> QED BY <1>1, <1>2, <2>1, Zenon
<1>4. u.minCapacity = Completed(given.minCapacity, 0, pools, all, "minSize")
  <2>1. Completed(Completed(given.minCapacity, 0, pools, ps, "minSize"), 0, pools, all, "minSize")
          = Completed(given.minCapacity, 0, pools, all, "minSize")
    BY <1>0, Zenon
  <2> QED BY <1>1, <1>2, <2>1, Zenon
<1>5. u.maxCapacity = Completed(given.maxCapacity, 0, pools, all, "maxSize")
  <2>1. Completed(Completed(given.maxCapacity, 0, pools, ps, "maxSize"), 0, pools, all, "maxSize")
          = Completed(given.maxCapacity, 0, pools, all, "maxSize")
    BY <1>0, Zenon
  <2> QED BY <1>1, <1>2, <2>1, Zenon
<1> QED BY <1>1, <1>2, <1>3, <1>4, <1>5, Zenon DEF CompletedTier

\* A tier that gets its last configuration.
LEMMA TierGetsConfig ==
  ASSUME NEW t, IsTier(t), NEW given, NEW pools, NEW ps, NEW configs, NEW cs,
         CompletedTier(t, given, pools, ps, configs, cs),
         NEW all, cs = {} \/ cs = all, NEW u,
         all = {} => u = t,
         all # {} => u = MergeTier(t, ConfigOf(configs[Max(all)]))
  PROVE  CompletedTier(u, given, pools, ps, configs, all)
<1>0. \A g, n, path :
        Completed(Completed(g, n, configs, cs, path), n, configs, all, path)
          = Completed(g, n, configs, all, path)
  BY CompletedOnce
<1>1. /\ u.name = t.name /\ u.instanceType = t.instanceType
      /\ u.minCapacity = t.minCapacity /\ u.maxCapacity = t.maxCapacity
      /\ u.containerRuntime = Completed(t.containerRuntime, "", configs, all, "containerRuntime")
  <2>1. CASE all = {}
    BY <2>1, Zenon DEF Completed
  <2>2. CASE all # {}
    <3> DEFINE obj == configs[Max(all)]
               c == ConfigOf(obj)
    <3>1. u = MergeTier(t, c)
      BY <2>2
    <3>2. /\ c.containerRuntime = obj.fields["containerRuntime"]
          /\ c.instanceType = "" /\ c.minCapacity = 0 /\ c.maxCapacity = 0
          /\ IsTier(c)
      BY ConfigFields, Zenon DEF ConfigTier
    <3> HIDE DEF c
    <3>3. /\ u.name = t.name
          /\ u.instanceType = IF t.instanceType = "" THEN c.instanceType ELSE t.instanceType
          /\ u.containerRuntime =
               IF t.containerRuntime = "" THEN c.containerRuntime ELSE t.containerRuntime
          /\ u.minCapacity = IF t.minCapacity = 0 THEN c.minCapacity ELSE t.minCapacity
          /\ u.maxCapacity = IF t.maxCapacity = 0 THEN c.maxCapacity ELSE t.maxCapacity
      <4>1. IsTier(c)
        BY <3>2, Zenon
      <4> DEFINE v == MergeTier(t, c)
      <4>2. /\ v.name = t.name
            /\ v.instanceType = IF t.instanceType = "" THEN c.instanceType ELSE t.instanceType
            /\ v.containerRuntime =
                 IF t.containerRuntime = "" THEN c.containerRuntime ELSE t.containerRuntime
            /\ v.minCapacity = IF t.minCapacity = 0 THEN c.minCapacity ELSE t.minCapacity
            /\ v.maxCapacity = IF t.maxCapacity = 0 THEN c.maxCapacity ELSE t.maxCapacity
        BY <4>1, MergedTierFields, Zenon
      <4> HIDE DEF v
      <4>3. u = v
        BY <3>1, Zenon DEF v
      <4> QED BY <4>2, <4>3, Zenon
    <3>4. u.instanceType = t.instanceType
      BY <3>2, <3>3, Zenon
    <3>5. u.minCapacity = t.minCapacity
      BY <3>2, <3>3, Zenon
    <3>6. u.maxCapacity = t.maxCapacity
      BY <3>2, <3>3, Zenon
    <3>7. u.containerRuntime = Completed(t.containerRuntime, "", configs, all, "containerRuntime")
      BY <2>2, <3>2, <3>3, Zenon DEF Completed
    <3> QED BY <3>3, <3>4, <3>5, <3>6, <3>7, Zenon
  <2> QED BY <2>1, <2>2, Zenon
<1>2. /\ t.name = given.name
      /\ t.instanceType = Completed(given.instanceType, "", pools, ps, "instanceType")
      /\ t.minCapacity = Completed(given.minCapacity, 0, pools, ps, "minSize")
      /\ t.maxCapacity = Completed(given.maxCapacity, 0, pools, ps, "maxSize")
      /\ t.containerRuntime = Completed(given.containerRuntime, "", configs, cs, "containerRuntime")
  BY Zenon DEF CompletedTier
<1>3. u.containerRuntime = Completed(given.containerRuntime, "", configs, all, "containerRuntime")
  <2>1. Completed(Completed(given.containerRuntime, "", configs, cs, "containerRuntime"),
                  "", configs, all, "containerRuntime")
          = Completed(given.containerRuntime, "", configs, all, "containerRuntime")
    BY <1>0, Zenon
  <2> QED BY <1>1, <1>2, <2>1, Zenon
<1> QED BY <1>1, <1>2, <1>3, Zenon DEF CompletedTier

\* Tiers of the same names have the same first ones.
LEMMA SameFirst ==
  ASSUME NEW tiers, NEW initial, IsList(initial),
         \A i \in DOMAIN initial : tiers[i].name = initial[i].name
  PROVE  \A i \in DOMAIN initial : IsFirst(tiers, i) <=> IsFirst(initial, i)
<1>1. DOMAIN initial = 1 .. Len(initial) /\ Len(initial) \in Nat
  BY DEF IsList
<1>2. \A i \in DOMAIN initial : \A j \in 1 .. i - 1 : j \in DOMAIN initial
  BY <1>1
<1> QED BY <1>2, Zenon DEF IsFirst

\* A kind that is read completes the tiers, wherever it is in the list.
LEMMA TiersReadOneMore ==
  ASSUME NEW buf, HasTierList(buf), NEW initial, IsList(initial), NEW kinds, NEW world,
         HasTiers(buf.tiers.list, initial, kinds, world),
         NEW kind \in Registered, Readable(kind, world[kind])
  PROVE  HasTiers(Merge(buf, Handle(kind, world[kind])).tiers.list, initial, kinds \cup {kind}, world)
<1> DEFINE pools == world["AWSManagedMachinePool"]
           configs == world["EKSConfig"]
           objs == world[kind]
           src == TiersOf(kind, objs)
           dst == buf.tiers.list
           more == kinds \cup {kind}
           merged == mergeTiers(dst, PutTiers(src).list)
<1>1. AreTiers(dst) /\ AreTiers(src)
  BY TiersOfObjects, Zenon DEF HasTierList
<1>2. Merge(buf, Handle(kind, objs)).tiers.list = merged
  <2>1. IsPatch(Handle(kind, objs))
    BY HandledPatch, Zenon
  <2>2. Handle(kind, objs).tiers.list = PutTiers(src).list
    BY HandledTiers, Zenon
  <2> QED BY <2>1, <2>2, MergeIntoList, Zenon
<1>3. DOMAIN merged = DOMAIN dst
  <2>1. AreTiers(PutTiers(src).list) /\ Distinct(PutTiers(src).list)
    BY <1>1, PutTiersAreTiers, Zenon
  <2> QED BY <1>1, <2>1, MergeByPlace, Zenon
<1>4. /\ DOMAIN dst = DOMAIN initial
      /\ \A i \in DOMAIN initial :
           CompletedTier(dst[i], initial[i], pools, PoolsOf(initial, i, kinds, world),
                         configs, ConfigsOf(initial, i, kinds, world))
  BY HasTiersByTier, Zenon
<1>5. \A i \in DOMAIN initial :
        dst[i].name = initial[i].name /\ (IsFirst(dst, i) <=> IsFirst(initial, i))
  <2>1. \A i \in DOMAIN initial : dst[i].name = initial[i].name
    BY <1>4, Zenon DEF CompletedTier
  <2> QED BY <2>1, SameFirst, Zenon
<1>6. ASSUME NEW i \in DOMAIN initial
      PROVE  LET places == {k \in DOMAIN src : IsFirst(initial, i) /\ src[k].name = initial[i].name}
             IN /\ places = {} => merged[i] = dst[i]
                /\ places # {} => /\ Max(places) \in places
                                  /\ merged[i] = MergeTier(dst[i], src[Max(places)])
  <2> HIDE DEF src, dst, merged
  <2>1. {k \in DOMAIN src : IsFirst(initial, i) /\ src[k].name = initial[i].name}
          = {k \in DOMAIN src : IsFirst(dst, i) /\ src[k].name = dst[i].name}
    BY <1>5, Zenon
  <2>2. i \in DOMAIN dst
    BY <1>4
  <2> DEFINE own == PlacesOf(dst, i, src)
  <2>3. /\ own = {} => merged[i] = dst[i]
        /\ own # {} => /\ Max(own) \in own
                       /\ merged[i] = MergeTier(dst[i], src[Max(own)])
    BY <1>1, <2>2, MergeLast DEF merged
  <2>4. {k \in DOMAIN src : IsFirst(initial, i) /\ src[k].name = initial[i].name} = own
    BY <2>1, Zenon DEF PlacesOf
  <2> HIDE DEF own
  <2> QED BY <2>3, <2>4, Zenon
<1> HIDE DEF merged, dst
<1>7. ASSUME NEW i \in DOMAIN initial
      PROVE  CompletedTier(merged[i], initial[i], pools, PoolsOf(initial, i, more, world),
                           configs, ConfigsOf(initial, i, more, world))
  <2> DEFINE places == {k \in DOMAIN src : IsFirst(initial, i) /\ src[k].name = initial[i].name}
             ps == PoolsOf(initial, i, kinds, world)
             cs == ConfigsOf(initial, i, kinds, world)
  <2>1. /\ IsTier(dst[i]) /\ CompletedTier(dst[i], initial[i], pools, ps, configs, cs)
        /\ places = {} => merged[i] = dst[i]
        /\ places # {} => /\ Max(places) \in places
                          /\ merged[i] = MergeTier(dst[i], src[Max(places)])
    BY <1>1, <1>4, <1>6, Zenon DEF AreTiers
  <2>2. kind # "AWSManagedMachinePool" => PoolsOf(initial, i, more, world) = ps
    BY Zenon DEF PoolsOf
  <2>3. kind # "EKSConfig" => ConfigsOf(initial, i, more, world) = cs
    BY Zenon DEF ConfigsOf
  <2>4. CASE kind = "AWSManagedMachinePool"
    <3>1. DOMAIN src = DOMAIN pools /\ \A k \in DOMAIN pools : src[k] = PoolOf(pools[k])
      <4>1. src = [k \in DOMAIN pools |-> PoolOf(pools[k])]
        BY <2>4, Zenon DEF TiersOf
      <4> QED BY <4>1, Zenon
    <3>2. \A k \in DOMAIN pools : src[k].name = pools[k].fields["name"] /\ HasTaints(pools[k])
      BY <2>4, <3>1, PoolFields, Zenon DEF Readable
    <3> HIDE DEF src
    <3>3. PoolsOf(initial, i, more, world) = places
      BY <2>4, <3>1, <3>2, Zenon DEF PoolsOf
    <3>4. ps = {} \/ ps = places
      <4>1. CASE kind \in kinds
        BY <2>4, <3>1, <3>2, <4>1, Zenon DEF PoolsOf
      <4>2. CASE kind \notin kinds
        BY <2>4, <4>2, Zenon DEF PoolsOf
      <4> QED BY <4>1, <4>2
    <3>5. places # {} => Max(places) \in DOMAIN pools
      BY <2>1, <3>1, Zenon
    <3> HIDE DEF places, ps, cs
    <3>6. places # {} => /\ merged[i] = MergeTier(dst[i], PoolOf(pools[Max(places)]))
                         /\ HasTaints(pools[Max(places)])
      BY <2>1, <3>1, <3>2, <3>5, Zenon
    <3>7. CompletedTier(merged[i], initial[i], pools, places, configs, cs)
      BY <2>1, <3>4, <3>6, TierGetsPool
    <3>8. kind # "EKSConfig"
      BY <2>4
    <3> QED BY <2>3, <3>3, <3>7, <3>8, Zenon
  <2>5. CASE kind = "EKSConfig"
    <3>1. DOMAIN src = DOMAIN configs /\ \A k \in DOMAIN configs : src[k] = ConfigOf(configs[k])
      <4>1. src = [k \in DOMAIN configs |-> ConfigOf(configs[k])]
        BY <2>5, Zenon DEF TiersOf
      <4> QED BY <4>1, Zenon
    <3>2. \A k \in DOMAIN configs : src[k].name = configs[k].name
      BY <3>1, ConfigFields, Zenon
    <3> HIDE DEF src
    <3>3. ConfigsOf(initial, i, more, world) = places
      BY <2>5, <3>1, <3>2, Zenon DEF ConfigsOf
    <3>4. cs = {} \/ cs = places
      <4>1. CASE kind \in kinds
        BY <2>5, <3>1, <3>2, <4>1, Zenon DEF ConfigsOf
      <4>2. CASE kind \notin kinds
        BY <2>5, <4>2, Zenon DEF ConfigsOf
      <4> QED BY <4>1, <4>2
    <3>5. places # {} => Max(places) \in DOMAIN configs
      BY <2>1, <3>1, Zenon
    <3> HIDE DEF places, ps, cs
    <3>6. places # {} => merged[i] = MergeTier(dst[i], ConfigOf(configs[Max(places)]))
      BY <2>1, <3>1, <3>5, Zenon
    <3>7. CompletedTier(merged[i], initial[i], pools, ps, configs, places)
      BY <2>1, <3>4, <3>6, TierGetsConfig
    <3>8. kind # "AWSManagedMachinePool"
      BY <2>5
    <3> QED BY <2>2, <3>3, <3>7, <3>8, Zenon
  <2>6. CASE kind # "AWSManagedMachinePool" /\ kind # "EKSConfig"
    <3>1. src = <<>>
      BY <2>6, Zenon DEF TiersOf
    <3>2. DOMAIN src = {}
      BY <3>1
    <3>3. places = {}
      BY <3>2, Zenon
    <3> QED BY <2>1, <2>2, <2>3, <2>6, <3>3, Zenon
  <2> QED BY <2>4, <2>5, <2>6, Zenon
<1>8. HasTiers(merged, initial, more, world)
  BY <1>3, <1>4, <1>7, HasTiersByTier, Zenon
<1> QED BY <1>2, <1>8, Zenon

\* A merge of nothing leaves the tiers.
LEMMA MergeNothing ==
  ASSUME NEW buf, HasTierList(buf), NEW kind \in Registered
  PROVE  Merge(buf, Handle(kind, <<>>)).tiers.list = buf.tiers.list
<1> DEFINE dst == buf.tiers.list
           merged == mergeTiers(dst, <<>>)
<1>1. Handle(kind, <<>>).tiers.list = <<>>
  <2>1. EmptySpec.tiers = NoTiers
    BY Zenon DEF EmptySpec
  <2>2. NoTiers.list = <<>>
    BY DEF NoTiers
  <2> QED BY <2>1, <2>2, NothingHandled, Zenon
<1>2. AreTiers(<<>>) /\ Distinct(<<>>) /\ DOMAIN <<>> = {}
  <2>1. IsList(<<>>) /\ DOMAIN <<>> = {}
    BY DEF IsList
  <2> QED BY <2>1, Zenon DEF AreTiers, Distinct
<1>3. IsPatch(Handle(kind, <<>>))
  BY <1>1, <1>2, Zenon DEF IsPatch
<1>4. Merge(buf, Handle(kind, <<>>)).tiers.list = merged
  BY <1>1, <1>3, MergeIntoList, Zenon
<1>5. AreTiers(dst)
  BY Zenon DEF HasTierList
<1> HIDE DEF dst
<1>6. merged = [i \in DOMAIN dst |-> merged[i]] /\ \A i \in DOMAIN dst : merged[i] = dst[i]
  BY <1>2, <1>5, MergeByPlace, Zenon
<1>7. dst = [i \in DOMAIN dst |-> dst[i]]
  BY <1>5 DEF AreTiers, IsList
<1> HIDE DEF merged
<1>8. merged = dst
  BY <1>6, <1>7, Zenon
<1> QED BY <1>4, <1>8 DEF dst

\* The initial tiers have what nobody read.
LEMMA InitialTiers ==
  ASSUME NEW initial, NEW world
  PROVE  HasTiers(initial, initial, {}, world)
<1>1. ASSUME NEW i \in DOMAIN initial
      PROVE  CompletedTier(initial[i], initial[i],
                           world["AWSManagedMachinePool"], PoolsOf(initial, i, {}, world),
                           world["EKSConfig"], ConfigsOf(initial, i, {}, world))
  <2>1. PoolsOf(initial, i, {}, world) = {} /\ ConfigsOf(initial, i, {}, world) = {}
    BY Zenon DEF PoolsOf, ConfigsOf
  <2> QED BY <2>1, Zenon DEF CompletedTier, Completed
<1> QED BY <1>1, HasTiersByTier, Zenon

-----------------------------------------------------------------------------
(* What the other fields get.                                              *)

\* The kind that fills a field.
Filler ==
  [shortName |-> "Cluster", region |-> "Cluster", cloudType |-> "Cluster",
   cloudProviderRegion |-> "Cluster", environment |-> "Cluster",
   oidcIssuer |-> "AWSManagedControlPlane", accountId |-> "VPC",
   virtualNetworks |-> "VPC", availabilityZones |-> "Subnet"]

\* The value that a patch gives a field, or else the one it has.
Word(value, f, otherwise) == IF value = EmptySpec[f] THEN otherwise ELSE value

\* The objects that were read of a kind.
ReadOf(kind, kinds, world) == IF kind \in kinds THEN world[kind] ELSE <<>>

\* What a field has if some kinds were read.
HasWord(data, initial, kinds, world, f) ==
  data[f] = Word(Handle(Filler[f], ReadOf(Filler[f], kinds, world))[f], f, initial[f])

\* A cluster's label.
LEMMA LabelWord ==
  ASSUME NEW objs, NEW f \in DOMAIN LabelOf, NEW otherwise
  PROVE  Word(Handle("Cluster", objs)[f], f, otherwise) = LastOf(objs, LabelOf[f], otherwise)
<1>1. Handle("Cluster", objs) = HandleCluster(objs)
  BY Zenon DEF Handle
<1>2. f \in {"shortName", "region", "cloudType", "cloudProviderRegion", "environment"}
  BY DEF LabelOf
<1>3. EmptySpec[f] = ""
  <2>1. /\ EmptySpec["shortName"] = "" /\ EmptySpec["region"] = "" /\ EmptySpec["cloudType"] = ""
        /\ EmptySpec["cloudProviderRegion"] = "" /\ EmptySpec["environment"] = ""
    BY Zenon DEF EmptySpec
  <2> QED BY <1>2, <2>1, Zenon
<1>4. CASE objs = <<>>
  <2>1. Handle("Cluster", objs)[f] = EmptySpec[f]
    BY <1>1, <1>4, Zenon DEF HandleCluster
  <2> QED BY <1>4, <2>1, Zenon DEF Word, LastOf
<1>5. CASE objs # <<>>
  <2>1. Handle("Cluster", objs)[f] = Last(objs).fields[LabelOf[f]]
    <3> DEFINE labels == Last(objs).fields
    <3>1. HandleCluster(objs) = [EmptySpec EXCEPT !.shortName = labels["clusterShortName"],
                                   !.region = labels["locationShortName"],
                                   !.cloudType = labels["provider"],
                                   !.cloudProviderRegion = labels["location"],
                                   !.environment = labels["environment"]]
      BY <1>5, Zenon DEF HandleCluster
    <3> HIDE DEF labels
    <3>2. /\ HandleCluster(objs).shortName = labels["clusterShortName"]
          /\ HandleCluster(objs).region = labels["locationShortName"]
          /\ HandleCluster(objs).cloudType = labels["provider"]
          /\ HandleCluster(objs).cloudProviderRegion = labels["location"]
          /\ HandleCluster(objs).environment = labels["environment"]
      BY <3>1, Zenon DEF EmptySpec
    <3>3. HandleCluster(objs)[f] = labels[LabelOf[f]]
      <4>1. /\ LabelOf["shortName"] = "clusterShortName" /\ LabelOf["region"] = "locationShortName"
            /\ LabelOf["cloudType"] = "provider" /\ LabelOf["cloudProviderRegion"] = "location"
            /\ LabelOf["environment"] = "environment"
        BY DEF LabelOf
      <4> QED BY <1>2, <3>2, <4>1, Zenon
    <3> QED BY <1>1, <3>3, Zenon DEF labels
  <2> QED BY <1>3, <1>5, <2>1, Zenon DEF Word, LastOf
<1> QED BY <1>4, <1>5, Zenon

\* The issuer of the last control plane.
LEMMA IssuerWord ==
  ASSUME NEW objs, NEW otherwise
  PROVE  Word(Handle("AWSManagedControlPlane", objs).oidcIssuer, "oidcIssuer", otherwise)
           = LET issuer == extractOIDCIssuerFromARN(Last(objs).fields["arn"])
             IN IF objs = <<>> \/ issuer = <<>> THEN otherwise ELSE issuer
<1> DEFINE issuer == extractOIDCIssuerFromARN(Last(objs).fields["arn"])
<1>1. Handle("AWSManagedControlPlane", objs) = HandleControlPlane(objs)
  BY Zenon DEF Handle
<1>2. EmptySpec.oidcIssuer = <<>>
  BY Zenon DEF EmptySpec
<1>3. CASE objs = <<>>
  BY <1>1, <1>3, Zenon DEF HandleControlPlane, Word
<1>4. CASE objs # <<>>
  <2>1. HandleControlPlane(objs) = [EmptySpec EXCEPT !.oidcIssuer = issuer]
    BY <1>4, Zenon DEF HandleControlPlane
  <2> HIDE DEF issuer
  <2>2. HandleControlPlane(objs).oidcIssuer = issuer
    BY <2>1, Zenon DEF EmptySpec
  <2>3. Word(issuer, "oidcIssuer", otherwise) = IF issuer = <<>> THEN otherwise ELSE issuer
    BY <1>2, Zenon DEF Word
  <2> QED BY <1>1, <1>4, <2>2, <2>3, Zenon DEF issuer
<1> QED BY <1>3, <1>4, Zenon

\* The account of the last VPC, and the networks.
LEMMA VPCWord ==
  ASSUME NEW objs, IsList(objs), NEW otherwise
  PROVE  /\ Word(Handle("VPC", objs).accountId, "accountId", otherwise)
              = LastOf(objs, "ownerID", otherwise)
         /\ Word(Handle("VPC", objs).virtualNetworks, "virtualNetworks", otherwise)
              = IF objs = <<>> THEN otherwise
                ELSE [i \in DOMAIN objs |-> [id |-> objs[i].fields["vpcID"],
                                             cidrs |-> objs[i].fields["cidrBlocks"]]]
<1> DEFINE nets == [i \in DOMAIN objs |-> [id |-> objs[i].fields["vpcID"],
                                           cidrs |-> objs[i].fields["cidrBlocks"]]]
<1>1. Handle("VPC", objs) = HandleVPC(objs)
  BY Zenon DEF Handle
<1>2. EmptySpec.accountId = "" /\ EmptySpec.virtualNetworks = <<>>
  BY Zenon DEF EmptySpec
<1>3. CASE objs = <<>>
  <2>1. HandleVPC(objs) = EmptySpec
    BY <1>3, Zenon DEF HandleVPC
  <2> QED BY <1>1, <1>3, <2>1, Zenon DEF Word, LastOf
<1>4. CASE objs # <<>>
  <2> DEFINE owner == Last(objs).fields["ownerID"]
  <2>1. HandleVPC(objs) = [EmptySpec EXCEPT !.accountId = owner, !.virtualNetworks = nets]
    BY <1>4, Zenon DEF HandleVPC
  <2>2. nets # <<>>
    <3>1. DOMAIN objs # {}
      BY <1>4 DEF IsList
    <3> QED BY <3>1
  <2> HIDE DEF nets, owner
  <2>3. HandleVPC(objs).accountId = owner /\ HandleVPC(objs).virtualNetworks = nets
    BY <2>1, Zenon DEF EmptySpec
  <2>4. Word(nets, "virtualNetworks", otherwise) = nets
    BY <1>2, <2>2, Zenon DEF Word
  <2>5. Word(owner, "accountId", otherwise) = LastOf(objs, "ownerID", otherwise)
    BY <1>2, <1>4, Zenon DEF Word, LastOf, owner
  <2> QED BY <1>1, <1>4, <2>3, <2>4, <2>5, Zenon DEF nets
<1> QED BY <1>3, <1>4, Zenon

\* The zones of the private subnets.
LEMMA ZonesWord ==
  ASSUME NEW objs, NEW otherwise
  PROVE  Word(Handle("Subnet", objs).availabilityZones, "availabilityZones", otherwise)
           = LET subnets == Considered("Subnet", objs)
             IN IF DOMAIN subnets = {} THEN otherwise
                ELSE [i \in DOMAIN subnets |-> [name |-> subnets[i].fields["availabilityZone"],
                                                id |-> subnets[i].fields["availabilityZoneID"]]]
<1> DEFINE subnets == Considered("Subnet", objs)
           zones == [i \in DOMAIN subnets |-> [name |-> subnets[i].fields["availabilityZone"],
                                               id |-> subnets[i].fields["availabilityZoneID"]]]
<1>1. Handle("Subnet", objs) = HandleSubnet(objs)
  BY Zenon DEF Handle
<1>2. EmptySpec.availabilityZones = <<>>
  BY Zenon DEF EmptySpec
<1>3. HandleSubnet(objs) = [EmptySpec EXCEPT !.availabilityZones = zones]
  BY Zenon DEF HandleSubnet
<1> HIDE DEF subnets
<1>4. zones = <<>> <=> DOMAIN subnets = {}
  OBVIOUS
<1> HIDE DEF zones
<1>5. HandleSubnet(objs).availabilityZones = zones
  BY <1>3, Zenon DEF EmptySpec
<1>6. Word(zones, "availabilityZones", otherwise) = IF DOMAIN subnets = {} THEN otherwise ELSE zones
  BY <1>2, <1>4, Zenon DEF Word
<1> QED BY <1>1, <1>5, <1>6, Zenon DEF subnets, zones

\* HasRead, field by field.
LEMMA HasReadByField ==
  ASSUME NEW data, NEW initial, NEW kinds, NEW world, IsList(world["VPC"])
  PROVE  HasRead(data, initial, kinds, world) <=>
           \A f \in DOMAIN Filler : HasWord(data, initial, kinds, world, f)
<1> DEFINE read(kind) == ReadOf(kind, kinds, world)
           subnets == Considered("Subnet", read("Subnet"))
           issuer == extractOIDCIssuerFromARN(Last(read("AWSManagedControlPlane")).fields["arn"])
           R1 == \A f \in DOMAIN LabelOf :
                   data[f] = LastOf(read("Cluster"), LabelOf[f], initial[f])
           R2 == data.oidcIssuer = IF read("AWSManagedControlPlane") = <<>> \/ issuer = <<>>
                                   THEN initial.oidcIssuer ELSE issuer
           R3 == data.accountId = LastOf(read("VPC"), "ownerID", initial.accountId)
           R4 == data.virtualNetworks =
                   IF read("VPC") = <<>> THEN initial.virtualNetworks
                   ELSE [i \in DOMAIN read("VPC") |-> [id |-> read("VPC")[i].fields["vpcID"],
                                                       cidrs |-> read("VPC")[i].fields["cidrBlocks"]]]
           R5 == data.availabilityZones =
                   IF DOMAIN subnets = {} THEN initial.availabilityZones
                   ELSE [i \in DOMAIN subnets |-> [name |-> subnets[i].fields["availabilityZone"],
                                                   id |-> subnets[i].fields["availabilityZoneID"]]]
           W(f) == HasWord(data, initial, kinds, world, f)
<1>1. HasRead(data, initial, kinds, world) <=> R1 /\ R2 /\ R3 /\ R4 /\ R5
  BY Zenon DEF HasRead, ReadOf
<1>2. /\ \A f \in DOMAIN LabelOf : Filler[f] = "Cluster"
      /\ Filler["oidcIssuer"] = "AWSManagedControlPlane"
      /\ Filler["accountId"] = "VPC" /\ Filler["virtualNetworks"] = "VPC"
      /\ Filler["availabilityZones"] = "Subnet"
      /\ DOMAIN Filler = DOMAIN LabelOf \cup
                           {"oidcIssuer", "accountId", "virtualNetworks", "availabilityZones"}
  BY DEF Filler, LabelOf
<1>3. IsList(read("VPC"))
  <2>1. IsList(<<>>)
    BY DEF IsList
  <2> QED BY <2>1, Zenon DEF ReadOf
<1>4. R1 <=> \A f \in DOMAIN LabelOf : W(f)
  <2>1. ASSUME NEW f \in DOMAIN LabelOf
        PROVE  Word(Handle(Filler[f], ReadOf(Filler[f], kinds, world))[f], f, initial[f])
                 = LastOf(read("Cluster"), LabelOf[f], initial[f])
    <3>1. Filler[f] = "Cluster"
      BY <1>2, Zenon
    <3>2. Word(Handle("Cluster", read("Cluster"))[f], f, initial[f])
            = LastOf(read("Cluster"), LabelOf[f], initial[f])
      BY LabelWord, Zenon
    <3> QED BY <3>1, <3>2, Zenon
  <2> QED BY <2>1, Zenon DEF HasWord
<1>5. R2 <=> W("oidcIssuer")
  <2>1. Word(Handle("AWSManagedControlPlane", read("AWSManagedControlPlane")).oidcIssuer,
             "oidcIssuer", initial.oidcIssuer)
          = IF read("AWSManagedControlPlane") = <<>> \/ issuer = <<>>
            THEN initial.oidcIssuer ELSE issuer
    BY IssuerWord, Zenon
  <2> QED BY <1>2, <2>1, Zenon DEF HasWord
<1>6. R3 <=> W("accountId")
  <2>1. Word(Handle("VPC", read("VPC")).accountId, "accountId", initial.accountId)
          = LastOf(read("VPC"), "ownerID", initial.accountId)
    BY <1>3, VPCWord, Zenon
  <2> QED BY <1>2, <2>1, Zenon DEF HasWord
<1>7. R4 <=> W("virtualNetworks")
  <2> DEFINE nets == [i \in DOMAIN read("VPC") |-> [id |-> read("VPC")[i].fields["vpcID"],
                                                    cidrs |-> read("VPC")[i].fields["cidrBlocks"]]]
  <2>1. Word(Handle("VPC", read("VPC")).virtualNetworks, "virtualNetworks", initial.virtualNetworks)
          = IF read("VPC") = <<>> THEN initial.virtualNetworks ELSE nets
    BY <1>3, VPCWord, Zenon
  <2> QED BY <1>2, <2>1, Zenon DEF HasWord
<1>8. R5 <=> W("availabilityZones")
  <2>1. Word(Handle("Subnet", read("Subnet")).availabilityZones, "availabilityZones",
             initial.availabilityZones)
          = IF DOMAIN subnets = {} THEN initial.availabilityZones
            ELSE [i \in DOMAIN subnets |-> [name |-> subnets[i].fields["availabilityZone"],
                                            id |-> subnets[i].fields["availabilityZoneID"]]]
    BY ZonesWord, Zenon
  <2> QED BY <1>2, <2>1, Zenon DEF HasWord
<1> HIDE DEF R1, R2, R3, R4, R5, W
<1>9. (\A f \in DOMAIN Filler : W(f)) <=> R1 /\ R2 /\ R3 /\ R4 /\ R5
  BY <1>2, <1>4, <1>5, <1>6, <1>7, <1>8, Zenon
<1> QED BY <1>1, <1>9, Zenon DEF W

\* Fields other than tiers, and who fills them.
LEMMA Fillers ==
  /\ DOMAIN Filler \subseteq DOMAIN EmptySpec
  /\ \A f \in DOMAIN Filler : f # "tiers" /\ Filler[f] \in Registered
  /\ \A f \in DOMAIN Filler : \A kind \in Registered : kind # Filler[f] => f \notin FilledBy[kind]
<1>1. DOMAIN Filler \subseteq DOMAIN EmptySpec
  BY Zenon DEF Filler, EmptySpec
<1> QED BY <1>1 DEF Filler, Registered, FilledBy, LabelOf

\* A field after the merge of a patch.
LEMMA MergedWord ==
  ASSUME NEW buf, DOMAIN buf = DOMAIN EmptySpec, NEW patch, NEW f \in DOMAIN Filler
  PROVE  Merge(buf, patch)[f] = Word(patch[f], f, buf[f])
<1>1. f \in DOMAIN buf /\ f # "tiers"
  BY Fillers
<1> QED BY <1>1, Zenon DEF Merge, Word

\* A resource that is read adds its kind, wherever it is in the list.
LEMMA ReadOneMore ==
  ASSUME NEW buf, DOMAIN buf = DOMAIN EmptySpec, NEW initial, NEW kinds, NEW world,
         IsList(world["VPC"]), HasRead(buf, initial, kinds, world), NEW kind \in Registered
  PROVE  HasRead(Merge(buf, Handle(kind, world[kind])), initial, kinds \cup {kind}, world)
<1> DEFINE patch == Handle(kind, world[kind])
           merged == Merge(buf, patch)
           more == kinds \cup {kind}
<1>1. \A f \in DOMAIN Filler : HasWord(buf, initial, kinds, world, f)
  BY HasReadByField, Zenon
<1>2. ASSUME NEW f \in DOMAIN Filler
      PROVE  HasWord(merged, initial, more, world, f)
  <2> DEFINE k == Filler[f]
  <2>1. merged[f] = Word(patch[f], f, buf[f])
    BY MergedWord, Zenon
  <2>2. buf[f] = Word(Handle(k, ReadOf(k, kinds, world))[f], f, initial[f])
    BY <1>1, Zenon DEF HasWord
  <2>3. CASE kind # k
    <3>1. patch[f] = EmptySpec[f]
      BY <2>3, Fillers, HandledFields, Zenon
    <3>2. ReadOf(k, more, world) = ReadOf(k, kinds, world)
      BY <2>3, Zenon DEF ReadOf
    <3>3. merged[f] = buf[f]
      BY <2>1, <3>1, Zenon DEF Word
    <3> QED BY <2>2, <3>2, <3>3, Zenon DEF HasWord
  <2>4. CASE kind = k
    <3>1. ReadOf(k, more, world) = world[kind]
      BY <2>4, Zenon DEF ReadOf
    <3>2. ReadOf(k, kinds, world) = world[kind] \/ ReadOf(k, kinds, world) = <<>>
      BY <2>4, Zenon DEF ReadOf
    <3>3. Handle(kind, <<>>)[f] = EmptySpec[f]
      BY NothingHandled, Zenon
    <3> HIDE DEF patch, merged, k
    <3>4. buf[f] = Word(patch[f], f, initial[f]) \/ buf[f] = initial[f]
      <4>1. buf[f] = Word(Handle(kind, world[kind])[f], f, initial[f])
            \/ buf[f] = Word(EmptySpec[f], f, initial[f])
        BY <2>2, <2>4, <3>2, <3>3, Zenon
      <4>2. Word(EmptySpec[f], f, initial[f]) = initial[f]
        BY Zenon DEF Word
      <4> QED BY <4>1, <4>2, Zenon DEF patch
    <3>5. merged[f] = Word(patch[f], f, initial[f])
      <4>1. CASE patch[f] = EmptySpec[f]
        <5>1. Word(patch[f], f, initial[f]) = initial[f] /\ Word(patch[f], f, buf[f]) = buf[f]
          BY <4>1, Zenon DEF Word
        <5> QED BY <2>1, <3>4, <5>1, Zenon
      <4>2. CASE patch[f] # EmptySpec[f]
        <5>1. Word(patch[f], f, initial[f]) = patch[f] /\ Word(patch[f], f, buf[f]) = patch[f]
          BY <4>2, Zenon DEF Word
        <5> QED BY <2>1, <5>1, Zenon
      <4> QED BY <4>1, <4>2, Zenon
    <3> QED BY <2>4, <3>1, <3>5, Zenon DEF HasWord, patch, k
  <2> QED BY <2>3, <2>4, Zenon
<1> QED BY <1>2, HasReadByField, Zenon

\* A list that fails changes nothing of this.
LEMMA ReadNoMore ==
  ASSUME NEW buf, DOMAIN buf = DOMAIN EmptySpec, NEW initial, NEW kinds, NEW world,
         IsList(world["VPC"]), HasRead(buf, initial, kinds, world), NEW kind \in Registered
  PROVE  HasRead(Merge(buf, Handle(kind, <<>>)), initial, kinds, world)
<1> DEFINE merged == Merge(buf, Handle(kind, <<>>))
<1>1. \A f \in DOMAIN Filler : HasWord(buf, initial, kinds, world, f)
  BY HasReadByField, Zenon
<1>2. ASSUME NEW f \in DOMAIN Filler PROVE merged[f] = buf[f]
  <2>1. merged[f] = Word(Handle(kind, <<>>)[f], f, buf[f])
    BY MergedWord, Zenon
  <2> QED BY <2>1, NothingHandled, Zenon DEF Word
<1> HIDE DEF merged
<1>3. \A f \in DOMAIN Filler : HasWord(merged, initial, kinds, world, f)
  BY <1>1, <1>2, Zenon DEF HasWord
<1>4. HasRead(merged, initial, kinds, world)
  BY <1>3, HasReadByField, Zenon
<1> QED BY <1>4 DEF merged

\* Initial data has what nobody read.
LEMMA InitialRead ==
  ASSUME NEW initial, NEW world, IsList(world["VPC"])
  PROVE  HasRead(initial, initial, {}, world)
<1>1. ASSUME NEW f \in DOMAIN Filler PROVE HasWord(initial, initial, {}, world, f)
  <2>1. ReadOf(Filler[f], {}, world) = <<>>
    BY Zenon DEF ReadOf
  <2>2. Handle(Filler[f], <<>>)[f] = EmptySpec[f]
    BY Fillers, NothingHandled, Zenon
  <2> QED BY <2>1, <2>2, Zenon DEF HasWord, Word
<1> QED BY <1>1, HasReadByField, Zenon

-----------------------------------------------------------------------------
(* The order of patches.                                                   *)

\* What is there after each of the first l patches.
PatchRounds(g, spec, patches, l) ==
  g = [n \in 0 .. l |-> IF n = 0 THEN spec ELSE Merge(g[n - 1], patches[n])]

\* There is something after every patch.
LEMMA PatchesGoOn ==
  ASSUME NEW spec, NEW patches, NEW L \in Nat
  PROVE  \E g : PatchRounds(g, spec, patches, L)
<1> DEFINE Rounds(l) == \E g : PatchRounds(g, spec, patches, l)
           T == {l \in Nat : ~Rounds(l)}
<1>1. Rounds(0)
  <2> DEFINE g == [n \in 0 .. 0 |-> spec]
  <2>1. g = [n \in 0 .. 0 |-> IF n = 0 THEN spec ELSE Merge(g[n - 1], patches[n])]
    OBVIOUS
  <2> QED BY <2>1, Zenon DEF PatchRounds
<1>2. ASSUME NEW l \in Nat, Rounds(l)
      PROVE  Rounds(l + 1)
  <2>1. PICK h : h = [n \in 0 .. l |-> IF n = 0 THEN spec ELSE Merge(h[n - 1], patches[n])]
    BY <1>2, Zenon DEF PatchRounds
  <2> DEFINE g == [n \in 0 .. l + 1 |-> IF n = l + 1 THEN Merge(h[l], patches[n]) ELSE h[n]]
  <2>2. g[0] = spec
    BY <2>1
  <2>3. ASSUME NEW n \in 1 .. l + 1
        PROVE  g[n] = Merge(g[n - 1], patches[n])
    <3>1. g[n - 1] = h[n - 1] /\ n - 1 \in 0 .. l
      OBVIOUS
    <3>2. CASE n = l + 1
      BY <3>1, <3>2
    <3>3. CASE n # l + 1
      <4>1. n \in 0 .. l /\ n # 0 /\ g[n] = h[n]
        BY <3>3
      <4>2. h[n] = Merge(h[n - 1], patches[n])
        BY <2>1, <4>1
      <4> QED BY <3>1, <4>1, <4>2
    <3> QED BY <3>2, <3>3
  <2>4. g = [n \in 0 .. l + 1 |-> g[n]]
    OBVIOUS
  <2> HIDE DEF g
  <2>5. \A n \in 0 .. l + 1 : g[n] = IF n = 0 THEN spec ELSE Merge(g[n - 1], patches[n])
    BY <2>2, <2>3
  <2>6. g = [n \in 0 .. l + 1 |-> IF n = 0 THEN spec ELSE Merge(g[n - 1], patches[n])]
    BY <2>4, <2>5, Zenon
  <2> QED BY <2>6, Zenon DEF PatchRounds
<1> HIDE DEF Rounds
<1>3. T = {}
  <2> SUFFICES ASSUME T # {} PROVE FALSE
    OBVIOUS
  <2>1. PICK l \in T : \A m \in T : ~(m < l)
    <3>1. T \in SUBSET Nat
      OBVIOUS
    <3> HIDE DEF T
    <3> QED BY <3>1, LeastNumber, Zenon
  <2>2. l \in Nat /\ l # 0 /\ ~Rounds(l)
    BY <1>1, <2>1
  <2>3. l - 1 \in Nat /\ l - 1 \notin T /\ (l - 1) + 1 = l
    BY <2>1, <2>2
  <2> QED BY <1>2, <2>2, <2>3
<1>4. Rounds(L)
  BY <1>3
<1> QED BY <1>4 DEF Rounds

\* The first and the next of them.
LEMMA PatchRound ==
  ASSUME NEW spec, NEW patches, NEW L \in Nat, NEW g, PatchRounds(g, spec, patches, L)
  PROVE  /\ g[0] = spec
         /\ \A n \in 1 .. L : g[n] = Merge(g[n - 1], patches[n])
<1>1. g = [n \in 0 .. L |-> IF n = 0 THEN spec ELSE Merge(g[n - 1], patches[n])]
  BY Zenon DEF PatchRounds
<1>2. g[0] = spec
  BY <1>1
<1>3. ASSUME NEW n \in 1 .. L PROVE g[n] = Merge(g[n - 1], patches[n])
  <2>1. n \in 0 .. L /\ n # 0
    OBVIOUS
  <2> QED BY <1>1, <2>1
<1> QED BY <1>2, <1>3

\* What is there after the first patches does not depend on the later ones.
LEMMA SameRounds ==
  ASSUME NEW spec, NEW l \in Nat, NEW L \in Nat, l <= L,
         NEW patches, NEW others, \A n \in 1 .. l : patches[n] = others[n],
         NEW g, PatchRounds(g, spec, patches, l), NEW h, PatchRounds(h, spec, others, L)
  PROVE  g[l] = h[l]
<1> DEFINE T == {n \in 0 .. l : g[n] # h[n]}
<1>1. g[0] = spec /\ \A n \in 1 .. l : g[n] = Merge(g[n - 1], patches[n])
  BY PatchRound
<1>2. h[0] = spec /\ \A n \in 1 .. L : h[n] = Merge(h[n - 1], others[n])
  BY PatchRound
<1>3. T = {}
  <2> SUFFICES ASSUME T # {} PROVE FALSE
    OBVIOUS
  <2>1. PICK n \in T : \A m \in T : ~(m < n)
    <3>1. T \in SUBSET Nat
      OBVIOUS
    <3> HIDE DEF T
    <3> QED BY <3>1, LeastNumber, Zenon
  <2>2. n \in 0 .. l /\ g[n] # h[n]
    BY <2>1
  <2>3. n # 0
    BY <1>1, <1>2, <2>2, Zenon
  <2>4. n \in 1 .. l /\ n \in 1 .. L /\ n - 1 \in 0 .. l /\ n - 1 < n
    BY <2>2, <2>3
  <2>5. g[n - 1] = h[n - 1]
    BY <2>1, <2>4, Zenon
  <2> QED BY <1>1, <1>2, <2>2, <2>4, <2>5, Zenon
<1>4. l \in 0 .. l
  OBVIOUS
<1> QED BY <1>3, <1>4, Zenon

\* Patches that may come in any order.
Commuting(patches, L) ==
  /\ \A n \in 1 .. L : IsPatch(patches[n])
  /\ \A m, n \in 1 .. L : Compatible(patches[m], patches[n])

\* The buffer has tiers after each of them.
LEMMA RoundsHaveTiers ==
  ASSUME NEW spec, HasTierList(spec), NEW patches, NEW L \in Nat, Commuting(patches, L),
         NEW g, PatchRounds(g, spec, patches, L)
  PROVE  \A n \in 0 .. L : HasTierList(g[n])
<1> DEFINE T == {n \in 0 .. L : ~HasTierList(g[n])}
<1>1. g[0] = spec /\ \A n \in 1 .. L : g[n] = Merge(g[n - 1], patches[n])
  BY PatchRound
<1>2. T = {}
  <2> SUFFICES ASSUME T # {} PROVE FALSE
    OBVIOUS
  <2>1. PICK n \in T : \A m \in T : ~(m < n)
    <3>1. T \in SUBSET Nat
      OBVIOUS
    <3> HIDE DEF T
    <3> QED BY <3>1, LeastNumber, Zenon
  <2>2. n \in 0 .. L /\ ~HasTierList(g[n])
    BY <2>1
  <2>3. n # 0
    BY <1>1, <2>2, Zenon
  <2>4. n \in 1 .. L /\ n - 1 \in 0 .. L /\ n - 1 < n
    BY <2>2, <2>3
  <2>5. HasTierList(g[n - 1])
    BY <2>1, <2>4, Zenon
  <2>6. IsPatch(patches[n])
    BY <2>4, Zenon DEF Commuting
  <2>7. HasTierList(Merge(g[n - 1], patches[n]))
    BY <2>5, <2>6, MergeIntoList, Zenon
  <2> QED BY <1>1, <2>2, <2>4, <2>7, Zenon
<1> QED BY <1>2, Zenon

\* Any patch may come last.
LEMMA PatchComesLast ==
  ASSUME NEW spec, HasTierList(spec), NEW L \in Nat, NEW k \in 1 .. L,
         NEW patches, Commuting(patches, L), NEW g, PatchRounds(g, spec, patches, L),
         NEW others, \A n \in 1 .. L - 1 : others[n] = IF n < k THEN patches[n] ELSE patches[n + 1],
         Commuting(others, L - 1), NEW h, PatchRounds(h, spec, others, L - 1)
  PROVE  g[L] = Merge(h[L - 1], patches[k])
<1> DEFINE Moved(n) == /\ n < k => g[n] = h[n]
                       /\ n >= k => g[n] = Merge(h[n - 1], patches[k])
           T == {n \in 0 .. L : ~Moved(n)}
<1>1. L - 1 \in Nat
  OBVIOUS
<1>2. g[0] = spec /\ \A n \in 1 .. L : g[n] = Merge(g[n - 1], patches[n])
  BY PatchRound
<1>3. h[0] = spec /\ \A n \in 1 .. L - 1 : h[n] = Merge(h[n - 1], others[n])
  <2>1. \A M \in Nat : PatchRounds(h, spec, others, M)
                       => h[0] = spec /\ \A n \in 1 .. M : h[n] = Merge(h[n - 1], others[n])
    BY PatchRound
  <2> QED BY <1>1, <2>1, Zenon
<1>4. \A n \in 0 .. L - 1 : HasTierList(h[n])
  BY <1>1, RoundsHaveTiers, Zenon
<1>5. Moved(0)
  BY <1>2, <1>3
<1>6. ASSUME NEW n \in 1 .. L, Moved(n - 1) PROVE Moved(n)
  <2>1. g[n] = Merge(g[n - 1], patches[n])
    BY <1>2, Zenon
  <2>2. CASE n < k
    <3>1. n - 1 < k /\ n \in 1 .. L - 1 /\ ~(n >= k)
      BY <2>2
    <3>2. g[n - 1] = h[n - 1] /\ others[n] = patches[n] /\ h[n] = Merge(h[n - 1], others[n])
      BY <1>3, <1>6, <2>2, <3>1, Zenon
    <3> QED BY <2>1, <3>1, <3>2, Zenon
  <2>3. CASE n = k
    <3>1. n - 1 < k /\ ~(n < k)
      BY <2>3
    <3> QED BY <1>6, <2>1, <2>3, <3>1, Zenon
  <2>4. CASE n > k
    <3>1. /\ n - 1 >= k /\ ~(n < k) /\ n - 1 \in 1 .. L - 1 /\ (n - 1) - 1 \in 0 .. L - 1
          /\ ~(n - 1 < k) /\ (n - 1) + 1 = n
      BY <2>4
    <3> DEFINE b == h[(n - 1) - 1]
               x == patches[k]
               y == patches[n]
    <3>2. g[n - 1] = Merge(b, x)
      BY <1>6, <3>1, Zenon
    <3>3. others[n - 1] = y
      BY <3>1, Zenon
    <3>4. h[n - 1] = Merge(b, y)
      BY <1>3, <3>1, <3>3, Zenon
    <3>5. HasTierList(b) /\ IsPatch(x) /\ IsPatch(y) /\ Compatible(x, y)
      BY <1>4, <3>1, Zenon DEF Commuting
    <3>6. Merge(Merge(b, x), y) = Merge(Merge(b, y), x)
      <4> HIDE DEF b, x, y
      <4> QED BY <3>5, PatchesCommute, Zenon
    <3>7. g[n] = Merge(h[n - 1], patches[k])
      BY <2>1, <3>2, <3>4, <3>6, Zenon
    <3> QED BY <3>1, <3>7, Zenon
  <2> QED BY <2>2, <2>3, <2>4
<1>7. T = {}
  <2> SUFFICES ASSUME T # {} PROVE FALSE
    OBVIOUS
  <2> HIDE DEF Moved
  <2>1. PICK n \in T : \A m \in T : ~(m < n)
    <3>1. T \in SUBSET Nat
      OBVIOUS
    <3> HIDE DEF T
    <3> QED BY <3>1, LeastNumber, Zenon
  <2>2. n \in 0 .. L /\ ~Moved(n)
    BY <2>1
  <2>3. n # 0
    BY <1>5, <2>2
  <2>4. n \in 1 .. L /\ n - 1 \in 0 .. L /\ n - 1 < n
    BY <2>2, <2>3
  <2>5. Moved(n - 1)
    BY <2>1, <2>4, Zenon
  <2> QED BY <1>6, <2>2, <2>4, <2>5, Zenon
<1>8. Moved(L)
  <2> HIDE DEF Moved
  <2>1. L \in 0 .. L
    OBVIOUS
  <2> QED BY <1>7, <2>1, Zenon
<1>9. L >= k
  OBVIOUS
<1> QED BY <1>8, <1>9, Zenon

\* The order of the patches makes no difference.
LEMMA OrderOfPatches ==
  ASSUME NEW L \in Nat
  PROVE  \A spec, patches, ordered, order, g, h :
           /\ HasTierList(spec)
           /\ Commuting(patches, L)
           /\ \A n \in 1 .. L : order[n] \in 1 .. L /\ ordered[n] = patches[order[n]]
           /\ \A m, n \in 1 .. L : order[m] = order[n] => m = n
           /\ PatchRounds(g, spec, patches, L)
           /\ PatchRounds(h, spec, ordered, L)
           => g[L] = h[L]
<1> DEFINE Ordered(l, spec, patches, ordered, order, g, h) ==
             /\ HasTierList(spec)
             /\ Commuting(patches, l)
             /\ \A n \in 1 .. l : order[n] \in 1 .. l /\ ordered[n] = patches[order[n]]
             /\ \A m, n \in 1 .. l : order[m] = order[n] => m = n
             /\ PatchRounds(g, spec, patches, l)
             /\ PatchRounds(h, spec, ordered, l)
           Same(l) == \A spec, patches, ordered, order, g, h :
                        Ordered(l, spec, patches, ordered, order, g, h) => g[l] = h[l]
           T == {l \in Nat : ~Same(l)}
<1>1. Same(0)
  <2> SUFFICES ASSUME NEW spec, NEW patches, NEW ordered, NEW order, NEW g, NEW h,
                      Ordered(0, spec, patches, ordered, order, g, h)
               PROVE  g[0] = h[0]
    BY Zenon
  <2>1. g[0] = spec
    BY PatchRound
  <2>2. h[0] = spec
    BY PatchRound
  <2> QED BY <2>1, <2>2
<1>2. ASSUME NEW l \in Nat, Same(l)
      PROVE  Same(l + 1)
  <2> SUFFICES ASSUME NEW spec, NEW patches, NEW ordered, NEW order, NEW g, NEW h,
                      Ordered(l + 1, spec, patches, ordered, order, g, h)
               PROVE  g[l + 1] = h[l + 1]
    BY Zenon
  <2> DEFINE M == l + 1
             k == order[M]
             others == [n \in 1 .. l |-> IF n < k THEN patches[n] ELSE patches[n + 1]]
             places == [n \in 1 .. l |-> IF order[n] < k THEN order[n] ELSE order[n] - 1]
  <2>1. M \in Nat /\ M \in 1 .. M /\ M - 1 = l
    OBVIOUS
  <2>2. k \in 1 .. M /\ ordered[M] = patches[k]
    BY <2>1, Zenon
  <2>3. \A n \in 1 .. l : n \in 1 .. M /\ n + 1 \in 1 .. M
    OBVIOUS
  <2>4. \A n \in 1 .. l : others[n] = patches[n] \/ others[n] = patches[n + 1]
    OBVIOUS
  <2>5. Commuting(others, l)
    <3>1. \A n \in 1 .. l : \E m \in 1 .. M : others[n] = patches[m]
      <4> HIDE DEF others, M
      <4> QED BY <2>3, <2>4, Zenon
    <3>2. Commuting(patches, M)
      OBVIOUS
    <3> HIDE DEF others, M
    <3>3. \A n \in 1 .. l : IsPatch(others[n])
      BY <3>1, <3>2, Zenon DEF Commuting
    <3>4. ASSUME NEW m \in 1 .. l, NEW n \in 1 .. l PROVE Compatible(others[m], others[n])
      <4>1. PICK i \in 1 .. M : others[m] = patches[i]
        BY <3>1, Zenon
      <4>2. PICK j \in 1 .. M : others[n] = patches[j]
        BY <3>1, Zenon
      <4>3. Compatible(patches[i], patches[j])
        BY <3>2, Zenon DEF Commuting
      <4> QED BY <4>1, <4>2, <4>3, Zenon
    <3> QED BY <3>3, <3>4, Zenon DEF Commuting
  <2>6. \A n \in 1 .. l : order[n] \in 1 .. M /\ order[n] # k /\ ordered[n] = patches[order[n]]
    <3>1. \A n \in 1 .. l : n # M
      OBVIOUS
    <3> QED BY <2>1, <2>3, <3>1, Zenon
  <2>7. ASSUME NEW n \in 1 .. l
        PROVE  places[n] \in 1 .. l /\ ordered[n] = others[places[n]]
    <3> DEFINE p == order[n]
    <3>1. p \in 1 .. M /\ p # k /\ ordered[n] = patches[p]
      BY <2>6, Zenon
    <3>2. places[n] = IF p < k THEN p ELSE p - 1
      OBVIOUS
    <3> HIDE DEF p, k, places
    <3>3. CASE p < k
      <4>1. places[n] = p
        BY <3>2, <3>3
      <4>2. p \in 1 .. l
        BY <2>2, <3>1, <3>3
      <4>3. others[p] = patches[p]
        BY <3>3, <4>2
      <4> QED BY <3>1, <4>1, <4>2, <4>3, Zenon
    <3>4. CASE ~(p < k)
      <4>1. places[n] = p - 1
        BY <3>2, <3>4
      <4>2. p - 1 \in 1 .. l /\ ~(p - 1 < k) /\ (p - 1) + 1 = p
        BY <2>2, <3>1, <3>4
      <4>3. others[p - 1] = patches[p]
        BY <4>2
      <4> QED BY <3>1, <4>1, <4>2, <4>3, Zenon
    <3> QED BY <3>3, <3>4
  <2>8. ASSUME NEW m \in 1 .. l, NEW n \in 1 .. l, places[m] = places[n]
        PROVE  m = n
    <3> DEFINE p == order[m]
               q == order[n]
    <3>1. p \in 1 .. M /\ p # k /\ q \in 1 .. M /\ q # k
      BY <2>6, Zenon
    <3>2. /\ places[m] = IF p < k THEN p ELSE p - 1
          /\ places[n] = IF q < k THEN q ELSE q - 1
      OBVIOUS
    <3>3. p = q
      <4>1. (IF p < k THEN p ELSE p - 1) = IF q < k THEN q ELSE q - 1
        BY <2>8, <3>2, Zenon
      <4>2. p \in Int /\ q \in Int /\ k \in Int
        BY <2>2, <3>1
      <4> HIDE DEF p, q, k
      <4> QED BY <3>1, <4>1, <4>2
    <3> QED BY <2>3, <3>3, Zenon
  <2>9. PICK f : PatchRounds(f, spec, others, l)
    <3> HIDE DEF others
    <3> QED BY PatchesGoOn, Zenon
  <2>10. PatchRounds(h, spec, ordered, M) /\ PatchRounds(g, spec, patches, M)
    OBVIOUS
  <2>11. h[M] = Merge(h[M - 1], ordered[M])
    <3>1. \A N \in Nat : PatchRounds(h, spec, ordered, N)
                         => \A n \in 1 .. N : h[n] = Merge(h[n - 1], ordered[n])
      BY PatchRound
    <3> HIDE DEF M
    <3> QED BY <2>1, <2>10, <3>1, Zenon
  <2>12. PICK e : PatchRounds(e, spec, ordered, l)
    BY PatchesGoOn, Zenon
  <2>13. e[l] = h[l]
    <3> HIDE DEF M
    <3> QED BY <2>1, <2>10, <2>12, SameRounds
  <2>14. f[l] = e[l]
    <3>1. Ordered(l, spec, others, ordered, places, f, e)
      <4> HIDE DEF others, places
      <4> QED BY <2>5, <2>7, <2>8, <2>9, <2>12, Zenon
    <3>2. Same(l)
      BY <1>2, Zenon
    <3> HIDE DEF others, places, Ordered
    <3> QED BY <3>1, <3>2
  <2>15. g[M] = Merge(f[M - 1], patches[k])
    <3>1. \A n \in 1 .. M - 1 : others[n] = IF n < k THEN patches[n] ELSE patches[n + 1]
      OBVIOUS
    <3>2. HasTierList(spec) /\ Commuting(patches, M)
      OBVIOUS
    <3> HIDE DEF M, k, others
    <3>3. Commuting(others, M - 1) /\ PatchRounds(f, spec, others, M - 1)
      BY <2>1, <2>5, <2>9, Zenon
    <3> QED BY <2>1, <2>2, <2>10, <3>1, <3>2, <3>3, PatchComesLast, SMTT(20)
  <2> HIDE DEF M, k
  <2>16. g[M] = h[M]
    BY <2>1, <2>2, <2>11, <2>13, <2>14, <2>15, Zenon
  <2> QED BY <2>16 DEF M
<1> HIDE DEF Same
<1>3. T = {}
  <2> SUFFICES ASSUME T # {} PROVE FALSE
    OBVIOUS
  <2>1. PICK l \in T : \A m \in T : ~(m < l)
    <3>1. T \in SUBSET Nat
      OBVIOUS
    <3> HIDE DEF T
    <3> QED BY <3>1, LeastNumber, Zenon
  <2>2. l \in Nat /\ l # 0 /\ ~Same(l)
    BY <1>1, <2>1
  <2>3. l - 1 \in Nat /\ l - 1 \notin T /\ (l - 1) + 1 = l
    BY <2>1, <2>2
  <2> QED BY <1>2, <2>2, <2>3
<1>4. Same(L)
  BY <1>3, Zenon
<1> QED BY <1>4, Zenon DEF Same

=============================================================================
