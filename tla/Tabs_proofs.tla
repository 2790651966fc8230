----------------------------- MODULE Tabs_proofs -----------------------------
(***************************************************************************)
(* For any goods, sales and kinds, any lists of the server, any number of  *)
(* requests under way and any losses: the home tab's rows are cut right    *)
(* from the goods that are there, no tab waits without a reason, and the   *)
(* tab of kinds settles on the highlighted kind, which is the one pressed. *)
(*                                                                         *)
(* What the two rows are is proved of the operators that cut them, by      *)
(* induction over the length of the list.                                  *)
(***************************************************************************)
EXTENDS Tabs, SequencesExt, FiniteSetTheorems, SequenceTheorems, WellFoundedInduction, TLAPS
------------------------------------------------------------------------------
(* Numbers and sequences *)

\* Induction over the naturals, for a set of them.
LEMMA Induction ==
    ASSUME NEW T, 0 \in T, \A n \in Nat : n \in T => n + 1 \in T
    PROVE  Nat \subseteq T
  <1> SUFFICES ASSUME Nat \ T # {} PROVE FALSE
    OBVIOUS
  <1>1. PICK n \in Nat \ T : \A m \in Nat \ T : <<m, n>> \notin OpToRel(<, Nat)
    <2>1. Nat \ T \subseteq Nat
      OBVIOUS
    <2> QED BY <2>1, NatLessThanWellFounded, WFMin
  <1>2. n # 0 /\ n - 1 \in Nat /\ n - 1 < n /\ (n - 1) + 1 = n
    OBVIOUS
  <1>3. <<n - 1, n>> \in OpToRel(<, Nat)
    BY <1>2 DEF OpToRel
  <1> QED BY <1>1, <1>2, <1>3

\* A set of naturals that has an element has a least one.
LEMMA LeastIsThere ==
    ASSUME NEW S \in SUBSET Nat, S # {}
    PROVE  Min(S) \in S /\ \A i \in S : Min(S) <= i
  <1>1. PICK n \in S : \A m \in S : <<m, n>> \notin OpToRel(<, Nat)
    BY NatLessThanWellFounded, WFMin
  <1>2. ASSUME NEW m \in S
        PROVE  n <= m
    <2>1. ~ (m < n)
      BY <1>1 DEF OpToRel
    <2> QED BY <2>1
  <1> QED BY <1>1, <1>2 DEF Min

\* A sequence without its element at i.
LEMMA RemoveAtElements ==
    ASSUME NEW S, NEW s \in Seq(S), NEW i \in 1..Len(s)
    PROVE  /\ RemoveAt(s, i) \in Seq(S)
           /\ Len(s) \in Nat
           /\ Len(RemoveAt(s, i)) = Len(s) - 1
           /\ \A j \in 1..(Len(s) - 1) : RemoveAt(s, i)[j] = s[IF j < i THEN j ELSE j + 1]
  <1> DEFINE a == SubSeq(s, 1, i - 1)
             b == SubSeq(s, i + 1, Len(s))
  <1>1. /\ a \in Seq(S) /\ Len(a) = i - 1 /\ \A j \in 1..(i - 1) : a[j] = s[j]
        /\ b \in Seq(S) /\ Len(b) = Len(s) - i /\ \A j \in 1..(Len(s) - i) : b[j] = s[i + j]
    BY SubSeqProperties
  <1>2. RemoveAt(s, i) = a \o b
    BY DEF RemoveAt
  <1> HIDE DEF a, b
  <1>3. /\ a \o b \in Seq(S)
        /\ Len(a \o b) = Len(a) + Len(b)
        /\ \A j \in 1..(Len(a) + Len(b)) : (a \o b)[j] = IF j <= Len(a) THEN a[j] ELSE b[j - Len(a)]
    BY <1>1, ConcatProperties
  <1>4. ASSUME NEW j \in 1..(Len(s) - 1)
        PROVE  (a \o b)[j] = s[IF j < i THEN j ELSE j + 1]
    <2>1. CASE j < i
      BY <1>1, <1>3, <2>1
    <2>2. CASE j >= i
      <3>1. j - (i - 1) \in 1..(Len(s) - i) /\ i + (j - (i - 1)) = j + 1 /\ ~ (j <= i - 1)
            /\ j \in 1..((i - 1) + (Len(s) - i)) /\ ~ (j < i)
        BY <2>2
      <3>2. (a \o b)[j] = b[j - (i - 1)]
        BY <1>1, <1>3, <3>1
      <3> QED BY <1>1, <3>1, <3>2
    <2>3. j < i \/ j >= i
      OBVIOUS
    <2> QED BY <2>1, <2>2, <2>3
  <1> QED BY <1>1, <1>2, <1>3, <1>4

\* A sequence that has something, without its first element.
LEMMA WithoutFirst ==
    ASSUME NEW S, NEW s \in Seq(S), s # <<>>, NEW t, t = Tail(s)
    PROVE  /\ Head(s) = s[1] /\ s[1] \in S
           /\ t \in Seq(S)
           /\ t = <<>> => s[Len(s)] = Head(s)
           /\ t # <<>> => t[Len(t)] = s[Len(s)]
  <1>1. /\ Len(s) \in Nat \ {0} /\ Len(t) = Len(s) - 1
        /\ t \in Seq(S) /\ \A i \in 1..Len(t) : t[i] = s[i + 1]
    OBVIOUS
  <1>2. Head(s) = s[1] /\ s[1] \in S
    BY <1>1
  <1>0. Len(<<>>) = 0
    BY EmptySeq
  <1>3. t = <<>> => Len(t) = 0 /\ Len(s) = 1
    <2> SUFFICES ASSUME t = <<>> PROVE Len(t) = 0 /\ Len(s) = 1
      OBVIOUS
    <2>1. Len(t) = 0
      BY <1>0
    <2> QED BY <1>1, <2>1
  <1>4. t # <<>> => Len(t) \in 1..Len(t) /\ Len(t) + 1 = Len(s)
    BY <1>1
  <1> QED BY <1>1, <1>2, <1>3, <1>4

\* A sequence with one more element.
LEMMA WithOneMore ==
    ASSUME NEW S, NEW s \in Seq(S), NEW e \in S, NEW t, t = Append(s, e) \/ t = s \o <<e>>
    PROVE  /\ t \in Seq(S)
           /\ t # <<>>
           /\ t[Len(t)] = e
  <1>1. CASE t = Append(s, e)
    BY <1>1
  <1>2. CASE t = s \o <<e>>
    <2>1. <<e>> \in Seq(S) /\ Len(<<e>>) = 1 /\ <<e>>[1] = e
      OBVIOUS
    <2>2. /\ t \in Seq(S)
          /\ Len(t) = Len(s) + 1
          /\ \A i \in 1..(Len(s) + 1) : t[i] = IF i <= Len(s) THEN s[i] ELSE <<e>>[i - Len(s)]
      BY <1>2, <2>1, ConcatProperties
    <2>3. /\ Len(s) \in Nat /\ Len(s) + 1 \in 1..(Len(s) + 1)
          /\ (Len(s) + 1) - Len(s) = 1 /\ ~ (Len(s) + 1 <= Len(s))
      OBVIOUS
    <2>4. t[Len(s) + 1] = e
      BY <2>1, <2>2, <2>3
    <2> QED BY <2>2, <2>3, <2>4
  <1> QED BY <1>1, <1>2

\* A sequence in which the element at i is another.
LEMMA WithAnother ==
    ASSUME NEW S, NEW s \in Seq(S), NEW i \in DOMAIN s, NEW e \in S, NEW t, t = [s EXCEPT ![i] = e]
    PROVE  /\ t \in Seq(S)
           /\ s # <<>> /\ t # <<>>
           /\ t[Len(t)] = IF i = Len(s) THEN e ELSE s[Len(s)]
  <1>1. Len(s) \in Nat \ {0} /\ DOMAIN s = 1..Len(s) /\ \A j \in 1..Len(s) : s[j] \in S
    OBVIOUS
  <1>2. t = [j \in 1..Len(s) |-> IF j = i THEN e ELSE s[j]]
    BY <1>1
  <1>3. t \in Seq(S) /\ Len(t) = Len(s)
    BY <1>1, <1>2
  <1>4. Len(s) \in 1..Len(s)
    BY <1>1
  <1>5. t[Len(s)] = IF Len(s) = i THEN e ELSE s[Len(s)]
    BY <1>2, <1>4
  <1>6. s # <<>> /\ t # <<>>
    BY <1>1, <1>3, EmptySeq
  <1> QED BY <1>3, <1>5, <1>6
------------------------------------------------------------------------------
(* The row of kinds *)

\* No element twice.
Distinct(list) == \A i, j \in 1..Len(list) : list[i] = list[j] => i = j

\* One step of _createGoodsKindList.
Step(seen, kind) == IF Contains(seen, kind) THEN seen ELSE Append(seen, kind)

\* The fold's function of the sets of indices, of which g is the smaller part.
Folded(g, list, D) ==
    [s \in SUBSET D |-> IF s = {} THEN <<>> ELSE Step(g[s \ {Max(s)}], MainKind[list[Max(s)]])]

\* The row of kinds is the value of that function for all indices.
LEMMA KindsOfFolds ==
    ASSUME NEW list, NEW f, f = CHOOSE g : g = Folded(g, list, DOMAIN list)
    PROVE  Home!KindsOf(list) = f[DOMAIN list]
  BY DEF Home!KindsOf, Home!FoldLeft, Home!MapThenFoldSet, Folded, Step, Max, Home!Max, Contains,
         Home!Contains

LEMMA OutsidePrefix ==
    ASSUME NEW n \in Nat, NEW s \in SUBSET (1..(n + 1)), n + 1 \notin s
    PROVE  s \in SUBSET (1..n)
  <1>1. \A i \in s : i \in 1..(n + 1) /\ i # n + 1
    OBVIOUS
  <1>2. \A i \in 1..(n + 1) : i # n + 1 => i \in 1..n
    OBVIOUS
  <1> QED BY <1>1, <1>2

LEMMA LargestOfPrefix ==
    ASSUME NEW n \in Nat, NEW s \in SUBSET (1..(n + 1)), n + 1 \in s
    PROVE  Max(s) = n + 1 /\ s \ {n + 1} \in SUBSET (1..n)
  <1>1. \A i \in s : i \in 1..n \/ i = n + 1
    OBVIOUS
  <1>2. \A i \in s : i \in Nat /\ n + 1 >= i
    BY <1>1
  <1>3. Max(s) \in s /\ Max(s) >= n + 1
    BY <1>2 DEF Max
  <1>4. ASSUME NEW m \in s, m >= n + 1
        PROVE  m = n + 1
    BY <1>2, <1>4
  <1>5. s \ {n + 1} \in SUBSET (1..(n + 1)) /\ n + 1 \notin s \ {n + 1}
    OBVIOUS
  <1> QED BY <1>3, <1>4, <1>5, OutsidePrefix

\* There is such a function for every length: one for n + 1 extends one for n.
LEMMA FoldExists ==
    ASSUME NEW list
    PROVE  \A n \in Nat : \E g : g = Folded(g, list, 1..n)
  <1> DEFINE T == {n \in Nat : \E g : g = Folded(g, list, 1..n)}
  <1>1. 0 \in T
    <2>1. 1..0 = {} /\ SUBSET {} = {{}}
      OBVIOUS
    <2> DEFINE g == [s \in SUBSET {} |-> <<>>]
    <2>2. g = Folded(g, list, 1..0)
      BY <2>1 DEF Folded
    <2> QED BY <2>2
  <1>2. ASSUME NEW n \in Nat, n \in T
        PROVE  n + 1 \in T
    <2>1. PICK g : g = Folded(g, list, 1..n)
      BY <1>2
    <2> DEFINE h == [s \in SUBSET (1..(n + 1)) |->
                       IF n + 1 \in s THEN Step(g[s \ {n + 1}], MainKind[list[n + 1]]) ELSE g[s]]
    <2>2. ASSUME NEW s \in SUBSET (1..(n + 1))
          PROVE  h[s] = IF s = {} THEN <<>> ELSE Step(h[s \ {Max(s)}], MainKind[list[Max(s)]])
      <3>1. CASE n + 1 \in s
        <4>1. Max(s) = n + 1 /\ s \ {n + 1} \in SUBSET (1..n)
          BY <3>1, LargestOfPrefix
        <4>2. h[s \ {n + 1}] = g[s \ {n + 1}] /\ s # {}
          BY <3>1, <4>1
        <4> QED BY <3>1, <4>1, <4>2
      <3>2. CASE n + 1 \notin s
        <4>0. s \in SUBSET (1..n)
          BY <3>2, OutsidePrefix
        <4>1. /\ s \in SUBSET (1..n)
              /\ s \ {Max(s)} \in SUBSET (1..(n + 1)) /\ n + 1 \notin s \ {Max(s)}
          BY <3>2, <4>0
        <4>2. g[s] = IF s = {} THEN <<>> ELSE Step(g[s \ {Max(s)}], MainKind[list[Max(s)]])
          BY <2>1, <4>1 DEF Folded
        <4>3. h[s] = g[s] /\ h[s \ {Max(s)}] = g[s \ {Max(s)}]
          BY <3>2, <4>1
        <4> HIDE DEF h
        <4> QED BY <4>2, <4>3
      <3> QED BY <3>1, <3>2
    <2>3. h = Folded(h, list, 1..(n + 1))
      <3>1. DOMAIN h = SUBSET (1..(n + 1)) /\ h = [s \in DOMAIN h |-> h[s]]
        OBVIOUS
      <3> HIDE DEF h
      <3> QED BY <2>2, <3>1 DEF Folded
    <2> QED BY <2>3
  <1> HIDE DEF T
  <1>3. Nat \subseteq T
    BY <1>1, <1>2, Induction
  <1> QED BY <1>3 DEF T

\* What is seen is a row of the kinds of the goods at s, each once.
RowOf(seen, list, s) == /\ seen \in Seq(Home!KindNames)
                        /\ Distinct(seen)
                        /\ ToSet(seen) = {MainKind[list[i]] : i \in s}

\* One more good.
LEMMA StepKeepsRow ==
    ASSUME NEW seen \in Seq(Home!KindNames), Distinct(seen), NEW kind \in Home!KindNames
    PROVE  /\ Step(seen, kind) \in Seq(Home!KindNames)
           /\ Distinct(Step(seen, kind))
           /\ ToSet(Step(seen, kind)) = ToSet(seen) \cup {kind}
  <1>l. Len(seen) \in Nat /\ DOMAIN seen = 1..Len(seen)
    OBVIOUS
  <1>1. CASE Contains(seen, kind)
    <2>1. kind \in ToSet(seen)
      BY <1>l, <1>1 DEF Contains, ToSet
    <2> QED BY <1>1, <2>1 DEF Step
  <1>2. CASE ~ Contains(seen, kind)
    <2> DEFINE t == Append(seen, kind)
               n == Len(seen) + 1
    <2>1. /\ t \in Seq(Home!KindNames) /\ Len(t) = n /\ DOMAIN t = 1..n
          /\ \A i \in 1..Len(seen) : t[i] = seen[i]
          /\ t[n] = kind
      OBVIOUS
    <2>2. \A i \in 1..n : i \in 1..Len(seen) \/ i = n
      BY <1>l
    <2>3. n \in 1..n /\ \A i \in 1..Len(seen) : i \in 1..n
      BY <1>l
    <2> HIDE DEF t, n
    <2>4. \A i \in 1..Len(seen) : seen[i] # kind
      BY <1>2 DEF Contains
    <2>5. Distinct(t)
      <3> SUFFICES ASSUME NEW i \in 1..n, NEW j \in 1..n, t[i] = t[j] PROVE i = j
        BY <2>1 DEF Distinct
      <3> QED BY <2>1, <2>2, <2>4 DEF Distinct
    <2>6. ToSet(t) = ToSet(seen) \cup {kind}
      <3>1. ASSUME NEW k \in ToSet(t)
            PROVE  k \in ToSet(seen) \cup {kind}
        BY <1>l, <2>1, <2>2 DEF ToSet
      <3>2. ASSUME NEW k \in ToSet(seen) \cup {kind}
            PROVE  k \in ToSet(t)
        BY <1>l, <2>1, <2>3 DEF ToSet
      <3> QED BY <3>1, <3>2
    <2>7. Step(seen, kind) = t
      BY <1>2 DEF Step, t
    <2> QED BY <2>1, <2>5, <2>6, <2>7
  <1> QED BY <1>1, <1>2

\* The row of a list of goods has their main kinds, each once.
LEMMA KindsOfEachOnce ==
    ASSUME NEW list \in Seq(Good)
    PROVE  RowOf(Home!KindsOf(list), list, DOMAIN list)
  <1> DEFINE f == CHOOSE g : g = Folded(g, list, DOMAIN list)
             T == {n \in Nat : n <= Len(list) => \A s \in SUBSET (1..n) : RowOf(f[s], list, s)}
  <1>l. Len(list) \in Nat /\ DOMAIN list = 1..Len(list) /\ \A i \in 1..Len(list) : list[i] \in Good
    OBVIOUS
  <1>f. f = Folded(f, list, 1..Len(list))
    <2>1. \E g : g = Folded(g, list, DOMAIN list)
      BY <1>l, FoldExists
    <2> QED BY <1>l, <2>1
  <1>k. Home!KindsOf(list) = f[1..Len(list)]
    BY <1>l, KindsOfFolds
  <1> HIDE DEF f
  <1>e. ASSUME NEW s \in SUBSET (1..Len(list))
        PROVE  f[s] = IF s = {} THEN <<>> ELSE Step(f[s \ {Max(s)}], MainKind[list[Max(s)]])
    BY <1>f DEF Folded
  <1>1. 0 \in T
    <2>1. \A s \in SUBSET (1..0) : s = {} /\ s \in SUBSET (1..Len(list))
      BY <1>l
    <2>2. RowOf(<<>>, list, {})
      BY EmptySeq DEF RowOf, Distinct, ToSet
    <2> QED BY <1>e, <2>1, <2>2
  <1>2. ASSUME NEW n \in Nat, n \in T
        PROVE  n + 1 \in T
    <2> SUFFICES ASSUME n + 1 <= Len(list), NEW s \in SUBSET (1..(n + 1))
                 PROVE  RowOf(f[s], list, s)
      OBVIOUS
    <2>1. n <= Len(list) /\ s \in SUBSET (1..Len(list)) /\ n + 1 \in 1..Len(list)
      BY <1>l
    <2>2. \A r \in SUBSET (1..n) : RowOf(f[r], list, r)
      BY <1>2, <2>1
    <2>3. CASE n + 1 \in s
      <3> DEFINE r == s \ {n + 1}
      <3>1. Max(s) = n + 1 /\ r \in SUBSET (1..n)
        BY <2>3, LargestOfPrefix
      <3>2. f[s] = Step(f[r], MainKind[list[n + 1]])
        BY <1>e, <2>1, <2>3, <3>1
      <3>3. MainKind[list[n + 1]] \in Home!KindNames
        BY <1>l, <2>1 DEF Home!KindNames
      <3>4. {MainKind[list[i]] : i \in s} = {MainKind[list[i]] : i \in r} \cup {MainKind[list[n + 1]]}
        BY <2>3
      <3>5. RowOf(f[r], list, r)
        BY <2>2, <3>1
      <3> HIDE DEF r
      <3> QED BY <3>2, <3>3, <3>4, <3>5, StepKeepsRow DEF RowOf
    <2>4. CASE n + 1 \notin s
      <3>1. s \in SUBSET (1..n)
        BY <2>4, OutsidePrefix
      <3> QED BY <2>2, <3>1
    <2> QED BY <2>3, <2>4
  <1> HIDE DEF T
  <1>3. Nat \subseteq T
    BY <1>1, <1>2, Induction
  <1>4. Len(list) \in T /\ 1..Len(list) \in SUBSET (1..Len(list)) /\ Len(list) <= Len(list)
    BY <1>l, <1>3
  <1> QED BY <1>k, <1>l, <1>4 DEF T
------------------------------------------------------------------------------
(* The row of hot goods *)

\* In a list that has goods, some good sells best.
LEMMA BestIsThere ==
    ASSUME NEW list \in Seq(Good), list # <<>>
    PROVE  \E i \in 1..Len(list) : \A j \in 1..Len(list) : Sales[list[i]] >= Sales[list[j]]
  <1> DEFINE T == {n \in Nat : n + 1 <= Len(list) =>
                       \E i \in 1..(n + 1) : \A j \in 1..(n + 1) : Sales[list[i]] >= Sales[list[j]]}
  <1>l. Len(list) \in Nat \ {0} /\ \A i \in 1..Len(list) : Sales[list[i]] \in Nat
    BY TabsAssumption
  <1>1. 0 \in T
    <2>1. \A i \in 1..(0 + 1) : i = 1
      OBVIOUS
    <2>2. 1 \in 1..(0 + 1) /\ Sales[list[1]] >= Sales[list[1]]
      BY <1>l
    <2> QED BY <2>1, <2>2
  <1>2. ASSUME NEW n \in Nat, n \in T
        PROVE  n + 1 \in T
    <2> SUFFICES ASSUME (n + 1) + 1 <= Len(list)
                 PROVE  \E i \in 1..((n + 1) + 1) :
                           \A j \in 1..((n + 1) + 1) : Sales[list[i]] >= Sales[list[j]]
      OBVIOUS
    <2> DEFINE m == n + 2
    <2>1. PICK i \in 1..(n + 1) : \A j \in 1..(n + 1) : Sales[list[i]] >= Sales[list[j]]
      BY <1>2, <1>l
    <2>2. (n + 1) + 1 = m /\ i \in 1..m /\ m \in 1..m /\ 1..m \subseteq 1..Len(list)
          /\ \A j \in 1..m : j \in 1..(n + 1) \/ j = m
      BY <1>l
    <2> HIDE DEF m
    <2>3. \A j \in 1..m : Sales[list[j]] \in Nat
      BY <1>l, <2>2
    <2>4. CASE Sales[list[i]] >= Sales[list[m]]
      <3>1. \A j \in 1..m : Sales[list[i]] >= Sales[list[j]]
        BY <2>1, <2>2, <2>4
      <3> QED BY <2>2, <3>1
    <2>5. CASE ~ (Sales[list[i]] >= Sales[list[m]])
      <3>1. \A j \in 1..m : Sales[list[m]] >= Sales[list[j]]
        BY <2>1, <2>2, <2>3, <2>5
      <3> QED BY <2>2, <3>1
    <2> QED BY <2>4, <2>5
  <1> HIDE DEF T
  <1>3. Len(list) - 1 \in Nat /\ (Len(list) - 1) + 1 = Len(list) /\ Len(list) - 1 \in T
    <2>1. Len(list) - 1 \in Nat /\ (Len(list) - 1) + 1 = Len(list)
      BY <1>l
    <2> QED BY <1>1, <1>2, <2>1, Induction
  <1> QED BY <1>l, <1>3 DEF T

\* The best of a list, and what is left of it.
LEMMA BestOfList ==
    ASSUME NEW list \in Seq(Good), list # <<>>, Distinct(list)
    PROVE  \E g \in Good, rest \in Seq(Good) :
              /\ Home!BestOf(list) = <<g, rest>>
              /\ Len(rest) = Len(list) - 1
              /\ Distinct(rest)
              /\ ToSet(rest) = ToSet(list) \ {g}
              /\ g \in ToSet(list)
              /\ \A h \in ToSet(list) : Sales[h] <= Sales[g]
  <1> DEFINE best == {i \in DOMAIN list : \A j \in DOMAIN list : Sales[list[i]] >= Sales[list[j]]}
             b == Min(best)
             rest == RemoveAt(list, b)
  <1>l. Len(list) \in Nat \ {0} /\ DOMAIN list = 1..Len(list)
        /\ \A i \in 1..Len(list) : list[i] \in Good /\ Sales[list[i]] \in Nat
    BY TabsAssumption
  <1>1. Home!BestOf(list) = <<list[b], rest>>
    BY DEF Home!BestOf, Home!Min, Min, RemoveAt, Home!RemoveAt
  <1>2. b \in 1..Len(list) /\ \A j \in 1..Len(list) : Sales[list[b]] >= Sales[list[j]]
    <2>1. best \in SUBSET Nat /\ best # {}
      <3>1. PICK i \in 1..Len(list) : \A j \in 1..Len(list) : Sales[list[i]] >= Sales[list[j]]
        BY BestIsThere
      <3>2. i \in best
        BY <1>l, <3>1
      <3>3. best \subseteq 1..Len(list)
        BY <1>l
      <3> HIDE DEF best
      <3> QED BY <1>l, <3>2, <3>3
    <2>2. b \in best
      BY <2>1, LeastIsThere
    <2> HIDE DEF b
    <2> QED BY <1>l, <2>2
  <1> HIDE DEF b, best
  <1>3. /\ rest \in Seq(Good)
        /\ Len(rest) = Len(list) - 1
        /\ \A j \in 1..(Len(list) - 1) : rest[j] = list[IF j < b THEN j ELSE j + 1]
    BY <1>2, RemoveAtElements
  <1> HIDE DEF rest
  <1>4. ASSUME NEW m \in 1..Len(list), m # b
        PROVE  \E j \in 1..Len(rest) : rest[j] = list[m]
    <2>1. \/ m \in 1..Len(rest) /\ rest[m] = list[m]
          \/ m - 1 \in 1..Len(rest) /\ rest[m - 1] = list[m]
      BY <1>l, <1>2, <1>3, <1>4
    <2> QED BY <2>1
  <1>5. \A j \in 1..Len(rest) : \E m \in 1..Len(list) : m # b /\ rest[j] = list[m]
    <2> SUFFICES ASSUME NEW j \in 1..Len(rest)
                 PROVE  \E m \in 1..Len(list) : m # b /\ rest[j] = list[m]
      OBVIOUS
    <2> DEFINE m == IF j < b THEN j ELSE j + 1
    <2>1. m \in 1..Len(list) /\ m # b /\ rest[j] = list[m]
      BY <1>l, <1>2, <1>3
    <2> QED BY <2>1
  <1>6. Distinct(rest)
    <2> SUFFICES ASSUME NEW i \in 1..Len(rest), NEW j \in 1..Len(rest), rest[i] = rest[j]
                 PROVE  i = j
      BY DEF Distinct
    <2> DEFINE at(k) == IF k < b THEN k ELSE k + 1
    <2>1. /\ rest[i] = list[at(i)] /\ at(i) \in 1..Len(list)
          /\ rest[j] = list[at(j)] /\ at(j) \in 1..Len(list)
      BY <1>l, <1>2, <1>3
    <2>2. at(i) = at(j)
      <3> HIDE DEF at
      <3> QED BY <2>1 DEF Distinct
    <2> QED BY <1>l, <1>2, <1>3, <2>2
  <1>7. ToSet(rest) = ToSet(list) \ {list[b]}
    <2>d. DOMAIN rest = 1..Len(rest)
      BY <1>3
    <2>1. ASSUME NEW g \in ToSet(rest)
          PROVE  g \in ToSet(list) \ {list[b]}
      <3>1. PICK j \in 1..Len(rest) : g = rest[j]
        BY <2>d DEF ToSet
      <3>2. PICK m \in 1..Len(list) : m # b /\ g = list[m]
        BY <1>5, <3>1
      <3> QED BY <1>l, <1>2, <3>2 DEF ToSet, Distinct
    <2>2. ASSUME NEW g \in ToSet(list) \ {list[b]}
          PROVE  g \in ToSet(rest)
      <3>1. PICK m \in 1..Len(list) : g = list[m]
        BY <1>l DEF ToSet
      <3>2. PICK j \in 1..Len(rest) : rest[j] = list[m]
        BY <1>4, <3>1
      <3> QED BY <2>d, <3>1, <3>2 DEF ToSet
    <2> QED BY <2>1, <2>2
  <1>8. list[b] \in ToSet(list) /\ list[b] \in Good
    BY <1>l, <1>2 DEF ToSet
  <1>9. \A h \in ToSet(list) : Sales[h] <= Sales[list[b]]
    <2> SUFFICES ASSUME NEW h \in ToSet(list) PROVE Sales[h] <= Sales[list[b]]
      OBVIOUS
    <2>1. PICK j \in 1..Len(list) : h = list[j]
      BY <1>l DEF ToSet
    <2> QED BY <1>l, <1>2, <2>1
  <1> QED BY <1>1, <1>3, <1>6, <1>7, <1>8, <1>9

\* Nothing is the best of an empty list.
LEMMA BestOfNothing ==
    Home!BestOf(<<>>) = <<None, <<>>>>
  BY DEF Home!BestOf

\* One step of _createHotGoodsList: p has the goods found, and the others.
After(p) == <<Append(p[1], Home!BestOf(p[2])[1]), Home!BestOf(p[2])[2]>>

\* The function that is cut from the list, of which f is the smaller part.
Cut(f, list) == [n \in 0..4 |-> IF n = 0 THEN <<<<>>, list>> ELSE After(f[n - 1])]

\* The row of hot goods is the first part of its last value.
LEMMA HotGoodsOfCuts ==
    ASSUME NEW list, NEW f, f = CHOOSE g : g = Cut(g, list)
    PROVE  Home!HotGoodsOf(list) = f[4][1]
  BY DEF Home!HotGoodsOf, Cut, After

\* Four steps give the row.
LEMMA HotGoodsOfSteps ==
    ASSUME NEW list
    PROVE  Home!HotGoodsOf(list) = After(After(After(After(<<<<>>, list>>))))[1]
  <1> DEFINE p0 == <<<<>>, list>>
             p1 == After(p0)
             p2 == After(p1)
             p3 == After(p2)
             p4 == After(p3)
             w == [n \in 0..4 |-> IF n = 0 THEN p0 ELSE IF n = 1 THEN p1 ELSE IF n = 2 THEN p2
                                  ELSE IF n = 3 THEN p3 ELSE p4]
             f == CHOOSE g : g = Cut(g, list)
  <1>1. w = Cut(w, list)
    <2> DEFINE v == Cut(w, list)
    <2>1. /\ w[0] = p0 /\ w[1] = After(w[0]) /\ w[2] = After(w[1])
          /\ w[3] = After(w[2]) /\ w[4] = After(w[3])
      <3> HIDE DEF p0, p1, p2, p3, p4
      <3>1. w[0] = p0 /\ w[1] = p1 /\ w[2] = p2 /\ w[3] = p3 /\ w[4] = p4
        OBVIOUS
      <3> QED BY <3>1 DEF p1, p2, p3, p4
    <2>2. w = [n \in 0..4 |-> w[n]]
      <3> HIDE DEF p0, p1, p2, p3, p4
      <3> QED OBVIOUS
    <2>3. ASSUME NEW n \in 0..4
          PROVE  w[n] = IF n = 0 THEN p0 ELSE After(w[n - 1])
      <3> HIDE DEF w, p0
      <3>1. n = 0 \/ n = 1 \/ n = 2 \/ n = 3 \/ n = 4
        OBVIOUS
      <3> QED BY <2>1, <3>1
    <2> HIDE DEF w
    <2> QED BY <2>2, <2>3 DEF Cut
  <1>2. f = Cut(f, list)
    <2> HIDE DEF w
    <2> QED BY <1>1
  <1>3. Home!HotGoodsOf(list) = f[4][1]
    BY HotGoodsOfCuts
  <1> HIDE DEF f
  <1>4. \A n \in 0..4 : f[n] = IF n = 0 THEN p0 ELSE After(f[n - 1])
    BY <1>2 DEF Cut
  <1>5. /\ f[0] = p0 /\ f[1] = After(f[0]) /\ f[2] = After(f[1])
        /\ f[3] = After(f[2]) /\ f[4] = After(f[3])
    <2> HIDE DEF p0
    <2> QED BY <1>4
  <1> QED BY <1>3, <1>5

\* What is found, whatever the list.
CutTypes(p) == /\ p[1] \in Seq(Good \cup {None})
               /\ p[2] \in Seq(Good)
               /\ Distinct(p[2])

LEMMA AfterTypes ==
    ASSUME NEW p, CutTypes(p)
    PROVE  CutTypes(After(p))
  <1> DEFINE top == p[1]
             rest == p[2]
  <1>1. After(p) = <<Append(top, Home!BestOf(rest)[1]), Home!BestOf(rest)[2]>>
    BY DEF After
  <1>2. top \in Seq(Good \cup {None}) /\ rest \in Seq(Good) /\ Distinct(rest)
    BY DEF CutTypes
  <1> HIDE DEF top, rest
  <1>3. CASE rest = <<>>
    <2>1. After(p) = <<Append(top, None), <<>>>>
      BY <1>1, <1>3, BestOfNothing
    <2>2. Append(top, None) \in Seq(Good \cup {None})
      BY <1>2
    <2> QED BY <1>2, <1>3, <2>1, <2>2 DEF CutTypes
  <1>4. CASE rest # <<>>
    <2>1. PICK g \in Good, others \in Seq(Good) :
             Home!BestOf(rest) = <<g, others>> /\ Distinct(others)
      BY <1>2, <1>4, BestOfList
    <2>2. After(p) = <<Append(top, g), others>>
      BY <1>1, <2>1
    <2>3. Append(top, g) \in Seq(Good \cup {None})
      BY <1>2
    <2> QED BY <2>1, <2>2, <2>3 DEF CutTypes
  <1> QED BY <1>3, <1>4

\* The hot goods of a list are goods, or undefined.
LEMMA HotGoodsOfTypes ==
    ASSUME NEW list \in Seq(Good), Distinct(list)
    PROVE  Home!HotGoodsOf(list) \in Seq(Good \cup {None})
  <1>1. CutTypes(<<<<>>, list>>)
    BY EmptySeq DEF CutTypes
  <1>2. CutTypes(After(After(After(After(<<<<>>, list>>)))))
    BY <1>1, AfterTypes
  <1> QED BY <1>2, HotGoodsOfSteps DEF CutTypes

\* The n goods found are the best of the list, in the order of their sales.
BestFound(p, list, n) ==
    /\ p[1] \in Seq(Good) /\ p[2] \in Seq(Good)
    /\ Len(p[1]) = n /\ Len(p[2]) = Len(list) - n
    /\ Distinct(p[1]) /\ Distinct(p[2])
    /\ \A i \in 1..n : p[1][i] \notin ToSet(p[2])
    /\ \A i \in 1..n : p[1][i] \in ToSet(list)
    /\ \A g \in ToSet(list) : g \in ToSet(p[2]) \/ \E i \in 1..n : g = p[1][i]
    /\ ToSet(p[2]) \subseteq ToSet(list)
    /\ \A i, j \in 1..n : i <= j => Sales[p[1][i]] >= Sales[p[1][j]]
    /\ \A i \in 1..n, g \in ToSet(p[2]) : Sales[p[1][i]] >= Sales[g]

\* One more step finds one more.
LEMMA AfterFindsBest ==
    ASSUME NEW list \in Seq(Good), NEW n \in Nat, n < Len(list), NEW p, BestFound(p, list, n)
    PROVE  BestFound(After(p), list, n + 1)
  <1> DEFINE top == p[1]
             rest == p[2]
  <1>1. After(p) = <<Append(top, Home!BestOf(rest)[1]), Home!BestOf(rest)[2]>>
    BY DEF After
  <1>2. /\ top \in Seq(Good) /\ rest \in Seq(Good)
        /\ Len(top) = n /\ Len(rest) = Len(list) - n
        /\ Distinct(top) /\ Distinct(rest)
        /\ \A i \in 1..n : top[i] \notin ToSet(rest)
        /\ \A i \in 1..n : top[i] \in ToSet(list)
        /\ \A g \in ToSet(list) : g \in ToSet(rest) \/ \E i \in 1..n : g = top[i]
        /\ ToSet(rest) \subseteq ToSet(list)
        /\ \A i, j \in 1..n : i <= j => Sales[top[i]] >= Sales[top[j]]
        /\ \A i \in 1..n, g \in ToSet(rest) : Sales[top[i]] >= Sales[g]
    BY DEF BestFound
  <1> HIDE DEF top, rest
  <1>3. Len(list) \in Nat /\ rest # <<>>
    BY <1>2
  <1>4. PICK g \in Good, others \in Seq(Good) :
              /\ Home!BestOf(rest) = <<g, others>>
              /\ Len(others) = Len(rest) - 1
              /\ Distinct(others)
              /\ ToSet(others) = ToSet(rest) \ {g}
              /\ g \in ToSet(rest)
              /\ \A h \in ToSet(rest) : Sales[h] <= Sales[g]
    BY <1>2, <1>3, BestOfList
  <1> DEFINE found == Append(top, g)
  <1>5. After(p) = <<found, others>>
    BY <1>1, <1>4
  <1>6. /\ found \in Seq(Good)
        /\ Len(found) = n + 1
        /\ \A i \in 1..n : found[i] = top[i]
        /\ found[n + 1] = g
    BY <1>2
  <1> HIDE DEF found
  <1>7. \A i \in 1..(n + 1) : i \in 1..n \/ i = n + 1
    OBVIOUS
  <1>8. Distinct(found)
    <2> SUFFICES ASSUME NEW i \in 1..(n + 1), NEW j \in 1..(n + 1), found[i] = found[j]
                 PROVE  i = j
      BY <1>6 DEF Distinct
    <2>1. CASE i \in 1..n /\ j \in 1..n
      BY <1>2, <1>6, <2>1 DEF Distinct
    <2>2. CASE i = n + 1 /\ j = n + 1
      BY <2>2
    <2>3. CASE (i \in 1..n /\ j = n + 1) \/ (j \in 1..n /\ i = n + 1)
      BY <1>2, <1>4, <1>6, <2>3
    <2> QED BY <1>7, <2>1, <2>2, <2>3
  <1>9. \A i \in 1..(n + 1) : found[i] \notin ToSet(others) /\ found[i] \in ToSet(list)
    BY <1>2, <1>4, <1>6, <1>7
  <1>10. \A h \in ToSet(list) : h \in ToSet(others) \/ \E i \in 1..(n + 1) : h = found[i]
    <2> SUFFICES ASSUME NEW h \in ToSet(list), h \notin ToSet(others)
                 PROVE  \E i \in 1..(n + 1) : h = found[i]
      OBVIOUS
    <2>1. n + 1 \in 1..(n + 1) /\ \A i \in 1..n : i \in 1..(n + 1)
      OBVIOUS
    <2>2. h = g \/ \E i \in 1..n : h = top[i]
      BY <1>2, <1>4
    <2> QED BY <1>6, <2>1, <2>2
  <1>11. \A h \in ToSet(list) : Sales[h] \in Nat
    <2>1. ToSet(list) \subseteq Good
      BY DEF ToSet
    <2> QED BY <2>1, TabsAssumption
  <1>12. ASSUME NEW i \in 1..(n + 1), NEW j \in 1..(n + 1), i <= j
         PROVE  Sales[found[i]] >= Sales[found[j]]
    <2>1. CASE i \in 1..n /\ j \in 1..n
      BY <1>2, <1>6, <1>12, <2>1
    <2>2. CASE i = n + 1 /\ j = n + 1
      BY <1>9, <1>11, <2>2
    <2>3. CASE i \in 1..n /\ j = n + 1
      BY <1>2, <1>4, <1>6, <2>3
    <2>4. ~ (i = n + 1 /\ j \in 1..n)
      BY <1>12
    <2> QED BY <1>7, <2>1, <2>2, <2>3, <2>4
  <1>13. ASSUME NEW i \in 1..(n + 1), NEW h \in ToSet(others)
         PROVE  Sales[found[i]] >= Sales[h]
    <2>1. h \in ToSet(rest) /\ Sales[h] \in Nat /\ Sales[g] \in Nat
      BY <1>2, <1>4, <1>11
    <2>2. CASE i \in 1..n
      BY <1>2, <1>6, <2>1, <2>2
    <2>3. CASE i = n + 1
      BY <1>4, <1>6, <2>1, <2>3
    <2> QED BY <1>7, <2>2, <2>3
  <1>14. ToSet(others) \subseteq ToSet(list) /\ Len(others) = Len(list) - (n + 1)
    BY <1>2, <1>3, <1>4
  <1>15. After(p)[1] = found /\ After(p)[2] = others
    BY <1>5
  <1> QED BY <1>4, <1>6, <1>8, <1>9, <1>10, <1>12, <1>13, <1>14, <1>15 DEF BestFound

LEMMA OneMore ==
    ASSUME NEW S, NEW x, NEW T, NEW n \in Nat,
           T = S \cup {x}, x \notin S, IsFiniteSet(S), Cardinality(S) = n
    PROVE  IsFiniteSet(T) /\ Cardinality(T) = n + 1
  <1>1. /\ IsFiniteSet(S \cup {x})
        /\ Cardinality(S \cup {x}) = IF x \in S THEN Cardinality(S) ELSE Cardinality(S) + 1
    BY FS_AddElement, Zenon
  <1> QED BY <1>1

LEMMA FourDifferent ==
    ASSUME NEW a, NEW b, NEW c, NEW d, b \notin {a}, c \notin {a, b}, d \notin {a, b, c},
           NEW T, T = {a, b, c, d}
    PROVE  Cardinality(T) = 4
  <1> DEFINE A == {a}
             B == {a, b}
             C == {a, b, c}
  <1>1. B = A \cup {b} /\ C = B \cup {c} /\ T = C \cup {d}
    OBVIOUS
  <1>2. IsFiniteSet(A) /\ Cardinality(A) = 1
    BY FS_Singleton
  <1>3. b \notin A /\ c \notin B /\ d \notin C
    OBVIOUS
  <1> HIDE DEF A, B, C
  <1>4. IsFiniteSet(B) /\ Cardinality(B) = 2
    <2>1. IsFiniteSet(B) /\ Cardinality(B) = 1 + 1
      BY <1>1, <1>2, <1>3, OneMore
    <2> QED BY <2>1
  <1>5. IsFiniteSet(C) /\ Cardinality(C) = 3
    <2>1. IsFiniteSet(C) /\ Cardinality(C) = 2 + 1
      BY <1>1, <1>3, <1>4, OneMore
    <2> QED BY <2>1
  <1> QED
    <2>1. Cardinality(T) = 3 + 1
      BY <1>1, <1>3, <1>5, OneMore
    <2> QED BY <2>1

\* Four goods or more give the four that sell best (ShowPage.js:183-208).
LEMMA HotGoodsOfFindsBest ==
    ASSUME NEW list \in Seq(Good), Distinct(list), Len(list) >= 4
    PROVE  LET hot == Home!HotGoodsOf(list)
           IN  /\ Len(hot) = 4
               /\ Cardinality(ToSet(hot)) = 4
               /\ ToSet(hot) \subseteq ToSet(list)
               /\ \A i \in 1..3 : Sales[hot[i]] >= Sales[hot[i + 1]]
               /\ \A g \in ToSet(list) \ ToSet(hot) : Sales[g] <= Sales[hot[4]]
  <1> DEFINE p == After(After(After(After(<<<<>>, list>>))))
             hot == p[1]
  <1>l. Len(list) \in Nat
    OBVIOUS
  <1>0. BestFound(<<<<>>, list>>, list, 0)
    BY <1>l, EmptySeq DEF BestFound, Distinct
  <1>1. BestFound(p, list, 4)
    <2>1. BestFound(After(<<<<>>, list>>), list, 1)
      BY <1>0, <1>l, AfterFindsBest
    <2>2. BestFound(After(After(<<<<>>, list>>)), list, 2)
      BY <2>1, <1>l, AfterFindsBest
    <2>3. BestFound(After(After(After(<<<<>>, list>>))), list, 3)
      BY <2>2, <1>l, AfterFindsBest
    <2> QED BY <2>3, <1>l, AfterFindsBest
  <1>2. Home!HotGoodsOf(list) = hot
    BY HotGoodsOfSteps
  <1> HIDE DEF p
  <1>3. /\ hot \in Seq(Good)
        /\ Len(hot) = 4
        /\ Distinct(hot)
        /\ \A i \in 1..4 : hot[i] \in ToSet(list)
        /\ \A g \in ToSet(list) : g \in ToSet(p[2]) \/ \E i \in 1..4 : g = hot[i]
        /\ \A i, j \in 1..4 : i <= j => Sales[hot[i]] >= Sales[hot[j]]
        /\ \A i \in 1..4, g \in ToSet(p[2]) : Sales[hot[i]] >= Sales[g]
    BY <1>1 DEF BestFound
  <1>4. DOMAIN hot = 1..4 /\ ToSet(hot) = {hot[1], hot[2], hot[3], hot[4]}
    <2>1. DOMAIN hot = 1..4
      BY <1>3
    <2>2. \A i \in 1..4 : i = 1 \/ i = 2 \/ i = 3 \/ i = 4
      OBVIOUS
    <2>3. 1 \in 1..4 /\ 2 \in 1..4 /\ 3 \in 1..4 /\ 4 \in 1..4
      OBVIOUS
    <2> HIDE DEF hot
    <2>4. ASSUME NEW g
          PROVE  g \in ToSet(hot) <=> g \in {hot[1], hot[2], hot[3], hot[4]}
      BY <2>1, <2>2, <2>3 DEF ToSet
    <2> QED BY <2>1, <2>4
  <1> HIDE DEF hot
  <1>5. Cardinality(ToSet(hot)) = 4
    <2>1. /\ hot[2] \notin {hot[1]}
          /\ hot[3] \notin {hot[1], hot[2]}
          /\ hot[4] \notin {hot[1], hot[2], hot[3]}
      BY <1>3 DEF Distinct
    <2> DEFINE a == hot[1]
               b == hot[2]
               c == hot[3]
               d == hot[4]
               S == ToSet(hot)
    <2>2. b \notin {a} /\ c \notin {a, b} /\ d \notin {a, b, c} /\ S = {a, b, c, d}
      BY <1>4, <2>1
    <2> HIDE DEF a, b, c, d, S
    <2>3. Cardinality(S) = 4
      BY <2>2, FourDifferent
    <2> QED BY <2>3 DEF S
  <1>6. ToSet(hot) \subseteq ToSet(list)
    BY <1>3, <1>4
  <1>7. \A i \in 1..3 : Sales[hot[i]] >= Sales[hot[i + 1]]
    BY <1>3
  <1>8. \A g \in ToSet(list) \ ToSet(hot) : Sales[g] <= Sales[hot[4]]
    <2>1. ToSet(list) \subseteq Good
      BY DEF ToSet
    <2>2. \A g \in ToSet(list) : Sales[g] \in Nat
      BY <2>1, TabsAssumption
    <2> SUFFICES ASSUME NEW g \in ToSet(list), g \notin ToSet(hot)
                 PROVE  Sales[g] <= Sales[hot[4]]
      OBVIOUS
    <2>3. g \in ToSet(p[2])
      BY <1>3, <1>4 DEF ToSet
    <2>4. Sales[hot[4]] >= Sales[g] /\ hot[4] \in ToSet(list)
      BY <1>3, <2>3
    <2> QED BY <2>2, <2>4
  <1> QED BY <1>2, <1>3, <1>5, <1>6, <1>7, <1>8
------------------------------------------------------------------------------
(* The invariant *)

\* The rows of the home tab are cut from a list of the server.
KindsAreOfAList ==
    goodsKindList = <<>> \/ \E list \in Catalogue \ {<<>>} : goodsKindList = Home!KindsOf(list)

\* Rows that are rendered are cut from the goods that are there.
RowsFollow == homeLoaded /\ goodsList # <<>> => /\ goodsKindList = Home!KindsOf(goodsList)
                                              /\ hotGoodsList = Home!HotGoodsOf(goodsList)

HomeInv == Home!TypeOK /\ KindsAreOfAList /\ RowsFollow /\ Home!LoadingHasReason

\* The last request is one for all kinds, or one for the highlighted kind.
LastIsHighlighted ==
    kindsNet # <<>> => \/ kindsNet[Len(kindsNet)].op = "kinds"
                       \/ kindsNet[Len(kindsNet)].of = pressIndex

\* What is there when all is answered, on "loading" or not.
HighlightedIsThere ==
    tab = "kinds" /\ kindsNet = <<>> /\ ~ kindsFailed =>
        smallKinds = IF pressIndex \in Barren THEN Empty ELSE pressIndex

KindsInv == KindsTab!TypeOK /\ LastIsHighlighted /\ HighlightedIsThere /\ KindsTab!LoadingHasReason

\* The kind that was pressed is the highlighted one.
AskedIsHighlighted == ServersOrder /\ asked # NotSet => Kinds[pressIndex] = asked

IndInv == /\ tab \in {"home", "kinds", "other"}
          /\ asked \in Home!KindNames \cup {NotSet}
          /\ HomeInv
          /\ KindsInv
          /\ AskedIsHighlighted

\* What is known of the lists that the server may send.
LEMMA CatalogueLists ==
    ASSUME NEW list \in Catalogue
    PROVE  /\ list \in Seq(Good)
           /\ Distinct(list)
           /\ Home!KindsOf(list) \in Seq(Home!KindNames)
           /\ Home!HotGoodsOf(list) \in Seq(Good \cup {None})
  <1>1. list \in Seq(Good) /\ DOMAIN list = 1..Len(list)
    BY TabsAssumption
  <1>2. Distinct(list)
    BY <1>1, TabsAssumption DEF Distinct
  <1> QED BY <1>1, <1>2, KindsOfEachOnce, HotGoodsOfTypes DEF RowOf
------------------------------------------------------------------------------
(* The home tab *)

LEMMA InitHomeInv == Init => HomeInv
  <1> SUFFICES ASSUME Init PROVE HomeInv
    OBVIOUS
  <1>1. /\ tab = "other" /\ homeLoaded = FALSE /\ goodsList = <<>> /\ goodsKindList = <<>>
        /\ hotGoodsList = <<>> /\ refreshing = FALSE /\ homeNet = <<>> /\ broken = FALSE
    BY DEF Init, Home!Init
  <1>2. Home!TypeOK
    BY <1>1, EmptySeq DEF Home!TypeOK
  <1> QED BY <1>1, <1>2 DEF HomeInv, KindsAreOfAList, RowsFollow, Home!LoadingHasReason

\* The home tab is not touched, and not shown anew.
LEMMA HomeUntouched ==
    ASSUME HomeInv, UNCHANGED homeState, tab' = tab \/ tab' # "home"
    PROVE  HomeInv'
  BY DEF HomeInv, homeState, Home!TypeOK, KindsAreOfAList, RowsFollow, Home!LoadingHasReason

LEMMA FreshSends ==
    ASSUME HomeInv, Home!Fresh
    PROVE  /\ homeLoaded' = FALSE
           /\ homeNet' \in Seq(Catalogue \cup {NoAnswer, Failed})
           /\ homeNet' # <<>>
  BY WithOneMore DEF HomeInv, Home!TypeOK, Home!Fresh

LEMMA HomeComesAndGoes ==
    ASSUME HomeInv, Home!Focus \/ Home!Blur \/ Home!PullToRefresh \/ Home!RefreshTimer
    PROVE  HomeInv'
  <1> USE DEF HomeInv
  <1>1. CASE Home!Focus
    <2>1. Home!Fresh
      BY <1>1 DEF Home!Focus
    <2> QED BY <1>1, <2>1, FreshSends
            DEF Home!Focus, Home!rows, Home!TypeOK, KindsAreOfAList, RowsFollow,
                Home!LoadingHasReason
  <1>2. CASE Home!Blur
    BY <1>2 DEF Home!Blur, Home!rows, Home!TypeOK, KindsAreOfAList, RowsFollow,
                Home!LoadingHasReason
  <1>3. CASE Home!PullToRefresh
    BY <1>3 DEF Home!PullToRefresh, Home!rows, Home!TypeOK, KindsAreOfAList, RowsFollow,
                Home!LoadingHasReason
  <1>4. CASE Home!RefreshTimer
    <2>1. Home!Fresh
      BY <1>4 DEF Home!RefreshTimer
    <2> QED BY <1>4, <2>1, FreshSends
            DEF Home!RefreshTimer, Home!rows, Home!TypeOK, KindsAreOfAList, RowsFollow,
                Home!LoadingHasReason
  <1> QED BY <1>1, <1>2, <1>3, <1>4

\* The rows are cut from list, the goods that are there.
LEMMA CreateFollows ==
    ASSUME HomeInv, NEW list \in Catalogue, list # <<>>, Home!Create(list), goodsList' = list,
           homeNet' \in Seq(Catalogue \cup {NoAnswer, Failed}),
           (tab = "home")' = (tab = "home"), refreshing' = refreshing
    PROVE  HomeInv'
  <1>1. /\ goodsKindList' = Home!KindsOf(list)
        /\ hotGoodsList' = Home!HotGoodsOf(list)
        /\ homeLoaded' = TRUE
        /\ broken' \in BOOLEAN
    BY DEF Home!Create, Home!Contains
  <1>2. goodsKindList' \in Seq(Home!KindNames) /\ hotGoodsList' \in Seq(Good \cup {None})
    BY <1>1, CatalogueLists
  <1>3. Home!TypeOK'
    BY <1>1, <1>2 DEF HomeInv, Home!TypeOK, Home!KindNames
  <1> QED BY <1>1, <1>3 DEF HomeInv, KindsAreOfAList, RowsFollow, Home!LoadingHasReason

LEMMA HomeAnswers ==
    ASSUME HomeInv, Home!LoadAnswered \/ Home!LoadFailed
    PROVE  HomeInv'
  <1> USE DEF HomeInv
  <1>1. Tail(homeNet) \in Seq(Catalogue \cup {NoAnswer, Failed}) /\ homeNet' = Tail(homeNet)
    BY WithoutFirst DEF Home!LoadAnswered, Home!LoadFailed, Home!TypeOK
  <1>2. (tab = "home")' = (tab = "home") /\ refreshing' = refreshing
    BY DEF Home!LoadAnswered, Home!LoadFailed
  <1>3. CASE Home!LoadAnswered
    <2>1. Head(homeNet) \in Catalogue /\ goodsList' = Head(homeNet)
      BY <1>3 DEF Home!LoadAnswered
    <2>2. CASE Head(homeNet) = <<>>
      <3>1. UNCHANGED <<homeLoaded, goodsKindList, hotGoodsList, broken>>
        BY <1>3, <2>2 DEF Home!LoadAnswered, Home!rows
      <3> QED BY <1>1, <1>2, <2>1, <2>2, <3>1
              DEF Home!TypeOK, KindsAreOfAList, RowsFollow, Home!LoadingHasReason
    <2>3. CASE Head(homeNet) # <<>>
      <3>1. Home!Create(Head(homeNet))
        BY <1>3, <2>3 DEF Home!LoadAnswered
      <3> QED BY <1>1, <1>2, <2>1, <2>3, <3>1, CreateFollows
    <2> QED BY <2>2, <2>3
  <1>4. CASE Home!LoadFailed
    <2>1. goodsList' = goodsList /\ goodsList \in Catalogue \cup {<<>>}
      BY <1>4 DEF Home!LoadFailed, Home!TypeOK
    <2>2. CASE goodsList = <<>>
      <3>1. UNCHANGED <<homeLoaded, goodsKindList, hotGoodsList, broken>>
        BY <1>4, <2>2 DEF Home!LoadFailed, Home!rows
      <3> QED BY <1>1, <1>2, <2>1, <2>2, <3>1
              DEF Home!TypeOK, KindsAreOfAList, RowsFollow, Home!LoadingHasReason
    <2>3. CASE goodsList # <<>>
      <3>1. Home!Create(goodsList)
        BY <1>4, <2>3 DEF Home!LoadFailed
      <3> QED BY <1>1, <1>2, <2>1, <2>3, <3>1, CreateFollows
    <2> QED BY <2>2, <2>3
  <1> QED BY <1>3, <1>4

LEMMA HomeServed ==
    ASSUME HomeInv, Home!Serve
    PROVE  HomeInv'
  <1> USE DEF HomeInv
  <1>1. PICK i \in DOMAIN homeNet :
           \E a \in Catalogue \cup {Failed} : homeNet' = [homeNet EXCEPT ![i] = a]
    BY DEF Home!Serve
  <1>2. PICK a \in Catalogue \cup {Failed} : homeNet' = [homeNet EXCEPT ![i] = a]
    BY <1>1
  <1>3. homeNet' \in Seq(Catalogue \cup {NoAnswer, Failed}) /\ homeNet' # <<>>
    BY <1>2, WithAnother DEF Home!TypeOK
  <1>4. (tab = "home")' = (tab = "home")
        /\ UNCHANGED <<homeLoaded, goodsList, goodsKindList, hotGoodsList, refreshing, broken>>
    BY DEF Home!Serve, Home!rows
  <1> QED BY <1>3, <1>4 DEF Home!TypeOK, KindsAreOfAList, RowsFollow, Home!LoadingHasReason

LEMMA HomeRestarts ==
    ASSUME Home!Restart
    PROVE  HomeInv'
  BY EmptySeq
  DEF HomeInv, Home!Restart, Home!TypeOK, KindsAreOfAList, RowsFollow, Home!LoadingHasReason
------------------------------------------------------------------------------
(* The tab of kinds *)

LEMMA KindsAssumed ==
    /\ Len(Kinds) \in Nat \ {0}
    /\ KindsTab!Index = 1..Len(Kinds)
    /\ 1 \in KindsTab!Index
    /\ DOMAIN Kinds = 1..Len(Kinds)
    /\ NotSet \notin KindsTab!Index /\ Empty \notin KindsTab!Index /\ NotSet # Empty
    /\ \A i \in DOMAIN Kinds : Kinds[i] \in Home!KindNames
  <1>1. Kinds \in Seq(Home!KindNames) /\ Kinds # <<>>
    BY TabsAssumption DEF Home!KindNames
  <1>2. /\ Len(Kinds) \in Nat \ {0} /\ DOMAIN Kinds = 1..Len(Kinds)
        /\ \A i \in DOMAIN Kinds : Kinds[i] \in Home!KindNames
    BY <1>1
  <1>3. KindsTab!Index = 1..Len(Kinds) /\ 1 \in 1..Len(Kinds)
    BY <1>2 DEF KindsTab!Index
  <1> QED BY <1>2, <1>3, TabsAssumption

LEMMA InitKindsInv == Init => KindsInv
  <1> SUFFICES ASSUME Init PROVE KindsInv
    OBVIOUS
  <1>1. /\ tab = "other" /\ kindsLoaded = TRUE /\ hasKinds = FALSE /\ smallKinds = NotSet
        /\ pressIndex = 1 /\ param = NotSet /\ kindsNet = <<>> /\ kindsFailed = FALSE
    BY DEF Init, KindsTab!Init
  <1>2. KindsTab!TypeOK
    BY <1>1, EmptySeq, KindsAssumed DEF KindsTab!TypeOK
  <1> QED BY <1>1, <1>2 DEF KindsInv, LastIsHighlighted, HighlightedIsThere, KindsTab!LoadingHasReason

\* The tab of kinds is not touched, and not shown anew.
LEMMA KindsUntouched ==
    ASSUME KindsInv, UNCHANGED kindsState, tab' = tab \/ tab' # "kinds"
    PROVE  KindsInv'
  BY DEF KindsInv, kindsState, KindsTab!TypeOK, LastIsHighlighted, HighlightedIsThere,
         KindsTab!LoadingHasReason

LEMMA NewIsRequest ==
    ASSUME NEW op \in {"kinds", "small", "pressed"}, NEW k \in KindsTab!Index
    PROVE  /\ KindsTab!NewRequest(op, k) \in KindsTab!Request
           /\ KindsTab!NewRequest(op, k).op = op
           /\ KindsTab!NewRequest(op, k).of = k
  BY DEF KindsTab!NewRequest, KindsTab!Request

LEMMA KindsFocused ==
    ASSUME KindsInv, NEW p \in KindsTab!Index \cup {NotSet}, KindsTab!Focus(p)
    PROVE  KindsInv'
  <1> USE DEF KindsInv
  <1> DEFINE r == KindsTab!NewRequest("kinds", 1)
  <1>1. r \in KindsTab!Request /\ r.op = "kinds"
    BY NewIsRequest, KindsAssumed
  <1>2. kindsNet \in Seq(KindsTab!Request) /\ kindsNet' = Append(kindsNet, r)
    BY DEF KindsTab!Focus, KindsTab!Send, KindsTab!TypeOK
  <1> HIDE DEF r
  <1>3. kindsNet' \in Seq(KindsTab!Request) /\ kindsNet' # <<>> /\ kindsNet'[Len(kindsNet')] = r
    BY <1>1, <1>2, WithOneMore
  <1>4. /\ (tab = "kinds")' = TRUE /\ kindsLoaded' = FALSE /\ param' = p
        /\ pressIndex' = IF p = NotSet THEN pressIndex ELSE p
        /\ UNCHANGED <<hasKinds, smallKinds, kindsFailed>>
    BY DEF KindsTab!Focus
  <1>5. KindsTab!TypeOK'
    BY <1>3, <1>4 DEF KindsTab!TypeOK, KindsTab!Index, KindsTab!Request
  <1> QED BY <1>1, <1>3, <1>4, <1>5
          DEF LastIsHighlighted, HighlightedIsThere, KindsTab!LoadingHasReason

LEMMA KindsBlurred ==
    ASSUME KindsInv, KindsTab!Blur
    PROVE  KindsInv'
  <1>1. /\ (tab = "kinds")' = FALSE /\ hasKinds' = FALSE /\ smallKinds' = Empty
        /\ UNCHANGED <<kindsLoaded, pressIndex, param, kindsNet, kindsFailed>>
    BY DEF KindsTab!Blur
  <1> QED BY <1>1 DEF KindsInv, KindsTab!TypeOK, KindsTab!Index, KindsTab!Request,
                      LastIsHighlighted, HighlightedIsThere, KindsTab!LoadingHasReason

LEMMA KindsPressed ==
    ASSUME KindsInv, NEW k \in KindsTab!Index, KindsTab!Press(k)
    PROVE  KindsInv'
  <1> USE DEF KindsInv
  <1> DEFINE r == KindsTab!NewRequest("pressed", k)
  <1>1. r \in KindsTab!Request /\ r.of = k
    BY NewIsRequest
  <1>2. kindsNet \in Seq(KindsTab!Request) /\ kindsNet' = Append(kindsNet, r)
    BY DEF KindsTab!Press, KindsTab!Send, KindsTab!TypeOK
  <1> HIDE DEF r
  <1>3. kindsNet' \in Seq(KindsTab!Request) /\ kindsNet' # <<>> /\ kindsNet'[Len(kindsNet')] = r
    BY <1>1, <1>2, WithOneMore
  <1>4. /\ (tab = "kinds")' = (tab = "kinds") /\ kindsLoaded' = FALSE /\ smallKinds' = NotSet
        /\ pressIndex' = k
        /\ UNCHANGED <<hasKinds, param, kindsFailed>>
    BY DEF KindsTab!Press
  <1>5. KindsTab!TypeOK'
    BY <1>3, <1>4 DEF KindsTab!TypeOK, KindsTab!Index, KindsTab!Request
  <1> QED BY <1>1, <1>3, <1>4, <1>5
          DEF LastIsHighlighted, HighlightedIsThere, KindsTab!LoadingHasReason

\* The answer to a request for all kinds: the highlighted one is asked for, or
\* something failed.
LEMMA KindsAnswered ==
    ASSUME KindsInv, kindsNet # <<>>, KindsTab!KindsAnswered(Head(kindsNet))
    PROVE  KindsInv'
  <1> USE DEF KindsInv
  <1> DEFINE r == KindsTab!NewRequest("small", pressIndex)
             t == Tail(kindsNet)
  <1>1. r \in KindsTab!Request /\ r.of = pressIndex
    BY NewIsRequest DEF KindsTab!TypeOK
  <1>2. /\ Head(kindsNet) \in KindsTab!Request
        /\ t \in Seq(KindsTab!Request)
        /\ t # <<>> => t[Len(t)] = kindsNet[Len(kindsNet)]
    BY WithoutFirst DEF KindsTab!TypeOK
  <1>3. /\ hasKinds' = (hasKinds \/ Head(kindsNet).answer = "SUCCESS")
        /\ kindsNet' = t \o (IF hasKinds' THEN <<r>> ELSE <<>>)
        /\ kindsFailed' = (kindsFailed \/ Head(kindsNet).answer = "FAILED")
        /\ (tab = "kinds")' = (tab = "kinds")
        /\ UNCHANGED <<kindsLoaded, smallKinds, pressIndex, param>>
        /\ Head(kindsNet).answer # "none"
    BY DEF KindsTab!KindsAnswered
  <1>4. /\ kindsNet' \in Seq(KindsTab!Request)
        /\ kindsNet' # <<>> => \/ kindsNet'[Len(kindsNet')] = r
                              \/ kindsNet'[Len(kindsNet')] = kindsNet[Len(kindsNet)]
        /\ kindsNet' = <<>> => ~ hasKinds'
    <2> HIDE DEF r, t
    <2>1. CASE hasKinds'
      <3>1. kindsNet' = t \o <<r>>
        BY <1>3, <2>1
      <3> QED BY <1>1, <1>2, <3>1, WithOneMore
    <2>2. CASE ~ hasKinds'
      <3>1. kindsNet' = t
        BY <1>2, <1>3, <2>2
      <3> QED BY <1>2, <2>2, <3>1
    <2> QED BY <2>1, <2>2
  <1> HIDE DEF r, t
  <1>5. KindsTab!TypeOK'
    BY <1>3, <1>4 DEF KindsTab!TypeOK, KindsTab!Index, KindsTab!Request
  <1>6. kindsNet' = <<>> => kindsFailed'
    BY <1>2, <1>3, <1>4 DEF KindsTab!Request
  <1> QED BY <1>1, <1>3, <1>4, <1>5, <1>6
          DEF LastIsHighlighted, HighlightedIsThere, KindsTab!LoadingHasReason

\* The answer to a request for a kind: if it was the last one, the kind is the
\* highlighted one.
LEMMA SmallAnswered ==
    ASSUME KindsInv, kindsNet # <<>>, KindsTab!SmallAnswered(Head(kindsNet))
    PROVE  KindsInv'
  <1> USE DEF KindsInv
  <1> DEFINE r == Head(kindsNet)
             t == Tail(kindsNet)
  <1>1. /\ r \in KindsTab!Request
        /\ t \in Seq(KindsTab!Request)
        /\ t = <<>> => kindsNet[Len(kindsNet)] = r
        /\ t # <<>> => t[Len(t)] = kindsNet[Len(kindsNet)]
    BY WithoutFirst DEF KindsTab!TypeOK
  <1>2. /\ r.op \in {"small", "pressed"}
        /\ r.answer # "none"
        /\ smallKinds' = IF r.answer = "FAILED" THEN smallKinds
                         ELSE IF r.of \in Barren THEN Empty ELSE r.of
        /\ kindsLoaded' = (kindsLoaded \/ r.op = "pressed" \/ smallKinds' # Empty)
        /\ kindsFailed' = (r.answer = "FAILED")
        /\ kindsNet' = t
        /\ (tab = "kinds")' = (tab = "kinds")
        /\ UNCHANGED <<hasKinds, pressIndex, param>>
    BY DEF KindsTab!SmallAnswered
  <1> HIDE DEF r, t
  <1>3. r.of \in KindsTab!Index /\ (t = <<>> => r.of = pressIndex)
    BY <1>1, <1>2 DEF LastIsHighlighted, KindsTab!Request
  <1>4. KindsTab!TypeOK'
    <2>1. smallKinds' \in KindsTab!Index \cup {NotSet, Empty}
      BY <1>2, <1>3 DEF KindsTab!TypeOK
    <2>2. kindsLoaded' \in BOOLEAN
      BY <1>2
    <2>3. kindsFailed' \in BOOLEAN /\ (tab = "kinds")' \in BOOLEAN
      BY <1>2
    <2> QED BY <1>1, <1>2, <2>1, <2>2, <2>3 DEF KindsTab!TypeOK, KindsTab!Index, KindsTab!Request
  <1>5. HighlightedIsThere'
    BY <1>2, <1>3 DEF HighlightedIsThere
  <1>6. KindsTab!LoadingHasReason'
    BY <1>2, <1>3, KindsAssumed DEF KindsTab!LoadingHasReason
  <1>7. LastIsHighlighted'
    BY <1>1, <1>2 DEF LastIsHighlighted
  <1> QED BY <1>4, <1>5, <1>6, <1>7

LEMMA KindsServed ==
    ASSUME KindsInv, KindsTab!Serve
    PROVE  KindsInv'
  <1> USE DEF KindsInv
  <1>1. PICK i \in DOMAIN kindsNet :
           \E a \in {"SUCCESS", "FAILED"} : kindsNet' = [kindsNet EXCEPT ![i].answer = a]
    BY DEF KindsTab!Serve
  <1>2. PICK a \in {"SUCCESS", "FAILED"} : kindsNet' = [kindsNet EXCEPT ![i].answer = a]
    BY <1>1
  <1> DEFINE r == [kindsNet[i] EXCEPT !.answer = a]
  <1>3. kindsNet \in Seq(KindsTab!Request) /\ kindsNet[i] \in KindsTab!Request
    BY DEF KindsTab!TypeOK
  <1>4. r \in KindsTab!Request /\ r.op = kindsNet[i].op /\ r.of = kindsNet[i].of
    BY <1>3 DEF KindsTab!Request
  <1>5. kindsNet' = [kindsNet EXCEPT ![i] = r]
    BY <1>2
  <1> HIDE DEF r
  <1>6. /\ kindsNet' \in Seq(KindsTab!Request)
        /\ kindsNet # <<>> /\ kindsNet' # <<>>
        /\ kindsNet'[Len(kindsNet')] = IF i = Len(kindsNet) THEN r ELSE kindsNet[Len(kindsNet)]
    BY <1>3, <1>4, <1>5, WithAnother
  <1>7. (tab = "kinds")' = (tab = "kinds")
        /\ UNCHANGED <<kindsLoaded, hasKinds, smallKinds, pressIndex, param, kindsFailed>>
    BY DEF KindsTab!Serve
  <1>8. KindsTab!TypeOK'
    BY <1>6, <1>7 DEF KindsTab!TypeOK, KindsTab!Index, KindsTab!Request
  <1> QED BY <1>4, <1>6, <1>7, <1>8
          DEF LastIsHighlighted, HighlightedIsThere, KindsTab!LoadingHasReason

LEMMA KindsRestarts ==
    ASSUME KindsTab!Restart
    PROVE  KindsInv'
  <1>1. /\ (tab = "kinds")' = FALSE /\ kindsLoaded' = TRUE /\ hasKinds' = FALSE /\ smallKinds' = NotSet
        /\ pressIndex' = 1 /\ param' = NotSet /\ kindsNet' = <<>> /\ kindsFailed' = FALSE
    BY DEF KindsTab!Restart
  <1> QED BY <1>1, EmptySeq, KindsAssumed
          DEF KindsInv, KindsTab!TypeOK, KindsTab!Index, KindsTab!Request, LastIsHighlighted,
              HighlightedIsThere, KindsTab!LoadingHasReason
------------------------------------------------------------------------------
(* The two tabs *)

LEMMA InitIndInv == Init => IndInv
  <1> SUFFICES ASSUME Init PROVE IndInv
    OBVIOUS
  <1>1. tab = "other" /\ asked = NotSet
    BY DEF Init
  <1> QED BY <1>1, InitHomeInv, InitKindsInv DEF IndInv, AskedIsHighlighted

\* The server does not change.
LEMMA ServersOrderStays == ServersOrder' = ServersOrder
  OBVIOUS

\* A visit that is not one of a pressed kind, or one that keeps the highlighted kind.
LEMMA AskedKept ==
    ASSUME AskedIsHighlighted, asked' = NotSet \/ UNCHANGED <<asked, pressIndex>>
    PROVE  AskedIsHighlighted'
  BY ServersOrderStays DEF AskedIsHighlighted

\* The index among the home tab's kinds is the index among the server's.
LEMMA PressKindIndInv ==
    ASSUME IndInv, NEW i \in DOMAIN Kinds, PressKind(i)
    PROVE  IndInv'
  <1> USE DEF IndInv
  <1>1. /\ i \in DOMAIN goodsKindList /\ asked' = goodsKindList[i] /\ tab' = "kinds"
        /\ Home!Blur /\ KindsTab!Focus(i)
    BY DEF PressKind
  <1>2. i \in KindsTab!Index /\ i # NotSet
    BY KindsAssumed
  <1>3. HomeInv' /\ KindsInv'
    BY <1>1, <1>2, HomeComesAndGoes, KindsFocused
  <1>4. asked' \in Home!KindNames
    BY <1>1 DEF HomeInv, Home!TypeOK
  <1>5. pressIndex' = i
    BY <1>1, <1>2 DEF KindsTab!Focus
  <1>6. ServersOrder => goodsKindList = <<>> \/ goodsKindList = Kinds
    BY DEF HomeInv, KindsAreOfAList, ServersOrder
  <1>7. AskedIsHighlighted'
    <2>1. goodsKindList # <<>>
      BY <1>1
    <2> QED BY <1>1, <1>5, <1>6, <2>1, ServersOrderStays DEF AskedIsHighlighted
  <1> QED BY <1>1, <1>3, <1>4, <1>7 DEF Home!KindNames

LEMMA VisitsIndInv ==
    ASSUME IndInv, OpenHome \/ OpenKinds \/ HomeToKinds \/ KindsToHome \/ Leave
    PROVE  IndInv'
  <1> USE DEF IndInv
  <1>p. param \in KindsTab!Index \cup {NotSet}
    BY DEF KindsInv, KindsTab!TypeOK
  <1>1. CASE OpenHome
    <2>1. HomeInv' /\ KindsInv'
      BY <1>1, HomeComesAndGoes, KindsUntouched DEF OpenHome
    <2>2. AskedIsHighlighted'
      BY <1>1, AskedKept DEF OpenHome, kindsState
    <2> QED BY <1>1, <2>1, <2>2 DEF OpenHome, Home!KindNames
  <1>2. CASE OpenKinds
    <2>1. HomeInv' /\ KindsInv'
      BY <1>2, <1>p, HomeUntouched, KindsFocused DEF OpenKinds
    <2>2. AskedIsHighlighted'
      BY <1>2, AskedKept DEF OpenKinds
    <2> QED BY <1>2, <2>1, <2>2 DEF OpenKinds, Home!KindNames
  <1>3. CASE HomeToKinds
    <2>1. HomeInv' /\ KindsInv'
      BY <1>3, <1>p, HomeComesAndGoes, KindsFocused DEF HomeToKinds
    <2>2. AskedIsHighlighted'
      BY <1>3, AskedKept DEF HomeToKinds
    <2> QED BY <1>3, <2>1, <2>2 DEF HomeToKinds, Home!KindNames
  <1>4. CASE KindsToHome
    <2>1. HomeInv' /\ KindsInv'
      BY <1>4, HomeComesAndGoes, KindsBlurred DEF KindsToHome
    <2>2. AskedIsHighlighted'
      BY <1>4, AskedKept DEF KindsToHome, KindsTab!Blur
    <2> QED BY <1>4, <2>1, <2>2 DEF KindsToHome, Home!KindNames
  <1>5. CASE Leave
    <2>1. tab' = "other" /\ asked' = asked
      BY <1>5 DEF Leave
    <2>2. CASE Home!Blur /\ UNCHANGED kindsState
      <3>1. HomeInv' /\ KindsInv'
        BY <2>1, <2>2, HomeComesAndGoes, KindsUntouched
      <3>2. AskedIsHighlighted'
        BY <2>1, <2>2, AskedKept DEF kindsState
      <3> QED BY <2>1, <3>1, <3>2 DEF Home!KindNames
    <2>3. CASE KindsTab!Blur /\ UNCHANGED homeState
      <3>1. HomeInv' /\ KindsInv'
        BY <2>1, <2>3, HomeUntouched, KindsBlurred
      <3>2. AskedIsHighlighted'
        BY <2>1, <2>3, AskedKept DEF KindsTab!Blur
      <3> QED BY <2>1, <3>1, <3>2 DEF Home!KindNames
    <2> QED BY <1>5, <2>2, <2>3 DEF Leave
  <1> QED BY <1>1, <1>2, <1>3, <1>4, <1>5

LEMMA StepIndInv == IndInv /\ [Next]_vars => IndInv'
  <1> SUFFICES ASSUME IndInv, [Next]_vars PROVE IndInv'
    OBVIOUS
  <1> USE DEF IndInv
  <1>1. CASE OpenHome \/ OpenKinds \/ HomeToKinds \/ KindsToHome \/ Leave
    BY <1>1, VisitsIndInv
  <1>2. CASE \E i \in DOMAIN Kinds : PressKind(i)
    BY <1>2, PressKindIndInv
  <1>3. ASSUME NEW k \in DOMAIN Kinds, PressMain(k)
        PROVE  IndInv'
    <2>1. UNCHANGED <<tab, homeState>> /\ asked' = NotSet /\ KindsTab!Press(k)
      BY <1>3 DEF PressMain
    <2>2. HomeInv' /\ KindsInv'
      BY <2>1, HomeUntouched, KindsPressed, KindsAssumed
    <2>3. AskedIsHighlighted'
      BY <2>1, AskedKept
    <2> QED BY <2>1, <2>2, <2>3 DEF Home!KindNames
  <1>4. CASE HomeSteps
    <2>1. UNCHANGED <<tab, asked, kindsState>>
      BY <1>4 DEF HomeSteps
    <2>2. HomeInv'
      BY <1>4, HomeComesAndGoes, HomeAnswers, HomeServed DEF HomeSteps
    <2>3. KindsInv' /\ AskedIsHighlighted'
      BY <2>1, KindsUntouched, AskedKept DEF kindsState
    <2> QED BY <2>1, <2>2, <2>3 DEF Home!KindNames
  <1>5. CASE KindsSteps
    <2>1. UNCHANGED <<tab, asked, homeState>>
      BY <1>5 DEF KindsSteps
    <2>2. KindsInv' /\ pressIndex' = pressIndex
      <3>1. CASE KindsTab!Answer
        <4>1. CASE KindsTab!KindsAnswered(Head(kindsNet))
          BY <3>1, <4>1, KindsAnswered DEF KindsTab!Answer, KindsTab!KindsAnswered
        <4>2. CASE KindsTab!SmallAnswered(Head(kindsNet))
          BY <3>1, <4>2, SmallAnswered DEF KindsTab!Answer, KindsTab!SmallAnswered
        <4> QED BY <3>1, <4>1, <4>2 DEF KindsTab!Answer
      <3>2. CASE KindsTab!Serve
        BY <3>2, KindsServed DEF KindsTab!Serve
      <3> QED BY <1>5, <3>1, <3>2 DEF KindsSteps
    <2>3. HomeInv' /\ AskedIsHighlighted'
      BY <2>1, <2>2, HomeUntouched, AskedKept
    <2> QED BY <2>1, <2>2, <2>3 DEF Home!KindNames
  <1>6. CASE Restart
    <2>1. tab' = "other" /\ asked' = NotSet /\ HomeInv' /\ KindsInv'
      BY <1>6, HomeRestarts, KindsRestarts DEF Restart
    <2> QED BY <2>1, AskedKept
  <1>7. CASE UNCHANGED vars
    <2>1. UNCHANGED <<tab, asked, homeState, kindsState>>
      BY <1>7 DEF vars
    <2>2. HomeInv' /\ KindsInv' /\ AskedIsHighlighted'
      BY <2>1, HomeUntouched, KindsUntouched, AskedKept DEF kindsState
    <2> QED BY <2>1, <2>2 DEF Home!KindNames
  <1> QED BY <1>1, <1>2, <1>3, <1>4, <1>5, <1>6, <1>7 DEF Next

LEMMA IndInvHolds == Spec => []IndInv
  BY InitIndInv, StepIndInv, PTL DEF Spec
------------------------------------------------------------------------------
(* The properties *)

\* The values of the two tabs; in particular the rows that the home tab cuts
\* are rows of kinds and of goods.
THEOREM TypeCorrect == Spec => []AllTypesOK
  <1>1. IndInv => AllTypesOK
    BY DEF IndInv, HomeInv, KindsInv, AllTypesOK
  <1> QED BY <1>1, IndInvHolds, PTL

\* Whatever loads come in, fail and overlap, four goods or more give the four
\* that sell best, each once and in the order of their sales (ShowPage.js:183-208).
THEOREM HotGoodsAreBestHolds == Spec => []HotGoodsAreBest
  <1>1. IndInv => HotGoodsAreBest
    <2> SUFFICES ASSUME IndInv, Home!Rendered, Len(goodsList) >= 4
                 PROVE  /\ Len(hotGoodsList) = 4
                        /\ Home!Cardinality(Home!ToSet(hotGoodsList)) = 4
                        /\ Home!ToSet(hotGoodsList) \subseteq Home!ToSet(goodsList)
                        /\ \A i \in 1..3 : Sales[hotGoodsList[i]] >= Sales[hotGoodsList[i + 1]]
                        /\ \A g \in Home!ToSet(goodsList) \ Home!ToSet(hotGoodsList) :
                              Sales[g] <= Sales[hotGoodsList[4]]
      BY DEF HotGoodsAreBest, Home!HotGoodsAreBest
    <2>1. goodsList \in Catalogue /\ goodsList # <<>>
      <3>1. goodsList # <<>>
        BY EmptySeq
      <3> QED BY <3>1 DEF IndInv, HomeInv, Home!TypeOK
    <2>2. goodsList \in Seq(Good) /\ Distinct(goodsList)
      BY <2>1, CatalogueLists
    <2>3. hotGoodsList = Home!HotGoodsOf(goodsList)
      BY <2>1 DEF IndInv, HomeInv, RowsFollow, Home!Rendered
    <2>4. /\ Len(hotGoodsList) = 4
          /\ Cardinality(ToSet(hotGoodsList)) = 4
          /\ ToSet(hotGoodsList) \subseteq ToSet(goodsList)
          /\ \A i \in 1..3 : Sales[hotGoodsList[i]] >= Sales[hotGoodsList[i + 1]]
          /\ \A g \in ToSet(goodsList) \ ToSet(hotGoodsList) : Sales[g] <= Sales[hotGoodsList[4]]
      BY <2>2, <2>3, HotGoodsOfFindsBest
    <2>5. /\ Home!ToSet(hotGoodsList) = ToSet(hotGoodsList)
          /\ Home!ToSet(goodsList) = ToSet(goodsList)
          /\ Home!Cardinality(ToSet(hotGoodsList)) = Cardinality(ToSet(hotGoodsList))
      <3>1. \A s : Home!ToSet(s) = ToSet(s)
        BY DEF Home!ToSet, ToSet
      <3>2. \A S : Home!Cardinality(S) = Cardinality(S)
        BY DEF Home!Cardinality, Cardinality
      <3> QED BY <3>1, <3>2
    <2> QED BY <2>4, <2>5
  <1> QED BY <1>1, IndInvHolds, PTL

\* The row of kinds that is rendered has the main kinds of the goods that are
\* there, each once (ShowPage.js:165-182).
THEOREM GoodsKindsComplete ==
    Spec => [](Home!Rendered /\ goodsList # <<>> => RowOf(goodsKindList, goodsList, DOMAIN goodsList))
  <1>1. IndInv => (Home!Rendered /\ goodsList # <<>> => RowOf(goodsKindList, goodsList, DOMAIN goodsList))
    <2> SUFFICES ASSUME IndInv, Home!Rendered, goodsList # <<>>
                 PROVE  RowOf(goodsKindList, goodsList, DOMAIN goodsList)
      OBVIOUS
    <2>1. goodsList \in Catalogue /\ goodsKindList = Home!KindsOf(goodsList)
      BY DEF IndInv, HomeInv, Home!TypeOK, RowsFollow, Home!Rendered
    <2> QED BY <2>1, CatalogueLists, KindsOfEachOnce
  <1> QED BY <1>1, IndInvHolds, PTL

\* Neither tab stays on "loading" without a reason (ShowPage.js:53-65,
\* ShowKindsPage.js:64-72).
THEOREM LoadingHasReasonHolds == Spec => []LoadingHasReason
  <1>1. IndInv => LoadingHasReason
    BY DEF IndInv, HomeInv, KindsInv, LoadingHasReason
  <1> QED BY <1>1, IndInvHolds, PTL

\* However focuses, blurs and presses overlap, small kinds that have settled are
\* those of the highlighted kind (ShowKindsPage.js:50-78, 95-146).
THEOREM SettledShowsHighlightedHolds == Spec => []SettledShowsHighlighted
  <1>1. IndInv => SettledShowsHighlighted
    BY DEF IndInv, KindsInv, HighlightedIsThere, SettledShowsHighlighted,
           KindsTab!SettledShowsHighlighted, KindsTab!Rendered
  <1> QED BY <1>1, IndInvHolds, PTL

\* A press on a kind of the home tab opens that kind, if the server's two lists
\* agree (ShowPage.js:298-304, ShowKindsPage.js:55-78).
THEOREM OpensPressedKindHolds == Spec => []OpensPressedKind
  <1>1. IndInv => OpensPressedKind
    BY DEF IndInv, KindsInv, HighlightedIsThere, AskedIsHighlighted, OpensPressedKind,
           KindsTab!Rendered
  <1> QED BY <1>1, IndInvHolds, PTL
==============================================================================
